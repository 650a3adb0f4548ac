-------------------------- MODULE AuditTrailProofs --------------------------
(***************************************************************************)
(* Theorems about AuditTrail for any number of puts, tool calls, kills and *)
(* refused puts, any length of the list and any skew of the dashboard's    *)
(* clock: what the verifier accepts, and what a credential hangs on.       *)
(***************************************************************************)
EXTENDS AuditTrail, SequenceTheorems, FiniteSetTheorems, WellFoundedInduction, TLAPS

-----------------------------------------------------------------------------
(* The invariants.                                                         *)

\* What each process appends.
ActionsOf(p) ==
    CASE p = "mcp"   -> {"proposed"}
      [] p = "slack" -> {"approved", "rejected", "approval_denied"}
      [] OTHER       -> {"claimed", "tool_call", "awaiting_approval",
                         "write_credentials_issued", "done", "reclaimed_stale"}

Actions == ActionsOf("mcp") \cup ActionsOf("slack") \cup ActionsOf("worker")

Entries(p) == [action : ActionsOf(p), parent : Nat]
Keys       == Nat \X (Nat \ {0})
Hashes     == Keys \cup {NoHash}

Items == [ts : Nat, seq : Nat \ {0}, by : Procs \cup {"web"}, action : Actions,
          prev : Hashes, step : Nat, parent : Nat, saw : Nat, nth : Nat \ {0}]

\* An item of the store's code has its number for a step id, one of the dashboard none.
Shaped(e) == IF e.by = "web" THEN e.step = NoStep
             ELSE e.action \in ActionsOf(e.by) /\ e.step = e.seq

ProcsTyped ==
    /\ todo = [p \in Procs |-> todo[p]]
    /\ \A p \in Procs : todo[p] \in Seq(Entries(p))
    /\ prev \in [Procs -> Hashes]
    /\ stamp \in [Procs -> Hashes]
    /\ \A p \in Procs : pc[p] = "stamped" => stamp[p] \in Keys
    /\ saw \in [Procs -> Nat]
    /\ deciding \in {"no", "approved", "rejected"}

\* The items are in the order of their keys, and no two puts have the same number.
ItemsTyped ==
    /\ items \in Seq(Items)
    /\ \A i \in DOMAIN items : Shaped(items[i]) /\ items[i].nth <= puts
    /\ \A i, k \in DOMAIN items : i < k => Before(Key(items[i]), Key(items[k]))
    /\ \A i, k \in DOMAIN items : items[i].nth = items[k].nth => i = k

TypedInv == TypeOK /\ ProcsTyped /\ ItemsTyped

\* The dashboard has put nothing.
Ours == \A e \in Events : e.by # "web"

\* h is what a query returns after the first n puts.
LastOf(h, n) ==
    \/ n = 0 /\ h = NoHash
    \/ \E d \in Events :
          /\ d.nth <= n /\ h = Key(d)
          /\ \A c \in Events : c.nth <= n => c = d \/ Before(Key(c), Key(d))

\* As long as all items are the store's: every put is there, and whoever has looked
\* has the hash of what was last when it looked.
ChainInv ==
    Ours => /\ \A n \in 1..puts : \E e \in Events : e.nth = n
            /\ \A e \in Events : e.saw < e.nth /\ LastOf(e.prev, e.saw)
            /\ \A p \in Procs : pc[p] # "idle" => saw[p] <= puts /\ LastOf(prev[p], saw[p])

Has(p, a)   == \E i \in DOMAIN todo[p] : todo[p][i].action = a
Wrote(p, a) == \E e \in Events : e.by = p /\ e.action = a

\* Among the first n puts is a step of the gate with this id.
GateStep(events, s, n) ==
    \E e \in events : e.by \in Procs /\ e.action \in Gates /\ e.step = s /\ e.nth <= n

\* The status of the job, against what the worker has still to append.
WorkerInv ==
    /\ pc["worker"] = "stamped" => seq["worker"] >= 2
    /\ status \in {"absent", "pending"} => todo["worker"] = <<>>
    /\ status = "preparing" =>
         /\ working
         /\ todo["worker"] = <<>> => seq["worker"] >= 2
         /\ \A i \in DOMAIN todo["worker"] : todo["worker"][i].action = "claimed"
    /\ status \notin {"absent", "pending", "preparing"} =>
         /\ seq["worker"] >= 2
         /\ pc["worker"] = "stamped" => stamp["worker"][2] >= 2
    /\ status \in {"awaiting_approval", "approved"} =>
         Has("worker", "awaiting_approval") \/ Wrote("worker", "awaiting_approval")
    /\ status \in {"executing", "pushing"} =>
         working /\ ~Has("worker", "awaiting_approval") /\ Wrote("worker", "awaiting_approval")

\* The gate is opened by an event that no item of the dashboard replaces, and
\* decided by one of the two.
GateInv ==
    /\ \A e \in Events : e.action = "awaiting_approval" => e.seq >= 2
    /\ deciding # "no" \/ Has("slack", "approved") \/ Wrote("slack", "approved") =>
         status \in {"approved", "executing", "pushing", "ended"}
    /\ Has("slack", "approved") \/ Wrote("slack", "approved") => deciding = "no"

\* What a credential hangs on, from the moment the worker has looked for it.
CredentialInv ==
    /\ \A i \in DOMAIN todo["worker"] :
         todo["worker"][i].action = "write_credentials_issued" /\ puts <= Limit =>
             GateStep(Events, todo["worker"][i].parent, puts)
    /\ \A c \in Events :
         c.action = "write_credentials_issued" /\ c.nth <= Limit + 1 => GateStep(Events, c.parent, c.nth - 1)

TraceInv == lost = 0 => WorkerInv /\ GateInv /\ CredentialInv

-----------------------------------------------------------------------------
(* Natural numbers.                                                        *)

LessThan == OpToRel(<, Nat)

LEMMA LessThanIs == \A x, y \in Nat : x < y => <<x, y>> \in LessThan
<1> SUFFICES ASSUME NEW x \in Nat, NEW y \in Nat, x < y PROVE <<x, y>> \in LessThan
    OBVIOUS
<1>1. <<x, y>> \in Nat \X Nat /\ <<x, y>>[1] < <<x, y>>[2]
    OBVIOUS
<1>2. LessThan = {p \in Nat \X Nat : p[1] < p[2]}
    BY Zenon DEF LessThan, OpToRel
<1> QED
    BY <1>1, <1>2

\* A set of numbers has a least element.
LEMMA HasLeast ==
  ASSUME NEW S, S \subseteq Nat, S # {}
  PROVE  \E x \in S : \A y \in S : x <= y
<1>1. IsWellFoundedOn(LessThan, Nat)
    BY NatLessThanWellFounded, Zenon DEF LessThan
<1>2. PICK x \in S : \A y \in S : ~(<<y, x>> \in LessThan)
    BY <1>1, WFMin
<1>3. ASSUME NEW y \in S PROVE x <= y
    <2>1. ~(y < x)
        BY <1>2, LessThanIs, Zenon
    <2> QED
        BY <2>1
<1> QED
    BY <1>3

\* ... and a greatest one, if it is bounded.
LEMMA HasGreatest ==
  ASSUME NEW S, NEW n \in Nat, S \subseteq 0..n, S # {}
  PROVE  \E x \in S : \A y \in S : y <= x
<1> DEFINE B == {x \in Nat : \A y \in S : y <= x}
<1>1. B # {} /\ B \subseteq Nat
    <2>1. n \in B
        OBVIOUS
    <2> QED
        BY <2>1
<1>2. PICK x \in B : \A y \in B : x <= y
    <2> HIDE DEF B
    <2> QED
        BY <1>1, HasLeast
<1>3. CASE x \in S
    BY <1>3
<1>4. CASE x \notin S
    <2>1. PICK s \in S : TRUE
        OBVIOUS
    <2>2. x \in Nat /\ s \in Nat /\ s <= x /\ s # x
        BY <1>4, <2>1
    <2>3. x - 1 \in Nat
        BY <2>2
    <2>4. \A y \in S : y <= x - 1
        BY <1>4
    <2> QED
        BY <1>2, <2>3, <2>4
<1> QED
    BY <1>3, <1>4

\* What grows from each place to the next grows.
LEMMA Grows ==
  ASSUME NEW n \in Nat, NEW f, \A k \in 1..n : f[k] \in Nat,
         \A k \in 2..n : f[k - 1] < f[k]
  PROVE  \A i, k \in 1..n : i < k => f[i] < f[k]
<1> DEFINE Bad == {k \in 1..n : \E i \in 1..n : i < k /\ f[k] <= f[i]}
<1>1. SUFFICES ASSUME Bad # {} PROVE FALSE
    OBVIOUS
<1>2. PICK k \in Bad : \A m \in Bad : k <= m
    <2>1. Bad \subseteq Nat
        OBVIOUS
    <2> HIDE DEF Bad
    <2> QED
        BY <1>1, <2>1, HasLeast
<1>3. PICK i \in 1..n : i < k /\ f[k] <= f[i]
    BY <1>2
<1>4. k - 1 \in 1..n /\ f[k - 1] < f[k] /\ i <= k - 1 /\ i # k - 1
    BY <1>2, <1>3
<1>5. k - 1 \notin Bad
    BY <1>2
<1>6. f[i] < f[k - 1]
    BY <1>3, <1>4, <1>5
<1> QED
    BY <1>2, <1>3, <1>4, <1>6

-----------------------------------------------------------------------------
(* The items.                                                              *)

LEMMA BeforeIsOrder ==
  /\ \A k, l \in Keys : Before(k, l) => k # l /\ ~Before(l, k)
  /\ \A k, l, m \in Keys : Before(k, l) /\ Before(l, m) => Before(k, m)
  /\ \A k, l \in Keys : k = l \/ Before(k, l) \/ Before(l, k)
  BY DEF Before, Keys

LEMMA KeyIsHash == \A k \in Keys : k # NoHash
<1> SUFFICES ASSUME NEW k \in Keys PROVE k # NoHash
    OBVIOUS
<1>1. k = <<k[1], k[2]>>
    BY DEF Keys
<1> QED
    BY <1>1 DEF NoHash

LEMMA EventIs ==
  ASSUME ItemsTyped
  PROVE  /\ Len(items) \in Nat /\ DOMAIN items = 1..Len(items)
         /\ \A e \in Events : \E i \in DOMAIN items : e = items[i]
         /\ \A i \in DOMAIN items : items[i] \in Events
         /\ \A e \in Events : e \in Items /\ Key(e) \in Keys /\ Shaped(e) /\ e.nth <= puts
<1>1. Len(items) \in Nat /\ DOMAIN items = 1..Len(items) /\ \A i \in DOMAIN items : items[i] \in Items
    BY DEF ItemsTyped
<1>2. Events = {items[i] : i \in DOMAIN items}
    BY DEF Events, ToSet
<1>3. \A e \in Items : Key(e) \in Keys
    BY DEF Items, Key, Keys
<1> QED
    BY <1>1, <1>2, <1>3 DEF ItemsTyped

\* Keys tell the items and their order.
LEMMA KeysAreUnique ==
  ASSUME ItemsTyped, NEW i \in DOMAIN items, NEW k \in DOMAIN items
  PROVE  /\ i < k <=> Before(Key(items[i]), Key(items[k]))
         /\ Key(items[i]) = Key(items[k]) => i = k
         /\ items[i].nth = items[k].nth => i = k
<1>1. i \in Int /\ k \in Int
    BY EventIs
<1>2. Key(items[i]) \in Keys /\ Key(items[k]) \in Keys
    BY EventIs
<1>3. /\ i < k => Before(Key(items[i]), Key(items[k]))
      /\ k < i => Before(Key(items[k]), Key(items[i]))
      /\ items[i].nth = items[k].nth => i = k
    BY DEF ItemsTyped
<1> QED
    BY <1>1, <1>2, <1>3, BeforeIsOrder

\* Whatever is put has its place among the items: PutItem never blocks.
LEMMA PutHasAPlace ==
  ASSUME ItemsTyped, NEW e \in Items
  PROVE  \E k \in 0..Len(items) :
            /\ \A i \in DOMAIN items : i <= k <=> Before(Key(items[i]), Key(e))
            /\ \E m \in k..Len(items) : \A i \in DOMAIN items : i > m <=> Before(Key(e), Key(items[i]))
<1> DEFINE n     == Len(items)
           Low   == {i \in 0..n : i # 0 => Before(Key(items[i]), Key(e))}
           Rests == {i \in 0..n : i # 0 => ~Before(Key(e), Key(items[i]))}
<1>1. n \in Nat /\ DOMAIN items = 1..n
    BY EventIs
<1>2. Key(e) \in Keys /\ \A i \in 1..n : Key(items[i]) \in Keys
    BY <1>1, EventIs DEF Items, Key, Keys
<1>3. \A i, j \in 1..n : i < j => Before(Key(items[i]), Key(items[j]))
    BY <1>1 DEF ItemsTyped
<1>4. Low \subseteq 0..n /\ 0 \in Low /\ Rests \subseteq 0..n /\ 0 \in Rests
    BY <1>1
<1>5. PICK k \in Low : \A y \in Low : y <= k
    <2> HIDE DEF n, Low
    <2> QED
        BY <1>1, <1>4, HasGreatest
<1>6. PICK m \in Rests : \A y \in Rests : y <= m
    <2> HIDE DEF n, Rests
    <2> QED
        BY <1>1, <1>4, HasGreatest
<1>7. \A i \in 1..n : i <= k => Before(Key(items[i]), Key(e))
    <2>1. SUFFICES ASSUME NEW i \in 1..n, i <= k PROVE Before(Key(items[i]), Key(e))
        OBVIOUS
    <2>2. k \in 1..n /\ Before(Key(items[k]), Key(e))
        BY <1>1, <2>1
    <2>3. i = k \/ Before(Key(items[i]), Key(items[k]))
        BY <1>1, <1>3, <2>1, <2>2
    <2> QED
        BY <1>2, <2>2, <2>3, BeforeIsOrder
<1>8. \A i \in 1..n : Before(Key(items[i]), Key(e)) => i <= k
    BY <1>1, <1>5
<1>9. \A i \in 1..n : i > m => Before(Key(e), Key(items[i]))
    <2>1. SUFFICES ASSUME NEW i \in 1..n, i > m PROVE i \notin Rests
        OBVIOUS
    <2>2. i \in Rests => i <= m
        BY <1>6
    <2> QED
        BY <1>1, <1>4, <2>1, <2>2
<1>10. \A i \in 1..n : Before(Key(e), Key(items[i])) => i > m
    <2>1. SUFFICES ASSUME NEW i \in 1..n, Before(Key(e), Key(items[i])), i <= m PROVE FALSE
        BY <1>1
    <2>2. m \in 1..n /\ ~Before(Key(e), Key(items[m]))
        BY <1>1, <2>1
    <2>3. i = m \/ Before(Key(items[i]), Key(items[m]))
        BY <1>1, <1>3, <2>1, <2>2
    <2> QED
        BY <1>2, <2>1, <2>2, <2>3, BeforeIsOrder
<1>11. k \in Rests
    <2>1. k \in 1..n => ~Before(Key(e), Key(items[k]))
        BY <1>2, <1>5, BeforeIsOrder
    <2> QED
        BY <1>1, <2>1
<1>12. k \in 0..n /\ m \in k..n
    BY <1>1, <1>6, <1>11
<1> QED
    BY <1>1, <1>7, <1>8, <1>9, <1>10, <1>12

\* A put keeps the items in order and replaces what is under the key.
LEMMA PutIs ==
  ASSUME TypedInv, NEW e \in Items, Shaped(e), e.nth = puts + 1, PutItem(e)
  PROVE  /\ ItemsTyped'
         /\ Events' = {d \in Events : Key(d) # Key(e)} \cup {e}
         /\ puts' = puts + 1
<1>1. puts \in Nat /\ items \in Seq(Items) /\ puts' = puts + 1
    BY DEF TypedInv, TypeOK, ItemsTyped, PutItem
<1>a. PICK k \in 0..Len(items) :
        /\ \A i \in DOMAIN items : i <= k <=> Before(Key(items[i]), Key(e))
        /\ \E m \in k..Len(items) :
             /\ \A i \in DOMAIN items : i > m <=> Before(Key(e), Key(items[i]))
             /\ items' = SubSeq(items, 1, k) \o <<e>> \o SubSeq(items, m + 1, Len(items))
    BY DEF PutItem
<1>b. PICK m \in k..Len(items) :
        /\ \A i \in DOMAIN items : i > m <=> Before(Key(e), Key(items[i]))
        /\ items' = SubSeq(items, 1, k) \o <<e>> \o SubSeq(items, m + 1, Len(items))
    BY <1>a
<1>2. /\ \A i \in DOMAIN items : i <= k <=> Before(Key(items[i]), Key(e))
      /\ \A i \in DOMAIN items : i > m <=> Before(Key(e), Key(items[i]))
      /\ items' = SubSeq(items, 1, k) \o <<e>> \o SubSeq(items, m + 1, Len(items))
    BY <1>a, <1>b
<1>3. Len(items) \in Nat /\ DOMAIN items = 1..Len(items) /\ k \in Nat /\ m \in Nat
      /\ k <= m /\ m <= Len(items)
    BY <1>1, <1>2
<1> DEFINE a == SubSeq(items, 1, k)
           b == SubSeq(items, m + 1, Len(items))
<1>4. a \in Seq(Items) /\ Len(a) = k /\ \A i \in 1..k : a[i] = items[i]
    BY <1>1, <1>3
<1>5. /\ b \in Seq(Items) /\ Len(b) = Len(items) - m
      /\ \A i \in 1..(Len(items) - m) : b[i] = items[m + i]
    <2>1. \A i \in (m + 1)..Len(items) : items[i] \in Items
        BY <1>1, <1>3
    <2>2. /\ b \in Seq(Items)
          /\ Len(b) = IF m + 1 <= Len(items) THEN Len(items) - (m + 1) + 1 ELSE 0
          /\ \A i \in 1..(Len(items) - (m + 1) + 1) : b[i] = items[(m + 1) + i - 1]
        <3> HIDE DEF b
        <3>1. m + 1 \in Int /\ Len(items) \in Int
            BY <1>3
        <3> QED
            BY <2>1, <3>1, SubSeqProperties DEF b
    <2> QED
        BY <1>3, <2>2
<1>6. <<e>> \in Seq(Items) /\ Len(<<e>>) = 1 /\ <<e>>[1] = e
    OBVIOUS
<1> DEFINE n == k + 1 + (Len(items) - m)
<1>7. /\ items' \in Seq(Items) /\ Len(items') = n /\ DOMAIN items' = 1..n
      /\ \A i \in 1..n : items'[i] = IF i <= k THEN items[i] ELSE IF i = k + 1 THEN e
                                     ELSE items[m + i - (k + 1)]
    <2> HIDE DEF a, b
    <2>1. a \o <<e>> \in Seq(Items) /\ Len(a \o <<e>>) = k + 1
          /\ \A i \in 1..(k + 1) : (a \o <<e>>)[i] = IF i <= k THEN items[i] ELSE e
        BY <1>3, <1>4, <1>6, ConcatProperties
    <2> DEFINE c == a \o <<e>>
    <2> HIDE DEF c
    <2>2. items' = c \o b /\ c \in Seq(Items) /\ Len(c) = k + 1
          /\ \A i \in 1..(k + 1) : c[i] = IF i <= k THEN items[i] ELSE e
        BY <1>2, <2>1 DEF a, b, c
    <2>3. /\ c \o b \in Seq(Items) /\ Len(c \o b) = Len(c) + Len(b)
          /\ \A i \in 1..(Len(c) + Len(b)) : (c \o b)[i] = IF i <= Len(c) THEN c[i] ELSE b[i - Len(c)]
        BY <1>5, <2>2, ConcatProperties
    <2>4. /\ items' \in Seq(Items) /\ Len(items') = n
          /\ \A i \in 1..n : items'[i] = IF i <= k + 1 THEN c[i] ELSE b[i - (k + 1)]
        BY <1>3, <1>5, <2>2, <2>3
    <2>5. ASSUME NEW i \in 1..n
          PROVE  items'[i] = IF i <= k THEN items[i] ELSE IF i = k + 1 THEN e
                             ELSE items[m + i - (k + 1)]
        <3>1. CASE i <= k + 1
            BY <1>3, <2>2, <2>4, <3>1
        <3>2. CASE i > k + 1
            <4>1. i - (k + 1) \in 1..(Len(items) - m) /\ ~(i <= k + 1) /\ ~(i <= k) /\ i # k + 1
                BY <1>3, <3>2
            <4>2. items'[i] = b[i - (k + 1)] /\ b[i - (k + 1)] = items[m + (i - (k + 1))]
                BY <1>5, <2>4, <4>1
            <4>3. m + (i - (k + 1)) = m + i - (k + 1)
                BY <1>3
            <4> QED
                BY <4>1, <4>2, <4>3
        <3> QED
            BY <1>3, <3>1, <3>2
    <2>6. n \in Nat /\ DOMAIN items' = 1..n
        BY <1>3, <2>4
    <2> QED
        BY <2>4, <2>5, <2>6
<1> HIDE DEF a, b
\* Each new place is that of an old one, or of e.
<1> DEFINE New == (1..n) \ {k + 1}
           old(i) == IF i <= k THEN i ELSE m + i - (k + 1)
<1>8. ASSUME NEW i \in New
      PROVE  /\ old(i) \in DOMAIN items /\ items'[i] = items[old(i)]
             /\ i <= k <=> old(i) <= k
             /\ i > k + 1 <=> old(i) > m
    BY <1>3, <1>7
<1>9. ASSUME NEW i \in New, NEW j \in New
      PROVE  /\ i < j => old(i) < old(j)
             /\ old(i) = old(j) => i = j
    BY <1>3
<1>10. ASSUME NEW i \in DOMAIN items, i <= k \/ i > m
       PROVE  \E j \in New : old(j) = i
    <2>1. CASE i <= k
        <3>1. i \in New /\ old(i) = i
            BY <1>3, <2>1
        <3> QED
            BY <3>1
    <2>2. CASE i > m
        <3>1. i - m + k + 1 \in New /\ old(i - m + k + 1) = i
            BY <1>3, <2>2
        <3> QED
            BY <3>1
    <2> QED
        BY <1>10, <2>1, <2>2
<1>11. /\ k + 1 \in 1..n /\ items'[k + 1] = e /\ Key(e) \in Keys
       /\ \A i \in 1..n : i \in New \/ i = k + 1
       /\ \A i \in New : i \in Nat /\ i \in 1..n /\ (i < k + 1 => i <= k)
    BY <1>3, <1>7 DEF Items, Keys, Key
<1>12. DOMAIN items' = 1..n /\ items' \in Seq(Items)
    BY <1>7
<1> HIDE DEF n, New, old
<1>13. ASSUME NEW i \in New
       PROVE  /\ items'[i] \in Events /\ Key(items'[i]) # Key(e) /\ Key(items'[i]) \in Keys
              /\ Shaped(items'[i]) /\ items'[i].nth \in Nat /\ items'[i].nth <= puts /\ items'[i].nth # puts + 1
              /\ i <= k => Before(Key(items'[i]), Key(e))
              /\ i > k + 1 => Before(Key(e), Key(items'[i]))
    <2>1. /\ items'[i] \in Events /\ Key(items'[i]) \in Keys /\ Shaped(items'[i])
          /\ items'[i].nth <= puts /\ items'[i] \in Items
        BY <1>8, EventIs DEF TypedInv
    <2>2. /\ i <= k => Before(Key(items'[i]), Key(e))
          /\ i > k + 1 => Before(Key(e), Key(items'[i]))
        BY <1>2, <1>8
    <2>3. i <= k \/ i > k + 1
        BY <1>3, <1>11 DEF New
    <2>4. items'[i].nth \in Nat
        BY <2>1 DEF Items
    <2>5. items'[i].nth # puts + 1
        BY <1>1, <2>1, <2>4
    <2> QED
        BY <1>11, <2>1, <2>2, <2>3, <2>4, <2>5, BeforeIsOrder
<1>14. ItemsTyped'
    <2>1. \A i \in 1..n : Shaped(items'[i]) /\ items'[i].nth <= puts'
        <3>1. \A i \in New : items'[i].nth <= puts'
            <4> SUFFICES ASSUME NEW i \in New PROVE items'[i].nth <= puts'
                OBVIOUS
            <4>1. items'[i].nth \in Nat /\ items'[i].nth <= puts
                BY <1>13
            <4> QED
                BY <1>1, <4>1
        <3>2. e.nth <= puts'
            BY <1>1
        <3> QED
            BY <1>11, <1>13, <3>1, <3>2
    <2>2. ASSUME NEW i \in 1..n, NEW j \in 1..n, i < j
          PROVE  Before(Key(items'[i]), Key(items'[j]))
        <3>1. CASE i = k + 1 /\ j \in New
            BY <1>11, <1>13, <2>2, <3>1
        <3>2. CASE j = k + 1 /\ i \in New
            BY <1>11, <1>13, <2>2, <3>2
        <3>3. CASE i \in New /\ j \in New
            BY <1>8, <1>9, <2>2, <3>3 DEF TypedInv, ItemsTyped
        <3>4. ~(i = k + 1 /\ j = k + 1)
            BY <1>3, <2>2
        <3> QED
            BY <1>11, <3>1, <3>2, <3>3, <3>4
    <2>3. ASSUME NEW i \in 1..n, NEW j \in 1..n, items'[i].nth = items'[j].nth
          PROVE  i = j
        <3>1. CASE i \in New /\ j \in New
            <4>1. old(i) = old(j)
                BY <1>8, <2>3, <3>1 DEF TypedInv, ItemsTyped
            <4> QED
                BY <1>9, <3>1, <4>1
        <3>2. CASE i = k + 1 \/ j = k + 1
            BY <1>11, <1>13, <2>3, <3>2
        <3> QED
            BY <1>11, <3>1, <3>2
    <2> QED
        BY <1>12, <2>1, <2>2, <2>3 DEF ItemsTyped, Key, Before, Shaped
<1>15. Events' = {d \in Events : Key(d) # Key(e)} \cup {e}
    <2>1. Events = {items[i] : i \in DOMAIN items} /\ Events' = {items'[i] : i \in 1..n}
        BY <1>12 DEF Events, ToSet
    <2>2. \A i \in 1..n : items'[i] = e \/ (items'[i] \in Events /\ Key(items'[i]) # Key(e))
        BY <1>11, <1>13
    <2>3. ASSUME NEW i \in DOMAIN items, Key(items[i]) # Key(e)
          PROVE  \E j \in 1..n : items'[j] = items[i]
        <3>1. Key(items[i]) \in Keys
            BY EventIs DEF TypedInv
        <3>2. i <= k \/ i > m
            BY <1>2, <1>11, <2>3, <3>1, BeforeIsOrder
        <3> QED
            BY <1>8, <1>10, <1>11, <3>2
    <2> QED
        BY <1>11, <2>1, <2>2, <2>3
<1> QED
    BY <1>1, <1>14, <1>15

-----------------------------------------------------------------------------
(* The types.                                                              *)

LEMMA InitTyped == Init => TypedInv
<1> SUFFICES ASSUME Init PROVE TypedInv
    OBVIOUS
<1>1. TypeOK
    <2>1. MaxTime \in Nat /\ MaxLost \in Nat
        BY AuditAssumption DEF AuditAssumption
    <2>2. status \in Statuses /\ clock \in 0..MaxTime /\ lost \in 0..MaxLost
        BY <2>1 DEF Init, Statuses
    <2>3. /\ seq \in [Procs -> Nat \ {0}] /\ pc \in [Procs -> {"idle", "looked", "stamped"}]
          /\ \A p \in Procs : pc[p] = "idle"
        BY DEF Init
    <2> QED
        BY <2>2, <2>3 DEF Init, TypeOK, NoStep
<1>2. ProcsTyped
    BY DEF Init, ProcsTyped, Hashes, NoHash
<1>3. ItemsTyped
    BY DEF Init, ItemsTyped
<1> QED
    BY <1>1, <1>2, <1>3 DEF TypedInv

\* What a process has next to append is its own.
LEMMA HeadIs ==
  ASSUME TypedInv, NEW p \in Procs, todo[p] # <<>>
  PROVE  /\ Head(todo[p]) \in Entries(p) /\ Tail(todo[p]) \in Seq(Entries(p))
         /\ Len(Tail(todo[p])) = Len(todo[p]) - 1
         /\ \A i \in DOMAIN Tail(todo[p]) : i + 1 \in DOMAIN todo[p] /\ Tail(todo[p])[i] = todo[p][i + 1]
         /\ 1 \in DOMAIN todo[p] /\ Head(todo[p]) = todo[p][1]
<1>1. todo[p] \in Seq(Entries(p))
    BY DEF TypedInv, ProcsTyped
<1> QED
    BY <1>1, HeadTailProperties

LEMMA EventIsItem ==
  ASSUME TypedInv, NEW p \in Procs, pc[p] = "stamped"
  PROVE  /\ Event(p) \in Items /\ Shaped(Event(p)) /\ Event(p).nth = puts + 1
         /\ Key(Event(p)) = stamp[p] /\ Event(p).by = p /\ p # "web"
         /\ Event(p).action = todo[p][1].action /\ Event(p).parent = todo[p][1].parent
         /\ Event(p).prev = prev[p] /\ Event(p).saw = saw[p]
         /\ Event(p).step = stamp[p][2] /\ Event(p).seq = stamp[p][2]
         /\ stamp[p][2] \in Nat \ {0}
<1>1. stamp[p] \in Keys /\ todo[p] # <<>> /\ puts \in Nat /\ prev[p] \in Hashes /\ saw[p] \in Nat
    BY DEF TypedInv, ProcsTyped, TypeOK
<1>2. Head(todo[p]) \in Entries(p) /\ Head(todo[p]) = todo[p][1]
    BY <1>1, HeadIs
<1>3. stamp[p][1] \in Nat /\ stamp[p][2] \in Nat \ {0} /\ stamp[p] = <<stamp[p][1], stamp[p][2]>>
    BY <1>1 DEF Keys
<1>4. /\ Head(todo[p]).action \in ActionsOf(p) /\ Head(todo[p]).parent \in Nat
    BY <1>2 DEF Entries
<1>5. Head(todo[p]).action \in Actions
    BY <1>4 DEF Actions, Procs
<1>6. p # "web" /\ p \in Procs \cup {"web"}
    BY DEF Procs
<1>7. Event(p) \in Items
    BY <1>1, <1>3, <1>4, <1>5, <1>6 DEF Event, Items
<1> QED
    BY <1>1, <1>2, <1>3, <1>4, <1>6, <1>7 DEF Event, Shaped, Key

\* An item with a step of the gate, if there is any, is what ApprovalStep returns.
LEMMA ApprovalStepIs ==
  ASSUME ItemsTyped
  PROVE  /\ ApprovalStep(items) \in Nat
         /\ (\E e \in Events : e.action \in Gates /\ e.step # NoStep) =>
               \E e \in Events : e.action \in Gates /\ e.step # NoStep /\ e.step = ApprovalStep(items)
<1> DEFINE gates == {i \in DOMAIN items : items[i].action \in Gates /\ items[i].step # NoStep}
<1>1. /\ gates \subseteq 0..Len(items) /\ Len(items) \in Nat
      /\ \A i \in DOMAIN items : items[i] \in Events /\ items[i].step \in Nat
    BY EventIs DEF Items
<1>2. CASE gates = {}
    <2>1. ApprovalStep(items) = NoStep
        BY <1>2 DEF ApprovalStep
    <2>2. ~\E e \in Events : e.action \in Gates /\ e.step # NoStep
        BY <1>2, EventIs
    <2> QED
        BY <2>1, <2>2 DEF NoStep
<1>3. CASE gates # {}
    <2>1. \E i \in gates : \A k \in gates : k <= i
        <3> HIDE DEF gates
        <3> QED
            BY <1>1, <1>3, HasGreatest
    <2> DEFINE last == CHOOSE i \in gates : \A k \in gates : k <= i
    <2>2. last \in gates
        BY <2>1
    <2>3. ApprovalStep(items) = items[last].step
        BY <1>3 DEF ApprovalStep
    <2> HIDE DEF last
    <2> QED
        BY <1>1, <2>2, <2>3
<1> QED
    BY <1>2, <1>3

LEMMA ListIs ==
  ASSUME ItemsTyped
  PROVE  ApprovalStep(List(Limit)) \in Nat
<1>1. Limit \in Nat \ {0}
    BY AuditAssumption DEF AuditAssumption
<1> DEFINE l == List(Limit)
           gates == {i \in DOMAIN l : l[i].action \in Gates /\ l[i].step # NoStep}
<1>2. /\ Len(items) \in Nat /\ DOMAIN items = 1..Len(items) /\ items \in Seq(Items)
      /\ \A i \in DOMAIN items : items[i].step \in Nat
    BY EventIs DEF Items, ItemsTyped
<1>3. \E n \in Nat : DOMAIN l = 1..n /\ \A i \in 1..n : l[i].step \in Nat
    <2>1. CASE Len(items) <= Limit
        BY <1>2, <2>1 DEF List
    <2>2. CASE Len(items) > Limit
        <3>1. /\ DOMAIN SubSeq(items, 1, Limit) = 1..Limit
              /\ \A i \in 1..Limit : SubSeq(items, 1, Limit)[i] = items[i]
            BY <1>1, <1>2, <2>2
        <3> QED
            BY <1>1, <1>2, <2>2, <3>1 DEF List
    <2> QED
        BY <1>1, <1>2, <2>1, <2>2
<1> HIDE DEF l
<1>4. PICK n \in Nat : DOMAIN l = 1..n /\ \A i \in 1..n : l[i].step \in Nat
    BY <1>3
<1>5. CASE gates = {}
    BY <1>5 DEF ApprovalStep, l, NoStep
<1>6. CASE gates # {}
    <2>1. gates \subseteq 0..n
        BY <1>4
    <2>2. \E i \in gates : \A k \in gates : k <= i
        <3> HIDE DEF gates
        <3> QED
            BY <1>4, <1>6, <2>1, HasGreatest
    <2> DEFINE last == CHOOSE i \in gates : \A k \in gates : k <= i
    <2>3. last \in gates
        BY <2>2
    <2>4. ApprovalStep(l) = l[last].step
        BY <1>6 DEF ApprovalStep
    <2> HIDE DEF last
    <2> QED
        BY <1>4, <2>3, <2>4 DEF l
<1> QED
    BY <1>5, <1>6

\* A step puts one item, or leaves the trail alone.
LEMMA StepKinds ==
  [Next]_vars => UNCHANGED <<items, puts>> \/ WebPuts \/ \E p \in Procs : Put(p)
  BY DEF Next, vars, Tick, Look, Stamp, PutRefused, Restart, Takes, Propose, Claim, Prepared, Issue,
         End, Reclaim, SlackDecides, SlackDenies, WebDecides

WebItem(t) == [ts |-> t, seq |-> 1, by |-> "web", action |-> deciding, prev |-> NoHash,
               step |-> NoStep, parent |-> NoStep, saw |-> puts, nth |-> puts + 1]

\* What holds of the trail after a put of the dashboard.
LEMMA WebPutIs ==
  ASSUME TypedInv, WebPuts
  PROVE  /\ ItemsTyped' /\ puts' = puts + 1 /\ deciding # "no" /\ deciding' = "no"
         /\ UNCHANGED <<clock, procVars, status, root, working, lost, denied>>
         /\ \E t \in 0..MaxTime :
               Events' = {d \in Events : Key(d) # Key(WebItem(t))} \cup {WebItem(t)}
<1>1. PICK t \in 0..MaxTime : PutItem(WebItem(t))
    BY DEF WebPuts, WebItem
<1>2. WebItem(t) \in Items /\ Shaped(WebItem(t)) /\ WebItem(t).nth = puts + 1
    <2>1. deciding \in Actions /\ MaxTime \in Nat /\ puts \in Nat
        BY AuditAssumption DEF WebPuts, TypedInv, TypeOK, ProcsTyped, Actions, ActionsOf, AuditAssumption
    <2> QED
        BY <2>1 DEF Items, Shaped, Hashes, NoStep, WebItem
<1>3. /\ ItemsTyped' /\ puts' = puts + 1
      /\ Events' = {d \in Events : Key(d) # Key(WebItem(t))} \cup {WebItem(t)}
    BY <1>1, <1>2, PutIs
<1> QED
    BY <1>3 DEF WebPuts

LEMMA TypedStep == TypedInv /\ [Next]_vars => TypedInv'
<1> SUFFICES ASSUME TypedInv, [Next]_vars PROVE TypedInv'
    OBVIOUS
<1> USE DEF TypedInv
<1>0. /\ MaxTime \in Nat /\ MaxLost \in Nat /\ ToolCalls \in Nat
      /\ puts \in Nat /\ clock \in Nat /\ lost \in Nat /\ root \in Nat
    BY AuditAssumption DEF AuditAssumption, TypeOK
<1>1. CASE UNCHANGED <<items, puts>>
    <2>1. ItemsTyped'
        BY <1>1 DEF ItemsTyped, Shaped, Key, Before
    <2>2. CASE UNCHANGED vars
        BY <1>1, <2>1, <2>2 DEF vars, TypeOK, ProcsTyped
    <2>3. CASE Tick
        BY <1>0, <1>1, <2>1, <2>3 DEF Tick, procVars, jobVars, TypeOK, ProcsTyped
    <2>4. ASSUME NEW p \in Procs, Look(p) PROVE TypedInv'
        <3>1. (IF items = <<>> THEN NoHash ELSE HashOf(Last(items))) \in Hashes
            <4>1. CASE items = <<>>
                BY <4>1 DEF Hashes
            <4>2. CASE items # <<>>
                <5>1. items \in Seq(Items) /\ Len(items) \in 1..Len(items)
                    BY <4>2 DEF ItemsTyped
                <5>2. Last(items) \in Items
                    BY <5>1 DEF Last
                <5> QED
                    BY <4>2, <5>2 DEF HashOf, Key, Hashes, Keys, Items
            <4> QED
                BY <4>1, <4>2
        <3>2. TypeOK'
            BY <2>4 DEF Look, jobVars, TypeOK
        <3>3. ProcsTyped'
            BY <1>0, <2>4, <3>1 DEF Look, jobVars, ProcsTyped
        <3> QED
            BY <2>1, <3>2, <3>3
    <2>5. ASSUME NEW p \in Procs, Stamp(p) PROVE TypedInv'
        <3>1. <<clock, seq[p]>> \in Keys /\ seq[p] + 1 \in Nat \ {0}
            BY <1>0 DEF TypeOK, Keys
        <3>2. TypeOK'
            BY <2>5, <3>1 DEF Stamp, jobVars, TypeOK
        <3>3. ProcsTyped'
            <4>1. /\ stamp' \in [Procs -> Hashes] /\ UNCHANGED <<todo, prev, saw, deciding>>
                  /\ \A q \in Procs : pc'[q] = "stamped" => stamp'[q] \in Keys
                BY <2>5, <3>1 DEF Stamp, jobVars, ProcsTyped, TypeOK, Hashes
            <4> QED
                BY <4>1 DEF ProcsTyped
        <3> QED
            BY <2>1, <3>2, <3>3
    <2>6. ASSUME NEW p \in Procs, PutRefused(p) \/ Restart(p) PROVE TypedInv'
        <3>1. /\ lost < MaxLost /\ lost' = lost + 1 /\ Rest(p) /\ todo' = [todo EXCEPT ![p] = <<>>]
              /\ seq' \in {seq, [seq EXCEPT ![p] = 1]} /\ working' \in BOOLEAN
              /\ UNCHANGED <<items, clock, status, root, deciding, puts, denied>>
            BY <2>6 DEF PutRefused, Restart, TypeOK
        <3>2. TypeOK'
            BY <1>0, <3>1 DEF TypeOK, Rest
        <3>3. ProcsTyped'
            <4>1. \A q \in Procs : todo'[q] = IF q = p THEN <<>> ELSE todo[q]
                BY <3>1 DEF ProcsTyped
            <4>2. todo' = [q \in Procs |-> todo'[q]] /\ \A q \in Procs : todo'[q] \in Seq(Entries(q))
                <5>1. \A q \in Procs : <<>> \in Seq(Entries(q))
                    OBVIOUS
                <5>2. \A q \in Procs : todo'[q] \in Seq(Entries(q))
                    BY <4>1, <5>1 DEF ProcsTyped
                <5> QED
                    BY <3>1, <5>2 DEF ProcsTyped
            <4>3. NoHash \in Hashes
                BY DEF Hashes
            <4>4. /\ prev' \in [Procs -> Hashes] /\ stamp' \in [Procs -> Hashes] /\ saw' \in [Procs -> Nat]
                  /\ \A q \in Procs : pc'[q] = "stamped" =>
                        q # p /\ pc[q] = "stamped" /\ stamp'[q] = stamp[q]
                BY <3>1, <4>3 DEF Rest, ProcsTyped, TypeOK, NoHash
            <4> QED
                BY <3>1, <4>2, <4>4 DEF ProcsTyped
        <3> QED
            BY <2>1, <3>2, <3>3
    <2>7. ASSUME NEW p \in Procs, NEW s \in Seq(Entries(p)), Takes(p, s),
                 status' \in Statuses, root' \in Nat, working' \in BOOLEAN, UNCHANGED deciding
          PROVE  TypedInv'
        <3>1. TypeOK'
            BY <2>7 DEF Takes, TypeOK
        <3>2. ProcsTyped'
            BY <2>7 DEF Takes, ProcsTyped
        <3> QED
            BY <2>1, <3>1, <3>2
    <2>8. ASSUME NEW p \in Procs, NEW a \in ActionsOf(p), NEW r \in Nat
          PROVE  Entry(a, r) \in Entries(p) /\ <<Entry(a, r)>> \in Seq(Entries(p))
        BY DEF Entry, Entries
    <2> USE <2>7, <2>8 DEF Statuses
    <2>9. CASE Propose
        BY <1>0, <2>9 DEF Propose, TypeOK, ActionsOf, Procs, NoStep
    <2>10. CASE Claim
        BY <1>0, <2>10 DEF Claim, TypeOK, ActionsOf, Procs, NoStep
    <2>11. CASE Prepared
        <3>1. ToolSteps \in Seq(Entries("worker"))
            BY <1>0, <2>8 DEF ToolSteps, ActionsOf, Procs
        <3>2. Append(ToolSteps, Entry("awaiting_approval", root)) \in Seq(Entries("worker"))
            BY <1>0, <2>8, <3>1 DEF ActionsOf, Procs
        <3> QED
            BY <1>0, <2>11, <3>2 DEF Prepared, TypeOK, Procs
    <2>12. CASE Issue
        <3>1. ApprovalStep(List(Limit)) \in Nat
            BY ListIs
        <3> QED
            BY <1>0, <2>12, <3>1 DEF Issue, TypeOK, ActionsOf, Procs
    <2>13. CASE End
        BY <1>0, <2>13 DEF End, TypeOK, ActionsOf, Procs
    <2>14. CASE Reclaim
        BY <1>0, <2>14 DEF Reclaim, TypeOK, ActionsOf, Procs, NoStep
    <2>15. CASE SlackDecides
        BY <1>0, <2>15 DEF SlackDecides, TypeOK, ActionsOf, Procs, NoStep
    <2>16. CASE SlackDenies
        BY <1>0, <2>16 DEF SlackDenies, TypeOK, ActionsOf, Procs, NoStep
    <2>17. CASE WebDecides
        BY <1>0, <2>1, <2>17 DEF WebDecides, procVars, TypeOK, ProcsTyped
    <2>18. ~WebPuts /\ \A p \in Procs : ~Put(p)
        <3>1. \A e : ~PutItem(e)
            BY <1>0, <1>1 DEF PutItem
        <3> QED
            BY <3>1 DEF WebPuts, Put
    <2> QED
        BY <2>2, <2>3, <2>4, <2>5, <2>6, <2>9, <2>10, <2>11, <2>12, <2>13, <2>14, <2>15,
           <2>16, <2>17, <2>18 DEF Next
<1>2. ASSUME NEW p \in Procs, Put(p) PROVE TypedInv'
    <2>1. /\ pc[p] = "stamped" /\ PutItem(Event(p)) /\ Rest(p) /\ todo' = [todo EXCEPT ![p] = Tail(@)]
          /\ root' \in {root, stamp[p][2]} /\ UNCHANGED <<clock, seq, status, working, deciding, lost, denied>>
        BY <1>2 DEF Put
    <2>2. ItemsTyped' /\ puts' = puts + 1
        BY <2>1, EventIsItem, PutIs
    <2>3. todo[p] # <<>> /\ Tail(todo[p]) \in Seq(Entries(p)) /\ stamp[p][2] \in Nat
        BY <2>1, HeadIs, EventIsItem DEF TypeOK
    <2>4. TypeOK'
        BY <1>0, <2>1, <2>2, <2>3 DEF TypeOK, Rest
    <2>5. ProcsTyped'
        <3>1. \A q \in Procs : todo'[q] = IF q = p THEN Tail(todo[p]) ELSE todo[q]
            BY <2>1 DEF ProcsTyped
        <3>2. todo' = [q \in Procs |-> todo'[q]] /\ \A q \in Procs : todo'[q] \in Seq(Entries(q))
            BY <2>1, <2>3, <3>1 DEF ProcsTyped
        <3>3. NoHash \in Hashes
            BY DEF Hashes
        <3>4. /\ prev' \in [Procs -> Hashes] /\ stamp' \in [Procs -> Hashes] /\ saw' \in [Procs -> Nat]
              /\ \A q \in Procs : pc'[q] = "stamped" => q # p /\ pc[q] = "stamped" /\ stamp'[q] = stamp[q]
            BY <2>1, <3>3 DEF Rest, ProcsTyped, TypeOK, NoHash
        <3> QED
            BY <2>1, <3>2, <3>4 DEF ProcsTyped
    <2> QED
        BY <2>2, <2>4, <2>5
<1>3. CASE WebPuts
    BY <1>0, <1>3, WebPutIs DEF procVars, TypeOK, ProcsTyped
<1> QED
    BY <1>1, <1>2, <1>3, StepKinds
\* What holds of the trail after a put of the store's code.
LEMMA PutAdds ==
  ASSUME TypedInv, NEW p \in Procs, Put(p)
  PROVE  /\ puts' = puts + 1 /\ Events' = Events \cup {Event(p)}
         /\ pc' = [pc EXCEPT ![p] = "idle"] /\ prev' = [prev EXCEPT ![p] = NoHash]
         /\ saw' = [saw EXCEPT ![p] = 0] /\ stamp' = [stamp EXCEPT ![p] = <<>>]
         /\ todo' = [todo EXCEPT ![p] = Tail(@)]
         /\ UNCHANGED <<clock, seq, status, working, deciding, lost, denied>>
<1>1. /\ pc[p] = "stamped" /\ Free(stamp[p]) /\ PutItem(Event(p)) /\ Rest(p)
      /\ todo' = [todo EXCEPT ![p] = Tail(@)]
      /\ UNCHANGED <<clock, seq, status, working, deciding, lost, denied>>
    BY DEF Put
<1>2. /\ Events' = {d \in Events : Key(d) # Key(Event(p))} \cup {Event(p)} /\ puts' = puts + 1
    BY <1>1, EventIsItem, PutIs
<1>3. \A d \in Events : Key(d) # Key(Event(p))
    BY <1>1, EventIs, EventIsItem DEF Free, TypedInv
<1> QED
    BY <1>1, <1>2, <1>3 DEF Rest

-----------------------------------------------------------------------------
(* The chain.                                                              *)

LEMMA InitChain == Init => ChainInv
<1> SUFFICES ASSUME Init PROVE ChainInv
    OBVIOUS
<1>1. Events = {} /\ puts = 0 /\ \A p \in Procs : pc[p] = "idle"
    BY DEF Init, Events, ToSet
<1> QED
    BY <1>1 DEF ChainInv

\* A later put changes nothing for who looked before it.
LEMMA LastStays ==
  ASSUME TypedInv, NEW e, e.nth = puts + 1, Events' = Events \cup {e},
         NEW h, NEW n \in Nat, n <= puts, LastOf(h, n)
  PROVE  LastOf(h, n)'
<1>1. puts \in Nat /\ ~(e.nth <= n)
    BY DEF TypedInv, TypeOK
<1> QED
    BY <1>1 DEF LastOf, Key, Before

\* What a query of the trail finds.
LEMMA LookFinds ==
  ASSUME TypedInv, Ours, \A n \in 1..puts : \E e \in Events : e.nth = n
  PROVE  LastOf(IF items = <<>> THEN NoHash ELSE HashOf(Last(items)), puts)
<1>0. puts \in Nat
    BY DEF TypedInv, TypeOK
<1>1. CASE items = <<>>
    <2>1. Events = {}
        BY <1>1 DEF Events, ToSet
    <2>2. puts = 0
        BY <1>0, <2>1
    <2> QED
        BY <1>1, <2>2 DEF LastOf
<1>2. CASE items # <<>>
    <2>1. Len(items) \in DOMAIN items /\ Last(items) = items[Len(items)]
        BY <1>2 DEF TypedInv, ItemsTyped, Last
    <2> DEFINE d == items[Len(items)]
    <2>2. d \in Events /\ d.nth <= puts /\ HashOf(d) = Key(d)
        BY <2>1, EventIs DEF TypedInv, Ours, HashOf
    <2>3. ASSUME NEW c \in Events PROVE c = d \/ Before(Key(c), Key(d))
        <3>1. PICK i \in DOMAIN items : c = items[i]
            BY EventIs DEF TypedInv
        <3>2. i = Len(items) \/ i < Len(items)
            BY <3>1, EventIs DEF TypedInv
        <3> QED
            BY <2>1, <3>1, <3>2 DEF TypedInv, ItemsTyped
    <2> HIDE DEF d
    <2> QED
        BY <1>2, <2>1, <2>2, <2>3 DEF LastOf, d
<1> QED
    BY <1>1, <1>2

LEMMA ChainStep == TypedInv /\ ChainInv /\ [Next]_vars => ChainInv'
<1> SUFFICES ASSUME TypedInv, ChainInv, [Next]_vars, Ours' PROVE ChainInv'
    BY DEF ChainInv
<1>0. puts \in Nat /\ \A p \in Procs : saw[p] \in Nat
    BY DEF TypedInv, TypeOK, ProcsTyped
<1>1. ASSUME NEW p \in Procs, Put(p) PROVE ChainInv'
    <2> DEFINE e == Event(p)
    <2>1. /\ puts' = puts + 1 /\ Events' = Events \cup {e} /\ e.nth = puts + 1 /\ e.saw = saw[p]
          /\ e.prev = prev[p] /\ pc[p] # "idle"
          /\ \A q \in Procs : pc'[q] # "idle" =>
                q # p /\ pc[q] # "idle" /\ saw'[q] = saw[q] /\ prev'[q] = prev[q]
        <3>1. pc[p] = "stamped"
            BY <1>1 DEF Put
        <3>2. pc' = [pc EXCEPT ![p] = "idle"] /\ prev' = [prev EXCEPT ![p] = NoHash]
              /\ saw' = [saw EXCEPT ![p] = 0]
            BY <1>1, PutAdds
        <3> QED
            BY <1>1, <3>1, <3>2, PutAdds, EventIsItem DEF TypedInv, TypeOK, ProcsTyped
    <2> HIDE DEF e
    <2>2. Ours
        BY <2>1 DEF Ours
    <2>3. /\ \A n \in 1..puts : \E d \in Events : d.nth = n
          /\ \A d \in Events : d.saw < d.nth /\ LastOf(d.prev, d.saw)
          /\ \A q \in Procs : pc[q] # "idle" => saw[q] <= puts /\ LastOf(prev[q], saw[q])
        BY <2>2 DEF ChainInv
    <2>4. \A n \in 1..puts' : \E d \in Events' : d.nth = n
        <3> SUFFICES ASSUME NEW n \in 1..(puts + 1) PROVE \E d \in Events' : d.nth = n
            BY <2>1
        <3>1. CASE n = puts + 1
            BY <2>1, <3>1
        <3>2. CASE n \in 1..puts
            BY <2>1, <2>3, <3>2
        <3> QED
            BY <1>0, <3>1, <3>2
    <2>5. ASSUME NEW d \in Events' PROVE d.saw < d.nth /\ LastOf(d.prev, d.saw)'
        <3>1. CASE d \in Events
            <4>1. d.saw \in Nat /\ d.nth \in Nat /\ d.nth <= puts /\ d.saw < d.nth /\ LastOf(d.prev, d.saw)
                BY <2>3, <3>1, EventIs DEF TypedInv, Items
            <4> QED
                BY <1>0, <2>1, <4>1, LastStays
        <3>2. CASE d = e
            BY <1>0, <2>1, <2>3, <3>2, LastStays
        <3> QED
            BY <2>1, <3>1, <3>2
    <2>6. ASSUME NEW q \in Procs, pc'[q] # "idle" PROVE saw'[q] <= puts' /\ LastOf(prev[q], saw[q])'
        <3>1. saw[q] <= puts /\ LastOf(prev[q], saw[q]) /\ saw'[q] = saw[q] /\ prev'[q] = prev[q]
            BY <2>1, <2>3, <2>6
        <3> QED
            BY <1>0, <2>1, <3>1, LastStays DEF LastOf
    <2> QED
        BY <2>1, <2>4, <2>5, <2>6 DEF ChainInv
<1>2. CASE UNCHANGED <<items, puts>>
    <2>1. Events' = Events /\ puts' = puts /\ Ours
        BY <1>2 DEF Events, Ours
    <2>2. /\ \A n \in 1..puts : \E d \in Events : d.nth = n
          /\ \A d \in Events : d.saw < d.nth /\ LastOf(d.prev, d.saw)
          /\ \A q \in Procs : pc[q] # "idle" => saw[q] <= puts /\ LastOf(prev[q], saw[q])
        BY <2>1 DEF ChainInv
    <2>3. ASSUME NEW q \in Procs, pc'[q] # "idle"
          PROVE  saw'[q] <= puts /\ LastOf(prev'[q], saw'[q])
        <3>1. ASSUME NEW p \in Procs, Look(p) PROVE saw'[q] <= puts /\ LastOf(prev'[q], saw'[q])
            <4>1. CASE q = p
                <5>1. /\ saw'[q] = puts
                      /\ prev'[q] = IF items = <<>> THEN NoHash ELSE HashOf(Last(items))
                    BY <3>1, <4>1 DEF Look, TypedInv, ProcsTyped
                <5> QED
                    BY <1>0, <2>1, <2>2, <5>1, LookFinds
            <4>2. CASE q # p
                <5>1. saw'[q] = saw[q] /\ prev'[q] = prev[q] /\ pc[q] # "idle"
                    BY <2>3, <3>1, <4>2 DEF Look, TypedInv, ProcsTyped, TypeOK
                <5> QED
                    BY <2>2, <5>1
            <4> QED
                BY <4>1, <4>2
        <3>2. ASSUME NEW p \in Procs, Stamp(p) PROVE saw'[q] = saw[q] /\ prev'[q] = prev[q] /\ pc[q] # "idle"
            BY <2>3, <3>2 DEF Stamp, TypedInv, TypeOK
        <3>3. ASSUME NEW p \in Procs, PutRefused(p) \/ Restart(p)
              PROVE  saw'[q] = saw[q] /\ prev'[q] = prev[q] /\ pc[q] # "idle"
            <4>1. Rest(p)
                BY <3>3 DEF PutRefused, Restart
            <4>2. q # p
                BY <2>3, <4>1 DEF Rest, TypedInv, TypeOK
            <4> QED
                BY <2>3, <4>1, <4>2 DEF Rest, TypedInv, TypeOK, ProcsTyped
        <3>4. UNCHANGED <<pc, prev, saw>> \/ \E p \in Procs : Look(p) \/ Stamp(p) \/ PutRefused(p) \/ Restart(p)
            <4>1. \A e : ~PutItem(e)
                <5>1. puts' # puts + 1
                    BY <1>0, <2>1
                <5> QED
                    BY <5>1 DEF PutItem
            <4>2. ~WebPuts /\ \A p \in Procs : ~Put(p)
                BY <4>1 DEF WebPuts, Put
            <4> QED
                BY <4>2 DEF Next, vars, Tick, procVars, Takes, Propose, Claim, Prepared, Issue, End, Reclaim,
                            SlackDecides, SlackDenies, WebDecides
        <3>5. CASE UNCHANGED <<pc, prev, saw>>
            BY <2>2, <2>3, <3>5
        <3> QED
            BY <2>2, <3>1, <3>2, <3>3, <3>4, <3>5
    <2> QED
        BY <2>1, <2>2, <2>3 DEF ChainInv, LastOf
<1>3. CASE WebPuts
    <2>1. PICK t \in 0..MaxTime : WebItem(t) \in Events'
        BY <1>3, WebPutIs
    <2> QED
        BY <2>1 DEF Ours, WebItem
<1> QED
    BY <1>1, <1>2, <1>3, StepKinds

\* What the verifier compares.
LEMMA VerifierComparesKeys ==
  ASSUME TypedInv, Ours
  PROVE  Verifies(items) <=> \A i \in DOMAIN items :
             items[i].prev = IF i = 1 THEN NoHash ELSE Key(items[i - 1])
<1>1. \A i \in DOMAIN items : items[i].by # "web"
    BY EventIs DEF TypedInv, Ours
<1>2. \A i \in DOMAIN items : i # 1 => i - 1 \in DOMAIN items
    BY EventIs DEF TypedInv
<1> QED
    BY <1>1, <1>2 DEF Verifies, HashOf

\* Writers one after the other: each event has the digest of the one before it.
LEMMA SerialVerifies ==
  ASSUME TypedInv, ChainInv, Serial
  PROVE  Verifies(items)
<1>0. Ours
    BY DEF Serial, Ours
<1>1. SUFFICES ASSUME NEW i \in DOMAIN items
               PROVE  items[i].prev = IF i = 1 THEN NoHash ELSE Key(items[i - 1])
    BY <1>0, VerifierComparesKeys
<1> DEFINE e == items[i]
<1>2. e \in Events /\ i \in Nat /\ e.nth \in Nat /\ e.saw = e.nth - 1 /\ LastOf(e.prev, e.saw)
    BY <1>0, EventIs DEF TypedInv, Serial, ChainInv, Items
\* Whoever was there when e looked is before e.
<1>3. ASSUME NEW d \in Events, d.nth <= e.saw PROVE Before(Key(d), Key(e))
    <2>1. d.nth \in Nat
        BY EventIs DEF TypedInv, Items
    <2> QED
        BY <1>2, <1>3, <2>1 DEF Serial
<1>4. CASE i = 1
    <2>1. ASSUME NEW d \in Events, d.nth <= e.saw PROVE FALSE
        <3>1. PICK k \in DOMAIN items : d = items[k]
            BY EventIs DEF TypedInv
        <3>2. k < i
            BY <1>3, <2>1, <3>1, KeysAreUnique DEF TypedInv
        <3> QED
            BY <1>4, <3>2, EventIs DEF TypedInv
    <2> QED
        BY <1>2, <1>4, <2>1 DEF LastOf
<1>5. CASE i # 1
    <2> DEFINE c == items[i - 1]
    <2>1. i - 1 \in DOMAIN items /\ c \in Events /\ c.nth \in Nat /\ i - 1 < i
        BY <1>5, EventIs DEF TypedInv, Items
    <2>2. c.nth <= e.saw
        <3>1. ~Before(Key(e), Key(c))
            BY <2>1, EventIs, KeysAreUnique DEF TypedInv
        <3>2. ~(e.nth < c.nth)
            BY <1>2, <2>1, <3>1 DEF Serial
        <3>3. e.nth # c.nth
            BY <1>2, <2>1, KeysAreUnique DEF TypedInv
        <3> QED
            BY <1>2, <2>1, <3>2, <3>3
    <2>3. e.saw # 0
        <3>1. c.nth # 0
            BY <2>1, EventIs DEF TypedInv, Items
        <3> QED
            BY <2>1, <2>2, <3>1
    <2>4. PICK d \in Events : d.nth <= e.saw /\ e.prev = Key(d) /\ (c = d \/ Before(Key(c), Key(d)))
        BY <1>2, <2>1, <2>2, <2>3 DEF LastOf
    <2>5. PICK k \in DOMAIN items : d = items[k]
        BY EventIs DEF TypedInv
    <2>6. k < i
        BY <1>3, <2>4, <2>5, KeysAreUnique DEF TypedInv
    <2>7. k = i - 1 \/ i - 1 < k
        BY <2>1, <2>4, <2>5, KeysAreUnique DEF TypedInv
    <2>8. k = i - 1
        BY <1>2, <2>5, <2>6, <2>7, EventIs DEF TypedInv
    <2> QED
        BY <1>5, <2>4, <2>5, <2>8
<1> QED
    BY <1>4, <1>5

\* A trail that verifies was written by one writer after the other.
LEMMA VerifiedIsSerial ==
  ASSUME TypedInv, ChainInv, Verifies(items)
  PROVE  Serial
<1> DEFINE n == Len(items)
           f == [i \in 1..n |-> items[i].nth]
<1>0. Ours
    BY EventIs DEF TypedInv, Verifies, Ours
<1>1. \A i \in DOMAIN items : items[i].prev = IF i = 1 THEN NoHash ELSE Key(items[i - 1])
    BY <1>0, VerifierComparesKeys
<1>2. /\ n \in Nat /\ DOMAIN items = 1..n /\ puts \in Nat
      /\ \A i \in 1..n : /\ items[i] \in Events /\ items[i].nth \in 1..puts /\ items[i].saw \in Nat
                         /\ items[i].saw < items[i].nth /\ LastOf(items[i].prev, items[i].saw)
                         /\ Key(items[i]) \in Keys
    BY <1>0, EventIs DEF TypedInv, TypeOK, ChainInv, Items
<1>3. \A m \in 1..puts : \E i \in 1..n : items[i].nth = m
    BY <1>0, EventIs DEF TypedInv, ChainInv
\* An event was put after its predecessor was, and looked after it.
<1>4. ASSUME NEW i \in 1..n, i # 1
      PROVE  i - 1 \in 1..n /\ items[i - 1].nth <= items[i].saw
    <2>1. i - 1 \in 1..n /\ items[i].prev = Key(items[i - 1]) /\ Key(items[i - 1]) # NoHash
        BY <1>1, <1>2, <1>4, KeyIsHash
    <2>2. PICK d \in Events : d.nth <= items[i].saw /\ Key(d) = Key(items[i - 1])
        BY <1>2, <2>1 DEF LastOf
    <2>3. d = items[i - 1]
        BY <1>2, <2>1, <2>2, EventIs, KeysAreUnique DEF TypedInv
    <2> QED
        BY <2>1, <2>2, <2>3
<1>5. \A i, k \in 1..n : i < k => items[i].nth < items[k].nth
    <2>1. \A i \in 1..n : f[i] \in Nat
        <3> SUFFICES ASSUME NEW i \in 1..n PROVE f[i] \in Nat
            OBVIOUS
        <3>1. items[i].nth \in 1..puts /\ puts \in Nat
            BY <1>2
        <3>2. f[i] = items[i].nth
            OBVIOUS
        <3> QED
            BY <3>1, <3>2
    <2>2. \A k \in 2..n : f[k - 1] < f[k]
        <3> SUFFICES ASSUME NEW k \in 2..n PROVE f[k - 1] < f[k]
            OBVIOUS
        <3>1. k \in 1..n /\ k # 1
            BY <1>2
        <3>2. k - 1 \in 1..n /\ items[k - 1].nth <= items[k].saw
            BY <1>4, <3>1
        <3> QED
            BY <1>2, <3>1, <3>2
    <2>3. \A i, k \in 1..n : i < k => f[i] < f[k]
        <3> HIDE DEF f
        <3> QED
            BY <1>2, <2>1, <2>2, Grows
    <2> QED
        BY <2>3
<1>6. ASSUME NEW i \in 1..n PROVE items[i].saw = items[i].nth - 1
    <2>0. items[i].saw \in Nat /\ items[i].nth \in Nat /\ items[i].saw < items[i].nth
        BY <1>2
    <2>1. SUFFICES ASSUME items[i].saw + 1 < items[i].nth PROVE FALSE
        BY <2>0
    <2>2. PICK m \in 1..n : items[m].nth = items[i].saw + 1
        <3>1. items[i].saw + 1 \in 1..puts
            BY <1>2, <2>1
        <3> QED
            BY <1>3, <3>1
    <2>3. m < i
        BY <1>2, <1>5, <2>1, <2>2
    <2>4. i # 1
        BY <2>3
    <2>5. items[i - 1].nth < items[m].nth /\ i - 1 \in 1..n
        BY <1>2, <1>4, <2>2, <2>4
    <2>6. i - 1 < m
        BY <1>2, <1>5, <2>5
    <2> QED
        BY <2>3, <2>6
<1>7. ASSUME NEW e \in Events
      PROVE  /\ e.by # "web" /\ e.saw = e.nth - 1
             /\ \A d \in Events : d.nth < e.nth => Before(Key(d), Key(e))
    <2>1. PICK i \in 1..n : e = items[i]
        BY <1>2, EventIs DEF TypedInv
    <2>2. ASSUME NEW d \in Events, d.nth < e.nth PROVE Before(Key(d), Key(e))
        <3>1. PICK k \in 1..n : d = items[k]
            BY <1>2, EventIs DEF TypedInv
        <3>2. k < i
            BY <1>2, <1>5, <2>1, <2>2, <3>1
        <3> QED
            BY <1>2, <2>1, <3>1, <3>2, KeysAreUnique DEF TypedInv
    <2> QED
        BY <1>0, <1>6, <2>1, <2>2 DEF Ours
<1> QED
    BY <1>7 DEF Serial

\* Whatever the number of puts, the clocks, the kills and what the dashboard puts in
\* between, the verifier accepts the trail exactly when its writers came one after
\* the other (audit_store.py:455, verify_event_chain).
THEOREM VerifierAlwaysExact == Spec => []VerifierIsExact
<1>1. TypedInv /\ ChainInv => VerifierIsExact
    BY SerialVerifies, VerifiedIsSerial DEF VerifierIsExact
<1> QED
    BY <1>1, InitTyped, TypedStep, InitChain, ChainStep, PTL DEF Spec

\* The types of the trail and of the processes that write it (audit_store.py:299,
\* append); that the items stay in the order of their keys is proved with them.
THEOREM TypeCorrect == Spec => []TypeOK
<1>1. TypedInv => TypeOK
    BY DEF TypedInv
<1> QED
    BY <1>1, InitTyped, TypedStep, PTL DEF Spec

-----------------------------------------------------------------------------
(* The credential.                                                         *)

LEMMA InitTrace == Init => TraceInv
<1> SUFFICES ASSUME Init PROVE TraceInv
    OBVIOUS
<1>1. /\ Events = {} /\ (\A p \in Procs : pc[p] = "idle") /\ status = "absent" /\ deciding = "no"
      /\ \A p \in Procs : todo[p] = <<>> /\ \A a : ~Has(p, a)
    BY DEF Init, Events, ToSet, Has
<1>2. WorkerInv
    BY <1>1 DEF WorkerInv, Procs
<1>3. GateInv
    BY <1>1 DEF GateInv, Wrote, Procs
<1>4. CredentialInv
    BY <1>1 DEF CredentialInv, Procs
<1> QED
    BY <1>2, <1>3, <1>4 DEF TraceInv

\* There are no more items than puts.
LEMMA NoMoreItemsThanPuts ==
  ASSUME TypedInv
  PROVE  Len(items) <= puts
<1> DEFINE n == Len(items)
           f == [i \in 1..n |-> items[i].nth]
<1>1. n \in Nat /\ puts \in Nat /\ DOMAIN items = 1..n
    BY EventIs DEF TypedInv, TypeOK
<1>2. \A i \in 1..n : items[i].nth \in 1..puts
    <2> SUFFICES ASSUME NEW i \in 1..n PROVE items[i].nth \in 1..puts
        OBVIOUS
    <2>1. items[i].nth \in Nat \ {0} /\ items[i].nth <= puts
        BY <1>1, EventIs DEF TypedInv, Items
    <2> QED
        BY <1>1, <2>1
<1>3. \A i, k \in 1..n : items[i].nth = items[k].nth => i = k
    BY <1>1 DEF TypedInv, ItemsTyped
<1>4. f \in Injection(1..n, 1..puts)
    BY <1>2, <1>3 DEF Injection, IsInjective
<1>5. /\ IsFiniteSet(1..n) /\ Cardinality(1..n) = n
      /\ IsFiniteSet(1..puts) /\ Cardinality(1..puts) = puts
    <2> HIDE DEF n
    <2>1. /\ IsFiniteSet(1..n) /\ Cardinality(1..n) = IF 1 > n THEN 0 ELSE n - 1 + 1
          /\ IsFiniteSet(1..puts) /\ Cardinality(1..puts) = IF 1 > puts THEN 0 ELSE puts - 1 + 1
        BY <1>1, FS_Interval
    <2> QED
        BY <1>1, <2>1
<1> HIDE DEF f
<1>6. Cardinality(1..n) <= Cardinality(1..puts)
    BY <1>4, <1>5, FS_Injection
<1> QED
    BY <1>5, <1>6

\* The step ApprovalStep finds when the whole trail fits the list.
LEMMA FindsGateStep ==
  ASSUME TypedInv, GateInv, Wrote("worker", "awaiting_approval"), puts <= Limit
  PROVE  GateStep(Events, ApprovalStep(List(Limit)), puts)
<1>1. List(Limit) = items
    <2>1. Len(items) <= puts /\ Len(items) \in Nat /\ puts \in Nat /\ Limit \in Nat
        BY NoMoreItemsThanPuts, EventIs, AuditAssumption DEF TypedInv, TypeOK, AuditAssumption
    <2>2. Len(items) <= Limit
        BY <2>1
    <2> QED
        BY <2>2 DEF List
<1>2. \E e \in Events : e.action \in Gates /\ e.step # NoStep
    <2>1. PICK e \in Events : e.by = "worker" /\ e.action = "awaiting_approval"
        BY DEF Wrote
    <2>2. e.seq >= 2 /\ e.step = e.seq /\ e.seq \in Nat
        BY <2>1, EventIs DEF GateInv, Shaped, TypedInv, Items
    <2> QED
        BY <2>1, <2>2 DEF Gates, NoStep
<1>3. PICK e \in Events : e.action \in Gates /\ e.step # NoStep /\ e.step = ApprovalStep(items)
    BY <1>2, ApprovalStepIs DEF TypedInv
<1>4. e.by \in Procs /\ e.nth <= puts
    BY <1>3, EventIs DEF TypedInv, Shaped, Items
<1> QED
    BY <1>1, <1>3, <1>4 DEF GateStep

\* Takes gives p its entries and leaves the trail alone.
LEMMA TakesIs ==
  ASSUME TypedInv, NEW p \in Procs, NEW s, Takes(p, s)
  PROVE  /\ todo[p] = <<>> /\ pc[p] = "idle" /\ todo'[p] = s
         /\ \A q \in Procs : q # p => todo'[q] = todo[q]
         /\ UNCHANGED <<items, seq, pc, stamp, puts, lost>>
  BY DEF Takes, TypedInv, TypeOK, ProcsTyped

\* Where the trail stays, so does what was written.
LEMMA TrailStays ==
  ASSUME UNCHANGED <<items, puts>>
  PROVE  /\ Events' = Events
         /\ \A p, a : Wrote(p, a)' <=> Wrote(p, a)
  BY DEF Events, Wrote

\* A step of the gate stays where nothing is replaced.
LEMMA GateStepStays ==
  ASSUME Events \subseteq Events', \A e \in Events : e.nth \in Int
  PROVE  \A s : \A n, m \in Int : n <= m /\ GateStep(Events, s, n) => GateStep(Events', s, m)
<1> SUFFICES ASSUME NEW s, NEW n \in Int, NEW m \in Int, n <= m, GateStep(Events, s, n)
             PROVE  GateStep(Events', s, m)
    OBVIOUS
<1>1. PICK e \in Events : e.by \in Procs /\ e.action \in Gates /\ e.step = s /\ e.nth <= n
    BY DEF GateStep
<1>2. e.nth <= m /\ e \in Events'
    BY <1>1
<1> QED
    BY <1>1, <1>2 DEF GateStep

\* The steps that leave job, trail and entries alone.
LEMMA TraceQuiet ==
  ASSUME TypedInv, WorkerInv, GateInv, CredentialInv,
         UNCHANGED <<items, puts, todo, status, working, deciding>>,
         seq'["worker"] >= seq["worker"],
         pc'["worker"] = "stamped" => \/ pc["worker"] = "stamped" /\ stamp'["worker"] = stamp["worker"]
                                      \/ /\ stamp'["worker"][2] = seq["worker"]
                                         /\ seq'["worker"] = seq["worker"] + 1,
         seq'["worker"] \in Nat
  PROVE  WorkerInv' /\ GateInv' /\ CredentialInv'
<1>1. seq["worker"] \in Nat \ {0}
    BY DEF TypedInv, TypeOK, Procs
<1>2. Events' = Events
    BY DEF Events
<1>3. WorkerInv'
    <2>1. pc'["worker"] = "stamped" => seq'["worker"] >= 2
        BY <1>1 DEF WorkerInv
    <2>2. status \notin {"absent", "pending", "preparing"} =>
             seq'["worker"] >= 2 /\ (pc'["worker"] = "stamped" => stamp'["worker"][2] >= 2)
        BY <1>1 DEF WorkerInv
    <2>3. status = "preparing" /\ todo["worker"] = <<>> => seq'["worker"] >= 2
        BY <1>1 DEF WorkerInv
    <2> QED
        BY <1>2, <2>1, <2>2, <2>3 DEF WorkerInv, Has, Wrote
<1>4. GateInv'
    BY <1>2 DEF GateInv, Has, Wrote
<1>5. CredentialInv'
    BY <1>2 DEF CredentialInv, GateStep
<1> QED
    BY <1>3, <1>4, <1>5

\* A put of the store's code.
LEMMA TracePut ==
  ASSUME TypedInv, WorkerInv, GateInv, CredentialInv, NEW p \in Procs, Put(p)
  PROVE  WorkerInv' /\ GateInv' /\ CredentialInv'
<1> DEFINE e == Event(p)
<1>1. /\ pc[p] = "stamped" /\ todo[p] # <<>>
      /\ puts' = puts + 1 /\ Events' = Events \cup {e} /\ puts \in Nat
      /\ UNCHANGED <<seq, status, working, deciding>>
      /\ \A q \in Procs : pc'[q] = "stamped" => q # p /\ pc[q] = "stamped" /\ stamp'[q] = stamp[q]
      /\ \A q \in Procs : todo'[q] = IF q = p THEN Tail(todo[p]) ELSE todo[q]
    <2>1. pc[p] = "stamped"
        BY DEF Put
    <2>2. /\ puts' = puts + 1 /\ Events' = Events \cup {e} /\ UNCHANGED <<seq, status, working, deciding>>
          /\ pc' = [pc EXCEPT ![p] = "idle"] /\ stamp' = [stamp EXCEPT ![p] = <<>>]
          /\ todo' = [todo EXCEPT ![p] = Tail(@)]
        BY PutAdds
    <2>3. todo = [q \in Procs |-> todo[q]] /\ todo[p] # <<>> /\ puts \in Nat
        BY <2>1 DEF TypedInv, TypeOK, ProcsTyped
    <2>4. \A q \in Procs : todo'[q] = IF q = p THEN Tail(todo[p]) ELSE todo[q]
        BY <2>2, <2>3
    <2>5. \A q \in Procs : pc'[q] = "stamped" => q # p /\ pc[q] = "stamped" /\ stamp'[q] = stamp[q]
        BY <2>2 DEF TypedInv, TypeOK, ProcsTyped
    <2> QED
        BY <2>1, <2>2, <2>3, <2>4, <2>5
<1>2. /\ e.by = p /\ e.action = todo[p][1].action /\ e.parent = todo[p][1].parent /\ e.nth = puts + 1
      /\ e.seq = stamp[p][2] /\ e.seq \in Nat
    BY <1>1, EventIsItem
<1>3. 1 \in DOMAIN todo[p] /\ todo[p][1] \in Entries(p) /\ todo[p][1].action \in ActionsOf(p)
    BY <1>1, HeadIs DEF Entries
<1> HIDE DEF e
<1>4. \A q \in Procs : \A i \in DOMAIN todo'[q] : \E k \in DOMAIN todo[q] : todo'[q][i] = todo[q][k]
    <2> SUFFICES ASSUME NEW q \in Procs, NEW i \in DOMAIN todo'[q]
                 PROVE  \E k \in DOMAIN todo[q] : todo'[q][i] = todo[q][k]
        OBVIOUS
    <2>1. CASE q = p
        <3>1. i \in DOMAIN Tail(todo[p]) /\ todo'[q][i] = Tail(todo[p])[i]
            BY <1>1, <2>1
        <3>2. i + 1 \in DOMAIN todo[p] /\ Tail(todo[p])[i] = todo[p][i + 1]
            BY <1>1, <3>1, HeadIs
        <3> QED
            BY <2>1, <3>1, <3>2
    <2>2. CASE q # p
        BY <1>1, <2>2
    <2> QED
        BY <2>1, <2>2
<1>5. \A q \in Procs : \A a : Has(q, a)' => Has(q, a)
    BY <1>4 DEF Has
\* Whoever had it to write has it still, or has written it.
<1>6. \A q \in Procs : \A a : Has(q, a) => Has(q, a)' \/ Wrote(q, a)'
    <2> SUFFICES ASSUME NEW q \in Procs, NEW a, NEW i \in DOMAIN todo[q], todo[q][i].action = a
                 PROVE  Has(q, a)' \/ Wrote(q, a)'
        BY DEF Has
    <2>1. CASE q # p
        BY <1>1, <2>1 DEF Has
    <2>2. CASE q = p /\ i = 1
        BY <1>1, <1>2, <2>2 DEF Wrote
    <2>3. CASE q = p /\ i # 1
        <3>1. todo[p] \in Seq(Entries(p)) /\ i \in 1..Len(todo[p])
            BY <2>3 DEF TypedInv, ProcsTyped
        <3>2. i - 1 \in DOMAIN Tail(todo[p]) /\ Tail(todo[p])[i - 1] = todo[p][i]
            BY <1>1, <2>3, <3>1, HeadTailProperties
        <3> QED
            BY <1>1, <2>3, <3>2 DEF Has
    <2> QED
        BY <2>1, <2>2, <2>3
<1>7. \A q, a : Wrote(q, a) => Wrote(q, a)'
    BY <1>1 DEF Wrote
<1>8. \A q \in Procs : \A a : Wrote(q, a)' => Wrote(q, a) \/ Has(q, a)
    BY <1>1, <1>2, <1>3 DEF Wrote, Has
<1>9. WorkerInv'
    <2>1. status \notin {"absent", "pending"} => seq["worker"] >= 2 \/ todo["worker"] # <<>>
        BY DEF WorkerInv
    <2>2. status = "preparing" /\ todo'["worker"] = <<>> => seq["worker"] >= 2
        BY <1>1 DEF WorkerInv, Procs
    <2>3. status \in {"absent", "pending"} => todo'["worker"] = <<>>
        BY <1>1 DEF WorkerInv, Procs
    <2>4. status = "preparing" =>
             working /\ \A i \in DOMAIN todo'["worker"] : todo'["worker"][i].action = "claimed"
        BY <1>4 DEF WorkerInv, Procs
    <2>5. pc'["worker"] = "stamped" => pc["worker"] = "stamped" /\ stamp'["worker"] = stamp["worker"]
        BY <1>1 DEF Procs
    <2>6. status \in {"awaiting_approval", "approved"} =>
             Has("worker", "awaiting_approval")' \/ Wrote("worker", "awaiting_approval")'
        BY <1>6, <1>7 DEF WorkerInv, Procs
    <2>7. status \in {"executing", "pushing"} =>
             working /\ ~Has("worker", "awaiting_approval")' /\ Wrote("worker", "awaiting_approval")'
        BY <1>5, <1>7 DEF WorkerInv, Procs
    <2> QED
        BY <1>1, <2>2, <2>3, <2>4, <2>5, <2>6, <2>7 DEF WorkerInv
<1>10. GateInv'
    <2>1. \A d \in Events' : d.action = "awaiting_approval" => d.seq >= 2
        <3>1. ASSUME e.action = "awaiting_approval" PROVE e.seq >= 2
            <4>1. p = "worker" /\ Has("worker", "awaiting_approval")
                BY <1>2, <1>3, <3>1 DEF ActionsOf, Has, Procs
            <4>2. status \notin {"absent", "pending", "preparing"}
                BY <1>1, <1>2, <1>3, <3>1, <4>1 DEF WorkerInv
            <4> QED
                BY <1>1, <1>2, <4>1, <4>2 DEF WorkerInv
        <3> QED
            BY <1>1, <3>1 DEF GateInv
    <2>2. Has("slack", "approved")' \/ Wrote("slack", "approved")' =>
             Has("slack", "approved") \/ Wrote("slack", "approved")
        BY <1>5, <1>8 DEF Procs
    <2> QED
        BY <1>1, <2>1, <2>2 DEF GateInv
<1>11. CredentialInv'
    <2>1. Limit \in Nat /\ \A d \in Events : d.nth \in Nat /\ d.nth <= puts
        BY AuditAssumption, EventIs DEF AuditAssumption, TypedInv, Items
    <2>2. \A s : \A n, m \in Int : n <= m /\ GateStep(Events, s, n) => GateStep(Events', s, m)
        <3>1. Events \subseteq Events' /\ \A d \in Events : d.nth \in Int
            BY <1>1, <2>1
        <3> QED
            BY <3>1, GateStepStays
    <2>0. puts \in Int /\ puts' \in Int /\ puts <= puts'
        BY <1>1
    <2>3. ASSUME NEW i \in DOMAIN todo'["worker"],
                 todo'["worker"][i].action = "write_credentials_issued", puts' <= Limit
          PROVE  GateStep(Events', todo'["worker"][i].parent, puts')
        <3>1. PICK k \in DOMAIN todo["worker"] : todo'["worker"][i] = todo["worker"][k]
            BY <1>4 DEF Procs
        <3>2. GateStep(Events, todo["worker"][k].parent, puts)
            BY <1>1, <2>1, <2>3, <3>1 DEF CredentialInv
        <3> QED
            BY <2>0, <2>2, <3>1, <3>2
    <2>4. ASSUME NEW c \in Events', c.action = "write_credentials_issued", c.nth <= Limit + 1
          PROVE  GateStep(Events', c.parent, c.nth - 1)
        <3>1. CASE c \in Events
            <4>1. GateStep(Events, c.parent, c.nth - 1) /\ c.nth - 1 \in Int /\ c.nth - 1 <= c.nth - 1
                BY <2>1, <2>4, <3>1 DEF CredentialInv
            <4> QED
                BY <2>2, <4>1
        <3>2. CASE c = e
            <4>1. p = "worker" /\ puts <= Limit /\ c.nth - 1 = puts
                BY <1>1, <1>2, <1>3, <2>1, <2>4, <3>2 DEF ActionsOf, Procs
            <4>2. GateStep(Events, c.parent, puts)
                BY <1>2, <1>3, <2>4, <3>2, <4>1 DEF CredentialInv
            <4> QED
                BY <2>0, <2>2, <4>1, <4>2
        <3> QED
            BY <1>1, <3>1, <3>2
    <2> QED
        BY <2>3, <2>4 DEF CredentialInv
<1> QED
    BY <1>9, <1>10, <1>11

\* A put of the dashboard, which decided the gate: the events the trace rests on
\* have other keys.
LEMMA TraceWebPut ==
  ASSUME TypedInv, WorkerInv, GateInv, CredentialInv, WebPuts
  PROVE  WorkerInv' /\ GateInv' /\ CredentialInv'
<1>1. PICK t \in 0..MaxTime : Events' = {d \in Events : Key(d) # Key(WebItem(t))} \cup {WebItem(t)}
    BY WebPutIs
<1>2. /\ puts' = puts + 1 /\ puts \in Nat /\ deciding # "no" /\ deciding' = "no"
      /\ UNCHANGED <<todo, seq, pc, stamp, status, working>>
      /\ deciding \in {"approved", "rejected"}
    BY WebPutIs DEF procVars, TypedInv, TypeOK, ProcsTyped
<1> DEFINE w == WebItem(t)
<1>3. w.by = "web" /\ w.action = deciding /\ Key(w)[2] = 1
    BY DEF WebItem, Key
<1> HIDE DEF w
<1>4. ASSUME NEW d \in Events, d.seq >= 2 PROVE d \in Events'
    <2>1. Key(d)[2] = d.seq /\ d.seq \in Nat
        BY EventIs DEF Key, TypedInv, Items
    <2>2. Key(d) # Key(w)
        BY <1>3, <1>4, <2>1
    <2> QED
        BY <1>1, <2>2 DEF w
<1>5. Events' \subseteq Events \cup {w}
    BY <1>1 DEF w
<1>6. ~Has("slack", "approved") /\ ~Wrote("slack", "approved")
    BY <1>2 DEF GateInv
<1>7. ASSUME NEW d \in Events, d.by \in Procs, d.action \in Gates PROVE d \in Events'
    <2>1. Shaped(d) /\ d.by # "web"
        BY <1>7, EventIs DEF TypedInv, Procs
    <2>2. d.action = "awaiting_approval"
        BY <1>6, <1>7, <2>1 DEF Shaped, ActionsOf, Gates, Wrote, Procs
    <2> QED
        BY <1>4, <2>2 DEF GateInv
<1>8. \A p \in Procs : \A a : /\ Has(p, a)' <=> Has(p, a)
                              /\ Wrote(p, a)' => Wrote(p, a)
    BY <1>2, <1>3, <1>5 DEF Has, Wrote, Procs
<1>9. Wrote("worker", "awaiting_approval") => Wrote("worker", "awaiting_approval")'
    BY <1>4 DEF GateInv, Wrote
<1>10. WorkerInv'
    BY <1>2, <1>8, <1>9 DEF WorkerInv, Procs
<1>11. GateInv'
    <2>1. \A d \in Events' : d.action = "awaiting_approval" => d.seq >= 2
        BY <1>2, <1>3, <1>5 DEF GateInv
    <2>2. ~Has("slack", "approved")' /\ ~Wrote("slack", "approved")'
        BY <1>6, <1>8 DEF Procs
    <2> QED
        BY <1>2, <2>1, <2>2 DEF GateInv
<1>12. CredentialInv'
    <2>1. Limit \in Nat /\ \A d \in Events : d.nth \in Nat
        BY AuditAssumption, EventIs DEF AuditAssumption, TypedInv, Items
    <2>2. \A s : \A n, m \in Int : n <= m /\ GateStep(Events, s, n) => GateStep(Events', s, m)
        <3> SUFFICES ASSUME NEW s, NEW n \in Int, NEW m \in Int, n <= m, GateStep(Events, s, n)
                     PROVE  GateStep(Events', s, m)
            OBVIOUS
        <3>1. PICK d \in Events : d.by \in Procs /\ d.action \in Gates /\ d.step = s /\ d.nth <= n
            BY DEF GateStep
        <3>2. d \in Events' /\ d.nth <= m
            BY <1>7, <2>1, <3>1
        <3> QED
            BY <3>1, <3>2 DEF GateStep
    <2>3. puts \in Int /\ puts' \in Int /\ puts <= puts' /\ (puts' <= Limit => puts <= Limit)
        BY <1>2, <2>1
    <2>4. ASSUME NEW i \in DOMAIN todo'["worker"],
                 todo'["worker"][i].action = "write_credentials_issued", puts' <= Limit
          PROVE  GateStep(Events', todo'["worker"][i].parent, puts')
        BY <1>2, <2>2, <2>3, <2>4 DEF CredentialInv
    <2>5. ASSUME NEW c \in Events', c.action = "write_credentials_issued", c.nth <= Limit + 1
          PROVE  GateStep(Events', c.parent, c.nth - 1)
        <3>1. c \in Events
            BY <1>2, <1>3, <1>5, <2>5
        <3>2. GateStep(Events, c.parent, c.nth - 1) /\ c.nth - 1 \in Int /\ c.nth - 1 <= c.nth - 1
            BY <2>1, <2>5, <3>1 DEF CredentialInv
        <3> QED
            BY <2>2, <3>2
    <2> QED
        BY <2>4, <2>5 DEF CredentialInv
<1> QED
    BY <1>10, <1>11, <1>12

\* A process takes up entries that are neither of the gate nor of a credential.
LEMMA TraceTakes ==
  ASSUME TypedInv, CredentialInv, NEW p \in Procs, NEW s, Takes(p, s),
         p = "worker" => \A i \in DOMAIN s : s[i].action # "write_credentials_issued"
  PROVE  CredentialInv'
<1>1. /\ todo'[p] = s /\ (\A q \in Procs : q # p => todo'[q] = todo[q]) /\ UNCHANGED <<items, puts>>
    BY TakesIs
<1>2. Events' = Events
    BY <1>1 DEF Events
<1> QED
    BY <1>1, <1>2 DEF CredentialInv, Procs

LEMMA TraceStep == TypedInv /\ TraceInv /\ [Next]_vars => TraceInv'
<1> SUFFICES ASSUME TypedInv, TraceInv, [Next]_vars, lost' = 0
             PROVE  WorkerInv' /\ GateInv' /\ CredentialInv'
    BY DEF TraceInv
<1>1. /\ lost = 0 /\ \A p \in Procs : ~PutRefused(p) /\ ~Restart(p)
    <2>1. lost \in Nat
        BY AuditAssumption DEF TypedInv, TypeOK, AuditAssumption
    <2>2. \A p \in Procs : ~PutRefused(p) /\ ~Restart(p)
        <3>1. lost' # lost + 1
            BY <2>1
        <3>2. \A p \in Procs : PutRefused(p) => lost' = lost + 1
            BY DEF PutRefused
        <3>3. \A p \in Procs : Restart(p) => lost' = lost + 1
            BY DEF Restart
        <3> QED
            BY <3>1, <3>2, <3>3
    <2>3. lost' = lost
        BY <2>2 DEF Next, vars, Tick, Look, Stamp, Put, Takes, Propose, Claim, Prepared, Issue, End, Reclaim,
                    SlackDecides, SlackDenies, WebDecides, WebPuts
    <2> QED
        BY <2>2, <2>3
<1>2. WorkerInv /\ GateInv /\ CredentialInv
    BY <1>1 DEF TraceInv
<1>3. "worker" \in Procs /\ "slack" \in Procs /\ "mcp" \in Procs /\ seq["worker"] \in Nat \ {0}
    BY DEF Procs, TypedInv, TypeOK
<1>4. CASE UNCHANGED vars \/ Tick
    BY <1>2, <1>3, <1>4, TraceQuiet DEF vars, Tick, procVars, jobVars
<1>5. ASSUME NEW p \in Procs, Look(p) PROVE WorkerInv' /\ GateInv' /\ CredentialInv'
    <2>1. /\ UNCHANGED <<items, seq, todo, stamp, status, working, deciding, puts>>
          /\ pc'["worker"] = "stamped" => pc["worker"] = "stamped"
        BY <1>3, <1>5 DEF Look, jobVars, TypedInv, TypeOK
    <2> QED
        BY <1>2, <1>3, <2>1, TraceQuiet
<1>6. ASSUME NEW p \in Procs, Stamp(p) PROVE WorkerInv' /\ GateInv' /\ CredentialInv'
    <2>1. UNCHANGED <<items, todo, status, working, deciding, puts>>
        BY <1>6 DEF Stamp, jobVars
    <2>2. CASE p = "worker"
        <3>1. seq'["worker"] = seq["worker"] + 1 /\ stamp'["worker"] = <<clock, seq["worker"]>>
            BY <1>3, <1>6, <2>2 DEF Stamp, TypedInv, TypeOK, ProcsTyped
        <3> QED
            BY <1>2, <1>3, <2>1, <3>1, TraceQuiet
    <2>3. CASE p # "worker"
        <3>1. UNCHANGED <<seq["worker"], stamp["worker"], pc["worker"]>>
            BY <1>3, <1>6, <2>3 DEF Stamp, TypedInv, TypeOK, ProcsTyped
        <3> QED
            BY <1>2, <1>3, <2>1, <3>1, TraceQuiet
    <2> QED
        BY <2>2, <2>3
<1>7. ASSUME NEW p \in Procs, Put(p) PROVE WorkerInv' /\ GateInv' /\ CredentialInv'
    BY <1>2, <1>7, TracePut
<1>8. CASE WebPuts
    BY <1>2, <1>8, TraceWebPut
\* The trail stays as it is.
<1>9. UNCHANGED items => Events' = Events
    BY DEF Events
<1> USE <1>2, <1>3, <1>9
<1>10. CASE Propose
    <2>1. /\ Takes("mcp", <<Entry("proposed", NoStep)>>) /\ status = "absent" /\ status' = "pending"
          /\ UNCHANGED <<working, deciding>>
        BY <1>10 DEF Propose
    <2>2. CredentialInv'
        BY <2>1, TraceTakes
    <2>3. UNCHANGED <<items, seq, pc, stamp, puts, todo["worker"], todo["slack"]>>
        BY <2>1, TakesIs
    <2> QED
        BY <2>1, <2>2, <2>3 DEF WorkerInv, GateInv, Has, Wrote
<1>11. CASE Claim
    <2>1. /\ Takes("worker", <<Entry("claimed", NoStep)>>) /\ working' /\ UNCHANGED deciding
          /\ \/ status = "pending" /\ status' = "preparing"
             \/ status = "approved" /\ status' = "executing"
        BY <1>11 DEF Claim
    <2>2. /\ todo["worker"] = <<>> /\ todo'["worker"] = <<Entry("claimed", NoStep)>>
          /\ UNCHANGED <<items, seq, pc, stamp, puts, todo["slack"]>> /\ pc["worker"] = "idle"
        BY <2>1, TakesIs
    <2>3. todo'["worker"] # <<>> /\ \A i \in DOMAIN todo'["worker"] : todo'["worker"][i].action = "claimed"
        BY <2>2 DEF Entry
    <2>4. CredentialInv'
        BY <2>1, <2>2, <2>3, TraceTakes
    <2>5. ~Has("worker", "awaiting_approval") /\ ~Has("worker", "awaiting_approval")'
        BY <2>2, <2>3 DEF Has
    <2>6. WorkerInv'
        BY <2>1, <2>2, <2>3, <2>5 DEF WorkerInv, Wrote
    <2>7. GateInv'
        BY <2>1, <2>2 DEF GateInv, Has, Wrote
    <2> QED
        BY <2>4, <2>6, <2>7
<1>12. CASE Prepared
    <2> DEFINE s == Append(ToolSteps, Entry("awaiting_approval", root))
    <2>1. /\ Takes("worker", s) /\ status = "preparing" /\ status' = "awaiting_approval" /\ UNCHANGED deciding
        BY <1>12 DEF Prepared
    <2>2. /\ todo["worker"] = <<>> /\ todo'["worker"] = s
          /\ UNCHANGED <<items, seq, pc, stamp, puts, todo["slack"]>> /\ pc["worker"] = "idle"
        BY <2>1, TakesIs
    <2>3. /\ \A i \in DOMAIN s : s[i].action \in {"tool_call", "awaiting_approval"}
          /\ \E i \in DOMAIN s : s[i].action = "awaiting_approval"
        <3>1. ToolCalls \in Nat
            BY AuditAssumption DEF AuditAssumption
        <3>2. /\ ToolSteps \in Seq({Entry("tool_call", root)}) /\ Len(ToolSteps) = ToolCalls
            BY <3>1 DEF ToolSteps
        <3>3. /\ DOMAIN s = 1..(ToolCalls + 1) /\ s[ToolCalls + 1] = Entry("awaiting_approval", root)
              /\ \A i \in 1..ToolCalls : s[i] = Entry("tool_call", root)
            BY <3>1, <3>2
        <3> QED
            BY <3>1, <3>3 DEF Entry
    <2> HIDE DEF s
    <2>4. CredentialInv'
        BY <2>1, <2>3, TraceTakes
    <2>5. WorkerInv'
        BY <2>1, <2>2, <2>3 DEF WorkerInv, Has
    <2>6. GateInv'
        BY <2>1, <2>2 DEF GateInv, Has, Wrote
    <2> QED
        BY <2>4, <2>5, <2>6
<1>13. CASE Issue
    <2> DEFINE c == Entry("write_credentials_issued", ApprovalStep(List(Limit)))
    <2>1. /\ Takes("worker", <<c>>) /\ status = "executing" /\ status' = "pushing"
          /\ UNCHANGED <<working, deciding>>
        BY <1>13 DEF Issue
    <2>2. /\ todo'["worker"] = <<c>> /\ pc["worker"] = "idle"
          /\ UNCHANGED <<items, seq, pc, stamp, puts, todo["slack"]>>
        BY <2>1, TakesIs
    <2>3. c.action = "write_credentials_issued" /\ c.parent = ApprovalStep(List(Limit))
        BY DEF Entry
    <2> HIDE DEF c
    <2>4. puts <= Limit => GateStep(Events, c.parent, puts)
        BY <2>1, <2>3, FindsGateStep DEF WorkerInv
    <2>5. \A i \in DOMAIN todo'["worker"] : todo'["worker"][i] = c
        BY <2>2
    <2>6. CredentialInv'
        BY <2>2, <2>4, <2>5 DEF CredentialInv
    <2>7. WorkerInv'
        BY <2>1, <2>2, <2>3, <2>5 DEF WorkerInv, Has, Wrote
    <2>8. GateInv'
        BY <2>1, <2>2 DEF GateInv, Has, Wrote
    <2> QED
        BY <2>6, <2>7, <2>8
<1>14. CASE End
    <2>1. /\ Takes("worker", <<Entry("done", root)>>) /\ status = "pushing" /\ status' = "ended" /\ UNCHANGED deciding
        BY <1>14 DEF End
    <2>2. /\ todo'["worker"] = <<Entry("done", root)>> /\ pc["worker"] = "idle"
          /\ UNCHANGED <<items, seq, pc, stamp, puts, todo["slack"]>>
        BY <2>1, TakesIs
    <2>3. CredentialInv'
        BY <2>1, TraceTakes DEF Entry
    <2> QED
        BY <2>1, <2>2, <2>3 DEF WorkerInv, GateInv, Has, Wrote
<1>15. ~Reclaim
    BY DEF Reclaim, WorkerInv
<1>16. CASE SlackDecides
    <2>1. /\ status = "awaiting_approval" /\ UNCHANGED <<working, deciding>>
          /\ \/ status' = "approved" /\ Takes("slack", <<Entry("approved", NoStep)>>)
             \/ status' = "ended" /\ Takes("slack", <<Entry("rejected", NoStep)>>)
        BY <1>16 DEF SlackDecides
    <2>2. PICK s : Takes("slack", s)
        BY <2>1
    <2>3. UNCHANGED <<items, seq, pc, stamp, puts, todo["worker"]>>
        BY <2>2, TakesIs
    <2>4. CredentialInv'
        BY <2>2, TraceTakes
    <2>5. deciding = "no"
        BY <2>1 DEF GateInv
    <2>6. Has("slack", "approved")' => status' = "approved"
        <3>1. CASE status' = "approved"
            BY <3>1
        <3>2. CASE status' # "approved"
            <4>1. todo'["slack"] = <<Entry("rejected", NoStep)>>
                BY <2>1, <3>2, TakesIs
            <4> QED
                BY <4>1 DEF Has, Entry
        <3> QED
            BY <3>1, <3>2
    <2>7. ~Wrote("slack", "approved") /\ (Wrote("slack", "approved")' <=> Wrote("slack", "approved"))
        BY <2>1, <2>3 DEF GateInv, Wrote
    <2>8. WorkerInv'
        BY <2>1, <2>3 DEF WorkerInv, Has, Wrote
    <2>9. GateInv'
        BY <2>1, <2>3, <2>5, <2>6, <2>7 DEF GateInv
    <2> QED
        BY <2>4, <2>8, <2>9
<1>17. CASE SlackDenies
    <2>1. Takes("slack", <<Entry("approval_denied", NoStep)>>) /\ UNCHANGED <<status, working, deciding>>
        BY <1>17 DEF SlackDenies
    <2>2. /\ UNCHANGED <<items, seq, pc, stamp, puts, todo["worker"]>>
          /\ todo'["slack"] = <<Entry("approval_denied", NoStep)>>
        BY <2>1, TakesIs
    <2>3. CredentialInv'
        BY <2>1, TraceTakes
    <2>4. ~Has("slack", "approved")'
        BY <2>2 DEF Has, Entry
    <2>5. WorkerInv'
        BY <2>1, <2>2 DEF WorkerInv, Has, Wrote
    <2>6. GateInv'
        BY <2>1, <2>2, <2>4 DEF GateInv, Wrote
    <2> QED
        BY <2>3, <2>5, <2>6
<1>18. CASE WebDecides
    <2>1. /\ status = "awaiting_approval" /\ status' \in {"approved", "ended"}
          /\ UNCHANGED <<items, seq, todo, pc, stamp, puts, working>>
        BY <1>18 DEF WebDecides, procVars
    <2>2. ~Has("slack", "approved") /\ ~Wrote("slack", "approved")
        BY <2>1 DEF GateInv
    <2>3. WorkerInv'
        BY <2>1 DEF WorkerInv, Has, Wrote
    <2>4. GateInv'
        BY <2>1, <2>2 DEF GateInv, Has, Wrote
    <2>5. CredentialInv'
        BY <2>1 DEF CredentialInv
    <2> QED
        BY <2>3, <2>4, <2>5
<1> QED
    BY <1>1, <1>4, <1>5, <1>6, <1>7, <1>8, <1>10, <1>11, <1>12, <1>13, <1>14, <1>15, <1>16, <1>17, <1>18
    DEF Next

\* As long as no writer was killed and the trail fits the list, a credential hangs on
\* a step of the gate that was put before it, however the appends of the three
\* processes and the decisions and items of the dashboard interleave, and whatever
\* the dashboard's item replaces (worker.py:775, _approval_step_id).
THEOREM CredentialAlwaysTraceable == Spec => []CredentialIsTraceable
<1>1. TypedInv /\ TraceInv => CredentialIsTraceable
    <2> SUFFICES ASSUME TypedInv, TraceInv, NEW c \in Events, c.action = "write_credentials_issued",
                        lost = 0, c.nth <= Limit + 1
                 PROVE  \E e \in Events : e.step = c.parent /\ e.action \in Gates /\ e.nth < c.nth
        BY DEF CredentialIsTraceable
    <2>1. GateStep(Events, c.parent, c.nth - 1)
        BY DEF TraceInv, CredentialInv
    <2>2. PICK e \in Events : e.action \in Gates /\ e.step = c.parent /\ e.nth <= c.nth - 1
        BY <2>1 DEF GateStep
    <2>3. e.nth \in Nat /\ c.nth \in Nat
        BY EventIs DEF TypedInv, Items
    <2> QED
        BY <2>2, <2>3
<1> QED
    BY <1>1, InitTyped, TypedStep, InitTrace, TraceStep, PTL DEF Spec
=============================================================================
