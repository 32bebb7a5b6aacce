--------------------------- MODULE RemoveDataProofs ---------------------------
(***************************************************************************)
(* Proofs about the cleaner, for every table of rows, list of policies,    *)
(* history, option and bound.                                              *)
(***************************************************************************)
EXTENDS RemoveData, WellFoundedInduction, TLAPS

-------------------------------------------------------------------------------
(* The policy of a row. *)

\* A nonempty set of positions of a list has a last one.
LEMMA LastIndex ==
    ASSUME NEW n \in Nat, NEW S, S \subseteq 1..n, S # {}
    PROVE  \E x \in S : \A y \in S : y <= x
<1> DEFINE T == {n - x : x \in S}
           R == OpToRel(<, Nat)
<1>1. T \subseteq Nat /\ T # {}
  <2>1. \A x \in S : x \in Nat /\ n - x \in Nat
    OBVIOUS
  <2>2. QED
    BY <2>1
<1>2. PICK t \in T : \A u \in T : ~ (<<u, t>> \in R)
  <2>1. IsWellFoundedOn(R, Nat)
    BY NatLessThanWellFounded
  <2> HIDE DEF T, R
  <2>2. QED
    BY <1>1, <2>1, WFMin
<1>3. PICK x \in S : t = n - x
  OBVIOUS
<1>4. ASSUME NEW y \in S PROVE y <= x
  <2>1. n - y \in Nat /\ n - x \in Nat /\ ~ (<<n - y, n - x>> \in R)
    BY <1>1, <1>2, <1>3
  <2>2. R = {ss \in Nat \X Nat : ss[1] < ss[2]}
    BY Zenon DEF OpToRel
  <2>3. x \in Nat /\ y \in Nat
    OBVIOUS
  <2> HIDE DEF T, R
  <2>4. n - y < n - x => <<n - y, n - x>> \in R
    BY <2>1, <2>2, SMT
  <2>5. QED
    BY <2>1, <2>3, <2>4
<1>5. QED
  BY <1>4

\* The action kept under some keys: the one of the last policy with those keys.
LEMMA ActionIsLast ==
    ASSUME policies \in Seq(Policy), NEW S, S \subseteq 1..Len(policies)
    PROVE  /\ Action(S) = {} <=> S = {}
           /\ \A i \in S : (\A k \in S : k <= i) => Action(S) = {policies[i].expire}
<1>1. S # {} => Action(S) # {}
  <2>1. SUFFICES ASSUME S # {} PROVE Action(S) # {}
    OBVIOUS
  <2>2. Len(policies) \in Nat
    OBVIOUS
  <2>3. PICK i \in S : \A k \in S : k <= i
    BY <2>1, <2>2, LastIndex
  <2>4. policies[i].expire \in Action(S)
    BY <2>3 DEF Action
  <2>5. QED
    BY <2>4
<1>2. \A i, j \in S : (\A k \in S : k <= i) /\ (\A k \in S : k <= j) => i = j
  OBVIOUS
<1>3. ASSUME NEW i \in S, \A k \in S : k <= i PROVE Action(S) = {policies[i].expire}
  <2>1. {j \in S : \A k \in S : k <= j} = {i}
    BY <1>2, <1>3
  <2>2. QED
    BY <2>1 DEF Action
<1>4. S = {} => Action(S) = {}
  BY DEF Action
<1>5. QED
  BY <1>1, <1>3, <1>4

\* The policies of the list with these values of the three match fields.
Having(x, y, z) == {i \in 1..Len(policies) : Fields(policies[i]) = <<x, y, z>>}

\* How specific those values are.
Specificity(x, y, z) ==
    (IF x = "*" THEN 0 ELSE 4) + (IF y = "*" THEN 0 ELSE 2) + (IF z = "*" THEN 0 ELSE 1)

\* No policy that matches the row has more specific values.
IsTop(et, x, y, z) ==
    \A u \in {Attributes(et)[1], "*"}, v \in {Attributes(et)[2], "*"},
       w \in {Attributes(et)[3], "*"} :
          Having(u, v, w) # {} => Specificity(u, v, w) <= Specificity(x, y, z)

\* What the three nested dictionaries keep under three keys.
LEMMA UnderIsHaving ==
    ASSUME NEW x, NEW y, NEW z
    PROVE  Under(Under(Under(1..Len(policies), 1, x), 2, y), 3, z) = Having(x, y, z)
BY DEF Under, Having, Fields

\* The policies that match a row are those with its values or '*' in every field.
LEMMA MatchesHaving ==
    ASSUME NEW et, NEW i \in 1..Len(policies)
    PROVE  Matches(et, i) <=>
             \E x \in {Attributes(et)[1], "*"}, y \in {Attributes(et)[2], "*"},
                z \in {Attributes(et)[3], "*"} : i \in Having(x, y, z)
BY DEF Matches, Having, Fields

\* Among matching values, the most specific ones win, and their last policy.
LEMMA MostSpecificHaving ==
    ASSUME policies \in Seq(Policy), NEW et, NEW x \in {Attributes(et)[1], "*"},
           NEW y \in {Attributes(et)[2], "*"}, NEW z \in {Attributes(et)[3], "*"},
           Having(x, y, z) # {}, IsTop(et, x, y, z)
    PROVE  MostSpecific(et) = Action(Having(x, y, z))
<1> DEFINE N == Len(policies)
           Best == {j \in 1..N : /\ Matches(et, j)
                                 /\ \A k \in 1..N : Matches(et, k) =>
                                        \/ Weight(k) < Weight(j)
                                        \/ Weight(k) = Weight(j) /\ k <= j}
<1>1. N \in Nat /\ Having(x, y, z) \subseteq 1..N
  BY DEF Having
<1>2. PICK i \in Having(x, y, z) : \A k \in Having(x, y, z) : k <= i
  BY <1>1, LastIndex
<1>3. Action(Having(x, y, z)) = {policies[i].expire}
  BY <1>1, <1>2, ActionIsLast
<1>4. i \in 1..N /\ Matches(et, i)
  BY <1>1, <1>2, MatchesHaving
<1>5. ASSUME NEW u, NEW v, NEW w, NEW k \in Having(u, v, w)
      PROVE  Weight(k) = Specificity(u, v, w)
  BY <1>5 DEF Having, Weight, Specificity
<1>6. ASSUME NEW k \in 1..N, Matches(et, k)
      PROVE  Weight(k) < Weight(i) \/ (Weight(k) = Weight(i) /\ k <= i)
  <2>1. PICK u \in {Attributes(et)[1], "*"}, v \in {Attributes(et)[2], "*"},
             w \in {Attributes(et)[3], "*"} : k \in Having(u, v, w)
    BY <1>6, MatchesHaving
  <2>2. Specificity(u, v, w) <= Specificity(x, y, z)
    BY <2>1 DEF IsTop
  <2>3. Weight(k) = Specificity(u, v, w) /\ Weight(i) = Specificity(x, y, z)
    BY <1>2, <1>5, <2>1
  <2>4. Specificity(u, v, w) = Specificity(x, y, z) => u = x /\ v = y /\ w = z
    BY DEF Specificity
  <2>5. Specificity(u, v, w) \in Nat /\ Specificity(x, y, z) \in Nat
    BY DEF Specificity
  <2>6. QED
    BY <1>2, <2>1, <2>2, <2>3, <2>4, <2>5
<1>7. \A k \in 1..N : Weight(k) \in Nat
  BY DEF Weight
<1>8. ASSUME NEW j \in Best PROVE j = i
  <2>1. Weight(i) < Weight(j) \/ (Weight(i) = Weight(j) /\ i <= j)
    BY <1>4
  <2>2. Weight(j) < Weight(i) \/ (Weight(j) = Weight(i) /\ j <= i)
    BY <1>6
  <2>3. QED
    BY <1>4, <1>7, <2>1, <2>2
<1>9. Best = {i}
  BY <1>4, <1>6, <1>8
<1>10. MostSpecific(et) = {policies[j].expire : j \in Best}
  BY DEF MostSpecific
<1>11. QED
  BY <1>3, <1>9, <1>10

\* With no policy for the values of a row, none matches.
LEMMA NoneHaving ==
    ASSUME NEW et,
           \A u \in {Attributes(et)[1], "*"}, v \in {Attributes(et)[2], "*"},
              w \in {Attributes(et)[3], "*"} : Having(u, v, w) = {}
    PROVE  MostSpecific(et) = {}
<1>1. \A i \in 1..Len(policies) : ~ Matches(et, i)
  BY MatchesHaving
<1>2. QED
  BY <1>1 DEF MostSpecific

\* get_policy tries the values of a row from the most specific to the least.
LEMMA PolicyOfRow ==
    ASSUME policies \in Seq(Policy), NEW et
    PROVE  GetPolicy(et) = MostSpecific(et)
<1> DEFINE a == Attributes(et)[1]  b == Attributes(et)[2]  c == Attributes(et)[3]
           H(x, y, z) == Having(x, y, z)
           Found(x, y) == FirstFound(Action(H(x, y, c)), Action(H(x, y, "*")))
<1>1. ASSUME NEW x, NEW y
      PROVE  ByWindow(et, Under(Under(1..Len(policies), 1, x), 2, y)) = Found(x, y)
  BY UnderIsHaving DEF ByWindow
<1>2. ASSUME NEW x
      PROVE  BySummary(et, Under(1..Len(policies), 1, x)) = FirstFound(Found(x, b), Found(x, "*"))
  BY <1>1 DEF BySummary
<1>3. GetPolicy(et) = FirstFound(FirstFound(Found(a, b), Found(a, "*")),
                                 FirstFound(Found("*", b), Found("*", "*")))
  BY <1>2 DEF GetPolicy
<1>4. ASSUME NEW x, NEW y, NEW z PROVE Action(H(x, y, z)) = {} <=> H(x, y, z) = {}
  <2>1. H(x, y, z) \subseteq 1..Len(policies)
    BY DEF Having
  <2>2. QED
    BY <2>1, ActionIsLast
<1>5. ASSUME NEW x \in {a, "*"}, NEW y \in {b, "*"}, NEW z \in {c, "*"},
             H(x, y, z) # {}, IsTop(et, x, y, z)
      PROVE  MostSpecific(et) = Action(H(x, y, z))
  BY <1>5, MostSpecificHaving
<1> HIDE DEF H
<1>6. CASE H(a, b, c) # {}
  <2>1. IsTop(et, a, b, c)
    BY DEF Specificity, IsTop, H
  <2>2. QED
    BY <1>3, <1>4, <1>5, <1>6, <2>1 DEF FirstFound
<1>7. CASE H(a, b, c) = {} /\ H(a, b, "*") # {}
  <2>1. IsTop(et, a, b, "*")
    BY <1>7 DEF Specificity, IsTop, H
  <2>2. QED
    BY <1>3, <1>4, <1>5, <1>7, <2>1 DEF FirstFound
<1> DEFINE E1 == H(a, b, c) = {} /\ H(a, b, "*") = {}
<1>8. CASE E1 /\ H(a, "*", c) # {}
  <2>1. IsTop(et, a, "*", c)
    BY <1>8 DEF Specificity, IsTop, H
  <2>2. QED
    BY <1>3, <1>4, <1>5, <1>8, <2>1 DEF FirstFound
<1>9. CASE E1 /\ H(a, "*", c) = {} /\ H(a, "*", "*") # {}
  <2>1. IsTop(et, a, "*", "*")
    BY <1>9 DEF Specificity, IsTop, H
  <2>2. QED
    BY <1>3, <1>4, <1>5, <1>9, <2>1 DEF FirstFound
<1> DEFINE E2 == E1 /\ H(a, "*", c) = {} /\ H(a, "*", "*") = {}
<1>10. CASE E2 /\ H("*", b, c) # {}
  <2>1. IsTop(et, "*", b, c)
    BY <1>10 DEF Specificity, IsTop, H
  <2>2. QED
    BY <1>3, <1>4, <1>5, <1>10, <2>1 DEF FirstFound
<1>11. CASE E2 /\ H("*", b, c) = {} /\ H("*", b, "*") # {}
  <2>1. IsTop(et, "*", b, "*")
    BY <1>11 DEF Specificity, IsTop, H
  <2>2. QED
    BY <1>3, <1>4, <1>5, <1>11, <2>1 DEF FirstFound
<1> DEFINE E3 == E2 /\ H("*", b, c) = {} /\ H("*", b, "*") = {}
<1>12. CASE E3 /\ H("*", "*", c) # {}
  <2>1. IsTop(et, "*", "*", c)
    BY <1>12 DEF Specificity, IsTop, H
  <2>2. QED
    BY <1>3, <1>4, <1>5, <1>12, <2>1 DEF FirstFound
<1>13. CASE E3 /\ H("*", "*", c) = {} /\ H("*", "*", "*") # {}
  <2>1. IsTop(et, "*", "*", "*")
    BY <1>13 DEF Specificity, IsTop, H
  <2>2. QED
    BY <1>3, <1>4, <1>5, <1>13, <2>1 DEF FirstFound
<1>14. CASE E3 /\ H("*", "*", c) = {} /\ H("*", "*", "*") = {}
  <2>1. GetPolicy(et) = {}
    BY <1>3, <1>4, <1>14 DEF FirstFound
  <2>2. MostSpecific(et) = {}
    BY <1>14, NoneHaving DEF H
  <2>3. QED
    BY <2>1, <2>2
<1>15. QED
  BY <1>6, <1>7, <1>8, <1>9, <1>10, <1>11, <1>12, <1>13, <1>14

\* The search of get_policy, with its way back from an exact value that leads nowhere,
\* finds what the script's documentation promises: the most specific policy.
THEOREM PolicyFound == Spec => []PolicyIsMostSpecific
<1>1. Init => policies \in Seq(Policy)
  BY RemoveDataAssumption DEF Init
<1>2. policies \in Seq(Policy) /\ [Next]_vars => (policies \in Seq(Policy))'
  BY DEF Next, Cleaner, Environment, Stopped, vars, options, Load, SkipRow, VisitRow, Query,
     QueryFails, DeleteData, RowDone, RowsDone, Exit, DeleteMetadata, Tick, Publish
<1>3. policies \in Seq(Policy) => PolicyIsMostSpecific
  BY PolicyOfRow DEF PolicyIsMostSpecific
<1>4. QED
  BY <1>1, <1>2, <1>3, PTL DEF Spec

-------------------------------------------------------------------------------
(* Types, and what the policies give. *)

Types ==
    /\ policies \in Seq(Policy) /\ start \subseteq Nat
    /\ now \in Nat /\ FirstNow <= now /\ writes \in Nat /\ faults \in Nat
    /\ data \in [EventRows -> SUBSET Nat]
    /\ updated \in [EventRows -> SUBSET Nat]
    /\ snapshot \in [EventRows -> SUBSET Nat]
    /\ todo \in Seq(EventRows)
    /\ counts \in [Metadata -> [expired : Nat, total : Nat]]
    /\ upto \in Int /\ begin \in Int /\ end \in Int /\ misses \in Nat
    /\ expired \subseteq Nat
    /\ pc \in {"query", "delete"} => todo # <<>>

\* A row has at most one expiry, a number of days.
LEMMA ExpiryType ==
    ASSUME policies \in Seq(Policy), NEW et
    PROVE  /\ Expiry(et) \subseteq Nat
           /\ \A d, e \in Expiry(et) : d = e
<1> DEFINE N == Len(policies)
           Best == {j \in 1..N : /\ Matches(et, j)
                                 /\ \A k \in 1..N : Matches(et, k) =>
                                        \/ Weight(k) < Weight(j)
                                        \/ Weight(k) = Weight(j) /\ k <= j}
<1>1. GetPolicy(et) = {policies[j].expire : j \in Best}
  BY PolicyOfRow DEF MostSpecific
<1>2. \A j \in 1..N : Weight(j) \in Nat /\ policies[j].expire \in Nat \cup {Never}
  <2>1. \A j \in 1..N : Weight(j) \in Nat
    BY DEF Weight
  <2>2. \A j \in 1..N : policies[j] \in Policy
    OBVIOUS
  <2>3. QED
    BY <2>1, <2>2 DEF Policy
<1>3. \A j, k \in Best : j = k
  BY <1>2
<1>4. QED
  BY <1>1, <1>2, <1>3 DEF Expiry

\* The config file is read once.
LEMMA ExpiryStep ==
    ASSUME policies' = policies, NEW et
    PROVE  Expiry(et)' = Expiry(et)
BY DEF Expiry, GetPolicy, BySummary, ByWindow, FirstFound, Action, Under, Fields, Attributes

\* The times a policy and the options give; a policy's time only moves on.
LEMMA PolicyTimeType ==
    ASSUME Types, NEW et
    PROVE  /\ PolicyTime(et) \subseteq Int /\ ExpireTime(et) \subseteq Int
           /\ \A d, e \in PolicyTime(et) : d = e
           /\ \A d \in ExpireTime(et) : \E e \in PolicyTime(et) : d <= e
           /\ start = {} => ExpireTime(et) = PolicyTime(et)
<1>1. Expiry(et) \subseteq Nat /\ now \in Nat /\ \A d, e \in Expiry(et) : d = e
  BY ExpiryType DEF Types
<1>2. PolicyTime(et) \subseteq Int /\ \A d, e \in PolicyTime(et) : d = e
  BY <1>1 DEF PolicyTime
<1>3. \A d \in ExpireTime(et) : \E e \in PolicyTime(et) : d <= e
  BY <1>2 DEF ExpireTime
<1>4. start = {} => ExpireTime(et) = PolicyTime(et)
  BY DEF ExpireTime
<1>5. ExpireTime(et) \subseteq Int
  <2>1. ExpireTime(et) \subseteq PolicyTime(et) \/ ExpireTime(et) \subseteq start
    BY DEF ExpireTime
  <2>2. start \subseteq Int
    BY DEF Types
  <2>3. QED
    BY <1>2, <2>1, <2>2
<1>6. QED
  BY <1>2, <1>3, <1>4, <1>5

\* The policy's time moves with the clock.
LEMMA PolicyTimeStep ==
    ASSUME Types, Types', policies' = policies, now <= now', NEW et
    PROVE  /\ \A e \in PolicyTime(et) : \E d \in PolicyTime(et)' : e <= d
           /\ \A d \in PolicyTime(et)' : \E e \in PolicyTime(et) : e <= d
           /\ PolicyTime(et)' \subseteq Int
<1>1. Expiry(et)' = Expiry(et)
  BY ExpiryStep
<1>2. Expiry(et) \subseteq Nat /\ now \in Nat /\ now' \in Nat
  BY ExpiryType DEF Types
<1>3. ASSUME NEW e \in PolicyTime(et) PROVE \E d \in PolicyTime(et)' : e <= d
  <2>1. PICK n \in Expiry(et) : e = now - n
    BY DEF PolicyTime
  <2>2. now' - n \in PolicyTime(et)'
    BY <1>1 DEF PolicyTime
  <2>3. QED
    BY <1>2, <2>1, <2>2
<1>4. ASSUME NEW d \in PolicyTime(et)' PROVE \E e \in PolicyTime(et) : e <= d
  <2>1. PICK n \in Expiry(et) : d = now' - n
    BY <1>1, <1>4 DEF PolicyTime
  <2>2. now - n \in PolicyTime(et)
    BY DEF PolicyTime
  <2>3. QED
    BY <1>2, <2>1, <2>2
<1>5. PolicyTime(et)' \subseteq Int
  BY <1>1, <1>2 DEF PolicyTime
<1>6. QED
  BY <1>3, <1>4, <1>5

\* The rows left after the one at hand.
LEMMA TodoTail ==
    ASSUME todo \in Seq(EventRows), todo # <<>>
    PROVE  /\ Head(todo) \in EventRows /\ Tail(todo) \in Seq(EventRows)
           /\ ToSet(todo) = {Head(todo)} \cup ToSet(Tail(todo))
<1>1. /\ Head(todo) = todo[1] /\ Len(todo) \in Nat \ {0}
      /\ Tail(todo) \in Seq(EventRows) /\ Len(Tail(todo)) = Len(todo) - 1
      /\ \A i \in 1..Len(Tail(todo)) : Tail(todo)[i] = todo[i + 1]
  OBVIOUS
<1>2. DOMAIN todo = 1..Len(todo) /\ DOMAIN Tail(todo) = 1..(Len(todo) - 1)
  BY <1>1
<1>3. \A i \in DOMAIN todo : i = 1 \/ (i - 1 \in DOMAIN Tail(todo) /\ todo[i] = Tail(todo)[i - 1])
  BY <1>1, <1>2
<1>4. ToSet(todo) \subseteq {Head(todo)} \cup ToSet(Tail(todo))
  <2>1. ASSUME NEW i \in DOMAIN todo
        PROVE  todo[i] = Head(todo) \/ \E j \in DOMAIN Tail(todo) : todo[i] = Tail(todo)[j]
    BY <1>1, <1>3
  <2>2. QED
    BY <2>1 DEF ToSet
<1>5. ToSet(Tail(todo)) \subseteq ToSet(todo)
  <2>1. \A i \in DOMAIN Tail(todo) : i + 1 \in DOMAIN todo /\ Tail(todo)[i] = todo[i + 1]
    BY <1>1, <1>2
  <2>2. QED
    BY <2>1 DEF ToSet
<1>6. 1 \in DOMAIN todo /\ todo[1] \in EventRows
  BY <1>1, <1>2
<1>7. Head(todo) \in ToSet(todo)
  BY <1>1, <1>6 DEF ToSet
<1>8. QED
  BY <1>1, <1>4, <1>5, <1>6, <1>7

\* What a visit of a row counts, and where its walk begins.
LEMMA Visit ==
    ASSUME Types, VisitRow
    PROVE  /\ Head(todo) \in EventRows /\ Head(todo).md \in Metadata
           /\ UNCHANGED <<options, world, todo, snapshot, expired, removed>>
           /\ pc = "row" /\ todo # <<>> /\ pc' = "query" /\ misses' = 0
           /\ \E e \in ExpireTime(Head(todo)), n \in {0, 1} :
                /\ n = 1 <=> HasExpired(Head(todo), e)
                /\ counts' = [counts EXCEPT ![Head(todo).md] =
                                  [expired |-> @.expired + n, total |-> @.total + 1]]
                /\ upto' = Ending(Head(todo), e) /\ upto' \in Int /\ upto' <= e
                /\ end' = upto' /\ begin' = upto' - TimeChunk
<1> DEFINE et == Head(todo)
<1>1. UNCHANGED <<options, world, todo, snapshot, expired, removed>>
  BY DEF VisitRow
<1>2. pc = "row" /\ todo # <<>> /\ pc' = "query" /\ misses' = 0
  BY DEF VisitRow
<1>3. et \in EventRows /\ et.md \in Metadata
  BY <1>2, TodoTail DEF Types, Metadata
<1>4. PICK e \in ExpireTime(et) :
        /\ counts' = [counts EXCEPT ![et.md] =
               [expired |-> @.expired + IF HasExpired(et, e) THEN 1 ELSE 0,
                total |-> @.total + 1]]
        /\ upto' = Ending(et, e)
        /\ end' = upto' /\ begin' = upto' - TimeChunk
  BY DEF VisitRow
<1>5. PICK n \in {0, 1} : n = IF HasExpired(et, e) THEN 1 ELSE 0
  OBVIOUS
<1>6. counts' = [counts EXCEPT ![et.md] = [expired |-> @.expired + n, total |-> @.total + 1]]
  BY <1>4, <1>5
<1>7. e \in Int /\ snapshot[et] \subseteq Nat
  BY <1>3, PolicyTimeType DEF Types
<1>8. upto' \in Int /\ upto' <= e
  BY <1>4, <1>7 DEF Ending, HasExpired
<1>9. \E k \in {0, 1} :
        /\ k = 1 <=> HasExpired(et, e)
        /\ counts' = [counts EXCEPT ![et.md] = [expired |-> @.expired + k, total |-> @.total + 1]]
  <2>1. n = 1 <=> HasExpired(et, e)
    BY <1>5
  <2>2. QED
    BY <1>6, <2>1, Zenon
<1> HIDE DEF et
<1>10. \E d \in ExpireTime(et), k \in {0, 1} :
        /\ k = 1 <=> HasExpired(et, d)
        /\ counts' = [counts EXCEPT ![et.md] = [expired |-> @.expired + k, total |-> @.total + 1]]
        /\ upto' = Ending(et, d) /\ upto' \in Int /\ upto' <= d
        /\ end' = upto' /\ begin' = upto' - TimeChunk
  BY <1>4, <1>8, <1>9, Zenon
<1> USE DEF et
<1>11. QED
  BY <1>1, <1>2, <1>3, <1>10

\* Every step of the cleaner and around it keeps the types.
LEMMA TypesNext == Types /\ [Next]_vars => Types' /\ policies' = policies /\ now <= now'
<1> SUFFICES ASSUME Types, [Next]_vars
             PROVE  Types' /\ policies' = policies /\ now <= now'
  OBVIOUS
<1>1. CASE Load
  BY <1>1, RemoveDataAssumption DEF Load, Types, options, world, walk
<1>2. CASE SkipRow
  BY <1>2, TodoTail DEF SkipRow, Types, options, world, walk
<1>3. CASE VisitRow
  <2>1. PICK n \in {0, 1} :
            /\ Head(todo).md \in Metadata
            /\ counts' = [counts EXCEPT ![Head(todo).md] =
                              [expired |-> @.expired + n, total |-> @.total + 1]]
    BY <1>3, Visit
  <2>2. counts' \in [Metadata -> [expired : Nat, total : Nat]]
    BY <2>1 DEF Types
  <2>3. upto' \in Int /\ end' \in Int /\ begin' \in Int
    BY <1>3, Visit, RemoveDataAssumption
  <2>4. /\ UNCHANGED <<policies, start, now, writes, faults, data, updated, snapshot, todo>>
        /\ todo # <<>> /\ expired' = expired /\ misses' = 0
    BY <1>3, Visit DEF options, world
  <2>5. now \in Nat
    BY DEF Types
  <2>6. QED
    BY <2>2, <2>3, <2>4, <2>5 DEF Types
<1>4. CASE Query
  <2>1. Head(todo) \in EventRows
    BY <1>4, TodoTail DEF Query, Types
  <2>2. expired' \subseteq Nat
    BY <1>4, <2>1 DEF Query, QueryData, Types
  <2>3. end' \in Int /\ begin' \in Int /\ misses' \in Nat
    BY <1>4, RemoveDataAssumption DEF Query, From, MissesNow, Types
  <2>4. UNCHANGED <<policies, start, now, writes, faults, data, updated, snapshot, todo,
                    counts, upto>>
    BY <1>4 DEF Query, options, world
  <2>5. pc = "query"
    BY <1>4 DEF Query
  <2>6. QED
    BY <2>2, <2>3, <2>4, <2>5 DEF Types
<1>5. CASE QueryFails
  BY <1>5, TodoTail DEF QueryFails, Types, options, walk
<1>6. CASE DeleteData
  <2>1. data' \in [EventRows -> SUBSET Nat] /\ faults' \in Nat
    BY <1>6 DEF DeleteData, Types
  <2>2. QED
    BY <1>6, <2>1 DEF DeleteData, Types, options, walk
<1>7. CASE RowDone
  BY <1>7, TodoTail DEF RowDone, Types, options, world, walk
<1>8. CASE RowsDone \/ Exit \/ Stopped \/ UNCHANGED vars
  <2>1. /\ UNCHANGED <<policies, start, now, writes, faults, data, updated, snapshot, todo>>
        /\ UNCHANGED <<counts, upto, begin, end, misses, expired>>
        /\ pc' = pc \/ pc' \notin {"query", "delete"}
    BY <1>8 DEF RowsDone, Exit, Stopped, vars, options, world, walk
  <2>2. now \in Nat
    BY DEF Types
  <2>3. QED
    BY <2>1, <2>2 DEF Types
<1>9. CASE \E m \in Metadata : DeleteMetadata(m)
  BY <1>9 DEF DeleteMetadata, Types, options, walk
<1>10. CASE Tick
  BY <1>10, RemoveDataAssumption DEF Tick, Types, options, walk
<1>11. ASSUME NEW m \in Metadata, NEW type, NEW t \in Time, Publish(m, type, t)
       PROVE  Types' /\ policies' = policies /\ now <= now'
  <2>1. ASSUME NEW et \in EventRows PROVE Bin(et, t) \in Nat
    <3>1. et.window \in Nat /\ t \in Nat
      BY RemoveDataAssumption DEF Time
    <3>2. \A w \in Nat \ {0} : t - (t % w) \in Nat
      BY <3>1
    <3>3. QED
      BY <3>1, <3>2 DEF Bin
  <2>2. data' \in [EventRows -> SUBSET Nat]
    BY <1>11, <2>1 DEF Publish, Types
  <2>3. updated' \in [EventRows -> SUBSET Nat]
    BY <1>11 DEF Publish, Types
  <2>4. QED
    BY <1>11, <2>2, <2>3 DEF Publish, Types, options, walk
<1>12. QED
  BY <1>1, <1>2, <1>3, <1>4, <1>5, <1>6, <1>7, <1>8, <1>9, <1>10, <1>11
     DEF Next, Cleaner, Environment

\* The initial state is well typed.
LEMMA TypesInit == Init => Types
BY RemoveDataAssumption DEF Init, Types, Time

-------------------------------------------------------------------------------
(* Only what has expired is deleted. *)

AtHand == pc \in {"query", "delete"}

\* The walk begins at or before the time of the policy and goes back from there:
\* what a query may still return, and what one returned, has expired.
WalkInv ==
    AtHand =>
        /\ begin = end - TimeChunk
        /\ \E e \in PolicyTime(Head(todo)) :
             /\ misses < MaxMisses => end <= e
             /\ pc = "delete" => \A t \in expired : t <= e

\* What is asked of a policy's time stays true as the clock moves on.
LEMMA WalkStays ==
    ASSUME Types, Types', policies' = policies, now <= now', WalkInv,
           UNCHANGED <<pc, todo, begin, end, misses, expired>>
    PROVE  WalkInv'
<1> SUFFICES ASSUME AtHand' PROVE WalkInv'
  BY DEF WalkInv
<1>1. AtHand
  BY DEF AtHand
<1>2. PICK e \in PolicyTime(Head(todo)) :
        /\ misses < MaxMisses => end <= e
        /\ pc = "delete" => \A t \in expired : t <= e
  BY <1>1 DEF WalkInv
<1>3. PICK et : et = Head(todo) /\ et = Head(todo')
  OBVIOUS
<1>4. PICK d \in PolicyTime(et)' : e <= d
  BY <1>2, <1>3, PolicyTimeStep
<1>5. e \in Int /\ d \in Int
  BY <1>2, <1>3, <1>4, PolicyTimeType, PolicyTimeStep
<1>6. end \in Int /\ expired \subseteq Int
  BY DEF Types
<1>7. misses' < MaxMisses => end' <= d
  BY <1>2, <1>4, <1>5, <1>6
<1>8. pc' = "delete" => \A t \in expired' : t <= d
  <2>1. SUFFICES ASSUME pc' = "delete", NEW t \in expired' PROVE t <= d
    OBVIOUS
  <2>2. t <= e /\ t \in Int
    BY <1>2, <1>6, <2>1
  <2>3. QED
    BY <1>4, <1>5, <2>2
<1>9. begin' = end' - TimeChunk
  BY <1>1 DEF WalkInv
<1>10. d \in PolicyTime(Head(todo))'
  BY <1>3, <1>4
<1>11. QED
  BY <1>7, <1>8, <1>9, <1>10 DEF WalkInv

\* Every step keeps the walk at or before the policy's time.
LEMMA WalkNext == Types /\ WalkInv /\ [Next]_vars => WalkInv'
<1> SUFFICES ASSUME Types, WalkInv, [Next]_vars PROVE WalkInv'
  OBVIOUS
<1>1. Types' /\ policies' = policies /\ now <= now'
  BY TypesNext
<1>2. CASE Load \/ SkipRow \/ QueryFails \/ RowDone \/ RowsDone \/ Exit
  <2>1. ~ AtHand'
    BY <1>2 DEF Load, SkipRow, QueryFails, RowDone, RowsDone, Exit, AtHand
  <2>2. QED
    BY <2>1 DEF WalkInv
<1>3. CASE VisitRow
  <2>1. /\ UNCHANGED <<todo, policies, now>> /\ pc' = "query"
        /\ end' \in Int /\ begin' = end' - TimeChunk
    BY <1>1, <1>3, Visit DEF options, world
  <2>2. PICK d \in ExpireTime(Head(todo)) : end' <= d
    BY <1>3, Visit
  <2>3. PICK e \in PolicyTime(Head(todo)) : d <= e
    BY <2>2, PolicyTimeType
  <2>4. d \in Int /\ e \in Int
    BY <2>2, <2>3, PolicyTimeType
  <2>5. PICK et : et = Head(todo) /\ et = Head(todo')
    BY <2>1
  <2>6. Expiry(et)' = Expiry(et)
    BY <1>1, ExpiryStep
  <2>7. e \in PolicyTime(et)'
    BY <2>1, <2>3, <2>5, <2>6 DEF PolicyTime
  <2>8. e \in PolicyTime(Head(todo))'
    BY <2>5, <2>7
  <2>9. end' <= e
    BY <2>1, <2>2, <2>3, <2>4
  <2>10. QED
    BY <2>1, <2>8, <2>9 DEF WalkInv
<1>4. CASE Query
  <2>1. PICK et : et = Head(todo) /\ et = Head(todo')
    BY <1>4 DEF Query
  <2>2. /\ pc = "query" /\ misses < MaxMisses
        /\ expired' = QueryData(et, From, end)
        /\ end' = From /\ begin' = From - TimeChunk
        /\ misses' = MissesNow \/ misses' = MissesNow + 1
        /\ todo' = todo /\ now' = now
    <3>1. MissesNow \in Nat
      BY RemoveDataAssumption DEF MissesNow, Types
    <3>2. QED
      BY <1>4, <2>1, <3>1 DEF Query, world
  <2>3. PICK e \in PolicyTime(et) : end <= e
    BY <2>1, <2>2 DEF WalkInv, AtHand
  <2>4. e \in Int
    BY <2>3, PolicyTimeType
  <2>5. e \in PolicyTime(et)'
    BY <1>1, <2>2, <2>3, ExpiryStep DEF PolicyTime
  <2>6. begin = end - TimeChunk
    BY <2>2 DEF WalkInv, AtHand
  <2>7. misses' < MaxMisses => end' <= e
    BY <2>2, <2>3, <2>4, <2>6, RemoveDataAssumption DEF From, MissesNow, Types
  <2>8. \A t \in expired' : t <= end
    BY <2>2 DEF QueryData
  <2>9. ASSUME NEW t \in expired' PROVE t <= e
    <3>1. t <= end /\ t \in Nat
      BY <1>1, <2>8, <2>9 DEF Types
    <3>2. end \in Int
      BY DEF Types
    <3>3. QED
      BY <2>3, <2>4, <3>1, <3>2
  <2>10. e \in PolicyTime(Head(todo))'
    BY <2>1, <2>5
  <2>11. begin' = end' - TimeChunk
    BY <2>2
  <2>12. QED
    BY <2>7, <2>9, <2>10, <2>11 DEF WalkInv
<1>5. CASE DeleteData
  <2>1. /\ pc = "delete" /\ pc' = "query"
        /\ UNCHANGED <<todo, now, begin, end, misses>>
    BY <1>5 DEF DeleteData, walk
  <2>2. PICK et : et = Head(todo) /\ et = Head(todo')
    BY <2>1
  <2>3. PICK e \in PolicyTime(et) : misses < MaxMisses => end <= e
    BY <2>1, <2>2 DEF WalkInv, AtHand
  <2>4. e \in PolicyTime(et)'
    BY <1>1, <2>1, <2>3, ExpiryStep DEF PolicyTime
  <2>5. e \in PolicyTime(Head(todo))'
    BY <2>2, <2>4
  <2>6. begin' = end' - TimeChunk
    BY <2>1 DEF WalkInv, AtHand
  <2>7. QED
    BY <2>1, <2>3, <2>5, <2>6 DEF WalkInv
<1>6. CASE Environment \/ Stopped \/ UNCHANGED vars \/ \E m \in Metadata : DeleteMetadata(m)
  <2>1. UNCHANGED <<pc, todo, begin, end, misses, expired>>
    BY <1>6 DEF Environment, Tick, Publish, Stopped, vars, walk, DeleteMetadata
  <2>2. QED
    BY <1>1, <2>1, WalkStays
<1>7. QED
  BY <1>2, <1>3, <1>4, <1>5, <1>6 DEF Next, Cleaner

\* Only a delete takes columns away, and only those the query returned.
LEMMA DataShrinks ==
    ASSUME Types, [Next]_vars, NEW et \in EventRows, NEW t \in data[et], t \notin data'[et]
    PROVE  DeleteData /\ et = Head(todo) /\ t \in expired
<1>1. CASE DeleteData
  <2>1. data' = [data EXCEPT ![Head(todo)] = @ \ expired] \/ data' = data
    BY <1>1 DEF DeleteData
  <2>2. data \in [EventRows -> SUBSET Nat]
    BY DEF Types
  <2>3. QED
    BY <1>1, <2>1, <2>2
<1>2. CASE Environment
  <2>1. CASE Tick
    BY <2>1 DEF Tick
  <2>2. ASSUME NEW m, NEW type, NEW s, Publish(m, type, s) PROVE t \in data'[et]
    BY <2>2 DEF Publish
  <2>3. QED
    BY <1>2, <2>1, <2>2 DEF Environment
<1>3. CASE ~ DeleteData /\ ~ Environment
  <2>1. data' = data
    BY <1>3 DEF Next, Cleaner, Load, SkipRow, VisitRow, Query, QueryFails, RowDone, RowsDone,
       Exit, DeleteMetadata, Stopped, vars, world
  <2>2. QED
    BY <2>1
<1>4. QED
  BY <1>1, <1>2, <1>3

\* For every policy list, history, option -s and clock, and with any failures and
\* anything published meanwhile, no step of the cleaner deletes a value that the policy
\* of its row still keeps.
THEOREM OnlyExpired == Spec => OnlyExpiredIsDeleted
<1>1. Init => WalkInv
  BY DEF Init, WalkInv, AtHand
<1>2. Types /\ WalkInv /\ [Next]_vars =>
        [\A et \in EventRows : \A t \in data[et] \ data'[et] :
            \E e \in PolicyTime(et) : t <= e]_vars
  <2>1. SUFFICES ASSUME Types, WalkInv, [Next]_vars, NEW et \in EventRows,
                        NEW t \in data[et] \ data'[et]
                 PROVE  \E e \in PolicyTime(et) : t <= e
    OBVIOUS
  <2>2. DeleteData /\ et = Head(todo) /\ t \in expired
    BY <2>1, DataShrinks
  <2>3. QED
    BY <2>1, <2>2 DEF DeleteData, WalkInv, AtHand
<1>3. QED
  BY <1>1, <1>2, TypesInit, TypesNext, WalkNext, PTL DEF Spec, OnlyExpiredIsDeleted

-------------------------------------------------------------------------------
(* Only an object that was idle is removed. *)

\* The row was visited, or is the one that is counted and at hand.
Reached(et) == et \notin ToSet(todo) \/ (AtHand /\ et = Head(todo))

\* The counts of the object of the row agree.
Agree(et) == counts[et.md].expired = counts[et.md].total

\* The row had not been written since the time its policy names when it was read.
Idle(et) == \A u \in snapshot[et], e \in PolicyTime(et) : u <= e

\* No object has more expired rows than rows.
CountsInv == \A m \in Metadata : counts[m].expired <= counts[m].total

\* As long as the two counts of an object agree, each of its rows that was counted
\* had expired, and still has: the clock moves on and the rows are read once.
IdleInv ==
    pc # "load" /\ start = {} => \A et \in EventRows : Reached(et) /\ Agree(et) => Idle(et)

\* Objects are deleted after every row was visited, and because their counts agree.
RemovedInv ==
    /\ pc \in {"metadata", "done"} => todo = <<>>
    /\ removed # {} => pc \in {"metadata", "done"}
    /\ \A m \in removed : counts[m].expired = counts[m].total

\* Each of the following is one part of what a step keeps: first the counts.
LEMMA CountsNext == Types /\ CountsInv /\ [Next]_vars => CountsInv'
<1> SUFFICES ASSUME Types, CountsInv, [Next]_vars PROVE CountsInv'
  OBVIOUS
<1>1. counts \in [Metadata -> [expired : Nat, total : Nat]]
  BY DEF Types
<1>2. CASE VisitRow
  <2>1. PICK n \in {0, 1} :
            /\ Head(todo).md \in Metadata
            /\ counts' = [counts EXCEPT ![Head(todo).md] =
                              [expired |-> @.expired + n, total |-> @.total + 1]]
    BY <1>2, Visit
  <2>2. ASSUME NEW m \in Metadata PROVE counts'[m].expired <= counts'[m].total
    <3>1. counts[m] \in [expired : Nat, total : Nat] /\ counts[m].expired <= counts[m].total
      BY <1>1 DEF CountsInv
    <3>2. CASE m = Head(todo).md
      <4>1. counts'[m] = [expired |-> counts[m].expired + n, total |-> counts[m].total + 1]
        BY <1>1, <2>1, <3>2
      <4>2. QED
        BY <3>1, <4>1
    <3>3. CASE m # Head(todo).md
      BY <1>1, <2>1, <3>1, <3>3
    <3>4. QED
      BY <3>2, <3>3
  <2>3. QED
    BY <2>2 DEF CountsInv
<1>3. CASE ~ VisitRow
  <2>1. counts' = counts
    BY <1>3 DEF Next, Cleaner, Environment, Load, SkipRow, Query, QueryFails, DeleteData,
       RowDone, RowsDone, Exit, DeleteMetadata, Tick, Publish, Stopped, vars
  <2>2. QED
    BY <2>1 DEF CountsInv
<1>4. QED
  BY <1>2, <1>3

\* A row that was idle stays so: its policy's time only moves on.
LEMMA IdleStays ==
    ASSUME Types, Types', policies' = policies, now <= now', snapshot' = snapshot,
           NEW et \in EventRows, Idle(et)
    PROVE  Idle(et)'
<1> SUFFICES ASSUME NEW u \in snapshot[et], NEW d \in PolicyTime(et)' PROVE u <= d
  BY DEF Idle
<1>1. PICK e \in PolicyTime(et) : e <= d
  BY PolicyTimeStep
<1>2. u \in Int /\ e \in Int /\ d \in Int
  <2>1. u \in Int
    BY DEF Types
  <2>2. QED
    BY <1>1, <2>1, PolicyTimeType, PolicyTimeStep
<1>3. u <= e
  BY <1>1 DEF Idle
<1>4. QED
  BY <1>1, <1>2, <1>3

\* Steps that count no row and leave the rows behind the cleaner as they are.
LEMMA IdleFrame ==
    ASSUME Types, Types', policies' = policies, now <= now', IdleInv, pc # "load",
           UNCHANGED <<start, snapshot, counts>>,
           start = {} => \A et \in EventRows : Reached(et)' => Reached(et) \/ Idle(et)
    PROVE  IdleInv'
<1> SUFFICES ASSUME start' = {}, NEW et \in EventRows, Reached(et)', Agree(et)'
             PROVE  Idle(et)'
  BY DEF IdleInv
<1>1. start = {} /\ Agree(et)
  BY DEF Agree
<1>2. Idle(et)
  BY <1>1 DEF IdleInv
<1>3. QED
  BY <1>2, IdleStays

\* The rows counted so far.
LEMMA IdleNext == Types /\ CountsInv /\ RemovedInv /\ IdleInv /\ [Next]_vars => IdleInv'
<1> SUFFICES ASSUME Types, CountsInv, RemovedInv, IdleInv, [Next]_vars PROVE IdleInv'
  OBVIOUS
<1>1. Types' /\ policies' = policies /\ now <= now'
  BY TypesNext
<1>2. CASE Load
  <2>1. todo' = RowOrder /\ pc' = "row"
    BY <1>2 DEF Load
  <2>2. ASSUME NEW et \in EventRows PROVE ~ Reached(et)'
    BY <2>1, <2>2 DEF Reached, AtHand, EventRows
  <2>3. QED
    BY <2>2 DEF IdleInv
<1>3. CASE SkipRow
  <2>1. /\ pc = "row" /\ pc' = "row" /\ todo # <<>> /\ todo' = Tail(todo)
        /\ ExpireTime(Head(todo)) = {}
        /\ UNCHANGED <<start, snapshot, counts>>
    BY <1>3 DEF SkipRow, Skipped, options
  <2>2. ToSet(todo) = {Head(todo)} \cup ToSet(todo')
    BY <2>1, TodoTail DEF Types
  <2>3. start = {} => Idle(Head(todo))
    BY <2>1, PolicyTimeType DEF Idle
  <2>4. start = {} => \A et \in EventRows : Reached(et)' => Reached(et) \/ Idle(et)
    BY <2>1, <2>2, <2>3 DEF Reached, AtHand
  <2>5. QED
    BY <1>1, <2>1, <2>4, IdleFrame
<1>4. CASE VisitRow
  <2>1. /\ pc = "row" /\ UNCHANGED <<start, now, todo, snapshot>> /\ Head(todo).md \in Metadata
    BY <1>4, Visit DEF options, world
  <2>2. PICK x \in ExpireTime(Head(todo)), n \in {0, 1} :
          /\ n = 1 <=> HasExpired(Head(todo), x)
          /\ counts' = [counts EXCEPT ![Head(todo).md] =
                            [expired |-> @.expired + n, total |-> @.total + 1]]
    BY <1>4, Visit
  <2>3. SUFFICES ASSUME start' = {}, NEW et \in EventRows, Reached(et)', Agree(et)'
                 PROVE  Idle(et)'
    BY DEF IdleInv
  <2>4. et.md \in Metadata
    BY DEF Metadata
  <2>5. /\ counts[et.md] \in [expired : Nat, total : Nat]
        /\ counts[et.md].expired <= counts[et.md].total
        /\ counts \in [Metadata -> [expired : Nat, total : Nat]]
    BY <2>4 DEF Types, CountsInv
  <2>6. Agree(et) /\ (et.md = Head(todo).md => n = 1)
    <3>1. CASE et.md = Head(todo).md
      <4>1. counts'[et.md] =
                [expired |-> counts[et.md].expired + n, total |-> counts[et.md].total + 1]
        BY <2>2, <2>4, <2>5, <3>1
      <4>2. counts[et.md].expired + n = counts[et.md].total + 1
        BY <2>3, <4>1 DEF Agree
      <4>3. QED
        BY <2>5, <4>2 DEF Agree
    <3>2. CASE et.md # Head(todo).md
      <4>1. counts'[et.md] = counts[et.md]
        BY <2>2, <2>4, <2>5, <3>2
      <4>2. QED
        BY <2>3, <3>2, <4>1 DEF Agree
    <3>3. QED
      BY <3>1, <3>2
  <2>7. Idle(et)
    <3>1. CASE et \notin ToSet(todo)
      BY <2>1, <2>3, <2>6, <3>1 DEF IdleInv, Reached
    <3>2. CASE et = Head(todo)
      <4>1. \A u \in snapshot[et] : u <= x
        BY <2>2, <2>6, <3>2 DEF HasExpired
      <4>2. \A e \in PolicyTime(et) : e = x
        BY <2>1, <2>2, <2>3, <3>2, PolicyTimeType
      <4>3. QED
        BY <4>1, <4>2 DEF Idle
    <3>3. QED
      BY <2>1, <2>3, <3>1, <3>2 DEF Reached
  <2>8. QED
    BY <1>1, <2>1, <2>7, IdleStays
<1>5. CASE QueryFails \/ RowDone
  <2>1. /\ pc = "query" /\ pc' = "row" /\ todo' = Tail(todo) /\ todo # <<>>
        /\ UNCHANGED <<start, snapshot, counts>>
    BY <1>5 DEF QueryFails, RowDone, options, Types
  <2>2. ToSet(todo) = {Head(todo)} \cup ToSet(todo')
    BY <2>1, TodoTail DEF Types
  <2>3. \A et \in EventRows : Reached(et)' => Reached(et)
    BY <2>1, <2>2 DEF Reached, AtHand
  <2>4. QED
    BY <1>1, <2>1, <2>3, IdleFrame
<1>6. CASE Query \/ DeleteData
  <2>1. /\ pc \in {"query", "delete"} /\ pc' \in {"query", "delete"}
        /\ UNCHANGED <<start, todo, snapshot, counts>>
    BY <1>6 DEF Query, DeleteData, options
  <2>2. \A et \in EventRows : Reached(et)' => Reached(et)
    BY <2>1 DEF Reached, AtHand
  <2>3. QED
    BY <1>1, <2>1, <2>2, IdleFrame
<1>7. CASE RowsDone \/ Exit
  <2>1. /\ pc \in {"row", "metadata"} /\ ~ AtHand'
        /\ UNCHANGED <<start, todo, snapshot, counts>>
    BY <1>7 DEF RowsDone, Exit, options, AtHand
  <2>2. \A et \in EventRows : Reached(et)' => Reached(et)
    BY <2>1 DEF Reached
  <2>3. QED
    BY <1>1, <2>1, <2>2, IdleFrame
<1>8. CASE Environment \/ Stopped \/ UNCHANGED vars \/ \E m \in Metadata : DeleteMetadata(m)
  <2>1. UNCHANGED <<pc, start, todo, snapshot, counts>>
    BY <1>8 DEF Environment, Tick, Publish, Stopped, vars, options, DeleteMetadata
  <2>2. \A et \in EventRows : Reached(et)' => Reached(et)
    BY <2>1 DEF Reached, AtHand
  <2>3. CASE pc = "load"
    BY <2>1, <2>3 DEF IdleInv
  <2>4. CASE pc # "load"
    BY <1>1, <2>1, <2>2, <2>4, IdleFrame
  <2>5. QED
    BY <2>3, <2>4
<1>9. QED
  BY <1>2, <1>3, <1>4, <1>5, <1>6, <1>7, <1>8 DEF Next, Cleaner

\* The objects that were removed.
LEMMA RemovedNext == Types /\ RemovedInv /\ [Next]_vars => RemovedInv'
<1> SUFFICES ASSUME Types, RemovedInv, [Next]_vars PROVE RemovedInv'
  OBVIOUS
<1>1. CASE VisitRow
  <2>1. pc = "row" /\ pc' = "query" /\ removed' = removed
    BY <1>1 DEF VisitRow
  <2>2. removed = {}
    BY <2>1 DEF RemovedInv
  <2>3. QED
    BY <2>1, <2>2 DEF RemovedInv
<1>2. CASE Load \/ SkipRow \/ Query \/ QueryFails \/ DeleteData \/ RowDone
  <2>1. /\ pc \notin {"metadata", "done"} /\ pc' \notin {"metadata", "done"}
        /\ removed' = removed
    BY <1>2 DEF Load, SkipRow, Query, QueryFails, DeleteData, RowDone
  <2>2. removed = {}
    BY <2>1 DEF RemovedInv
  <2>3. QED
    BY <2>1, <2>2 DEF RemovedInv
<1>3. CASE RowsDone \/ Exit
  <2>1. UNCHANGED <<counts, removed, todo>> /\ pc' \in {"metadata", "done"}
    BY <1>3 DEF RowsDone, Exit
  <2>2. todo = <<>>
    BY <1>3 DEF RowsDone, Exit, RemovedInv
  <2>3. QED
    BY <2>1, <2>2 DEF RemovedInv
<1>4. ASSUME NEW m \in Metadata, DeleteMetadata(m) PROVE RemovedInv'
  <2>1. /\ pc = "metadata" /\ UNCHANGED <<pc, counts, todo>> /\ removed' = removed \cup {m}
        /\ counts[m].total = counts[m].expired
    BY <1>4 DEF DeleteMetadata, Doomed
  <2>2. QED
    BY <2>1 DEF RemovedInv
<1>5. CASE Environment \/ Stopped \/ UNCHANGED vars
  <2>1. UNCHANGED <<pc, counts, todo, removed>>
    BY <1>5 DEF Environment, Tick, Publish, Stopped, vars
  <2>2. QED
    BY <2>1 DEF RemovedInv
<1>6. QED
  BY <1>1, <1>2, <1>3, <1>4, <1>5 DEF Next, Cleaner

\* Without option -s, the cleaner deletes a metadata object only when none of its rows
\* with an expiry had, when the cleaner read them, been written since the time the row's
\* policy names, for every table of rows, list of policies and history, whatever fails.
THEOREM OnlyIdle == Spec => []OnlyIdleIsRemoved
<1>1. Init => CountsInv /\ IdleInv /\ RemovedInv
  BY DEF Init, CountsInv, IdleInv, RemovedInv
<1>2. Types /\ IdleInv /\ RemovedInv => OnlyIdleIsRemoved
  <2>1. SUFFICES ASSUME Types, IdleInv, RemovedInv, NEW m \in removed, NEW et \in EventRows,
                        et.md = m, start = {}
                 PROVE  Idle(et)
    BY DEF OnlyIdleIsRemoved, Idle
  <2>2. pc \in {"metadata", "done"} /\ todo = <<>> /\ Agree(et)
    BY <2>1 DEF RemovedInv, Agree
  <2>3. et \notin ToSet(todo)
    BY <2>2 DEF ToSet
  <2>4. QED
    BY <2>1, <2>2, <2>3 DEF IdleInv, Reached
<1>3. QED
  BY <1>1, <1>2, TypesInit, TypesNext, CountsNext, IdleNext, RemovedNext, PTL DEF Spec

-------------------------------------------------------------------------------
(* The walk leaves no hole. *)

\* No failure, nothing published meanwhile, no time passed, no option -s.
Calm == faults = 0 /\ writes = 0 /\ now = FirstNow /\ start = {}

\* Nothing is left of the row within the reach of a walk.
Clean(et) ==
    \A e \in PolicyTime(et) : \A t \in data[et] :
        t > Ending(et, e) \/ t < Ending(et, e) - MaxMisses * TimeChunk

\* The columns of the row at hand that are about to be deleted.
Doing(t) == pc = "delete" /\ t \in expired

\* The walk got to time 0, and nothing is left below its beginning...
AtZero ==
    /\ misses >= MaxMisses
    /\ \A t \in data[Head(todo)] : t > upto \/ Doing(t)

\* ... or it is on its way: nothing is left between where it began and where it is,
\* and it has moved back by a chunk for every miss.
OnItsWay ==
    /\ misses <= MaxMisses
    /\ end <= upto - misses * TimeChunk
    /\ \A t \in data[Head(todo)] : t > upto \/ t < end \/ end = upto \/ Doing(t)

\* While all is calm, the rows behind the cleaner are clean and the row at hand is
\* clean as far as the walk has got.
HoleInv ==
    Calm /\ pc # "load" =>
        /\ \A et \in EventRows : et \notin ToSet(todo) => Clean(et)
        /\ AtHand => \E e \in PolicyTime(Head(todo)) :
                        upto = Ending(Head(todo), e) /\ (AtZero \/ OnItsWay)

\* Where a walk begins depends on what the cleaner read, not on the clock.
LEMMA EndingType ==
    ASSUME Types, NEW et \in EventRows, NEW e \in Int
    PROVE  Ending(et, e) \in Int
BY DEF Types, Ending, HasExpired

\* With the policies and the clock as they were, so are the policy's times.
LEMMA SameTime ==
    ASSUME policies' = policies, now' = now, NEW et
    PROVE  PolicyTime(et)' = PolicyTime(et)
<1>1. Expiry(et)' = Expiry(et)
  BY ExpiryStep
<1>2. QED
  BY <1>1 DEF PolicyTime

\* A row that is clean stays so as long as nothing is published and the clock stands.
LEMMA CleanStays ==
    ASSUME policies' = policies, now' = now, snapshot' = snapshot,
           NEW et \in EventRows, data'[et] \subseteq data[et], Clean(et)
    PROVE  Clean(et)'
<1>1. PolicyTime(et)' = PolicyTime(et)
  BY SameTime
<1>2. \A e : Ending(et, e)' = Ending(et, e)
  BY DEF Ending, HasExpired
<1>3. QED
  BY <1>1, <1>2 DEF Clean

\* A query of the chunk before: whatever it does not find is not there.
LEMMA WalkBack ==
    ASSUME Types, NEW et \in EventRows, NEW found, found = QueryData(et, From, end),
           begin = end - TimeChunk, misses < MaxMisses,
           misses <= MaxMisses, end <= upto - misses * TimeChunk,
           \A t \in data[et] : t > upto \/ t < end \/ end = upto,
           NEW m, m = MissesNow + IF found = {} THEN 1 ELSE 0
    PROVE  \/ m >= MaxMisses /\ \A t \in data[et] : t > upto \/ t \in found
           \/ /\ m <= MaxMisses
              /\ From <= upto - m * TimeChunk
              /\ \A t \in data[et] : t > upto \/ t < From \/ t \in found
<1>1. /\ upto \in Int /\ end \in Int /\ begin \in Int /\ misses \in Nat
      /\ TimeChunk \in Nat \ {0} /\ MaxMisses \in Nat \ {0} /\ data[et] \subseteq Nat
  BY RemoveDataAssumption DEF Types
<1>2. \A t \in data[et] : t \in found <=> From <= t /\ t <= end
  BY DEF QueryData
<1>3. \A t \in data[et] : t > upto \/ t <= end
  BY <1>1
<1>4. CASE begin <= 0
  <2>1. From = 0 /\ MissesNow = MaxMisses
    BY <1>1, <1>4 DEF From, MissesNow
  <2>2. m >= MaxMisses
    BY <1>1, <2>1
  <2>3. \A t \in data[et] : t > upto \/ t \in found
    BY <1>1, <1>2, <1>3, <2>1
  <2>4. QED
    BY <2>2, <2>3
<1>5. CASE begin > 0
  <2>1. From = end - TimeChunk /\ MissesNow = misses
    BY <1>1, <1>5 DEF From, MissesNow
  <2>2. (m = misses \/ m = misses + 1) /\ m \in Nat
    BY <1>1, <2>1
  <2>3. PICK c \in Int : c = misses * TimeChunk
    BY <1>1
  <2>4. m * TimeChunk = c \/ m * TimeChunk = c + TimeChunk
    <3>1. (misses + 1) * TimeChunk = misses * TimeChunk + TimeChunk
      BY <1>1
    <3>2. QED
      BY <2>2, <2>3, <3>1
  <2>5. PICK d : d = m * TimeChunk
    OBVIOUS
  <2>6. end <= upto - c /\ (d = c \/ d = c + TimeChunk)
    BY <2>3, <2>4, <2>5
  <2>7. From <= upto - d
    BY <1>1, <2>1, <2>3, <2>6
  <2>8. From <= upto - m * TimeChunk
    BY <2>5, <2>7
  <2>9. m <= MaxMisses
    BY <1>1, <2>2
  <2>10. \A t \in data[et] : t > upto \/ t < From \/ t \in found
    BY <1>1, <1>2, <1>3, <2>1
  <2>11. QED
    BY <2>8, <2>9, <2>10
<1>6. QED
  BY <1>1, <1>4, <1>5

\* A walk that has used up its misses has left the row clean.
LEMMA WalkEnds ==
    ASSUME Types, AtHand, pc = "query", misses >= MaxMisses,
           NEW e \in PolicyTime(Head(todo)), upto = Ending(Head(todo), e),
           AtZero \/ OnItsWay
    PROVE  Clean(Head(todo))
<1>1. PICK et \in EventRows : et = Head(todo)
  BY TodoTail DEF Types, AtHand
<1>2. /\ upto \in Int /\ end \in Int /\ misses \in Nat
      /\ TimeChunk \in Nat \ {0} /\ MaxMisses \in Nat \ {0} /\ data[et] \subseteq Nat
  BY RemoveDataAssumption DEF Types
<1>3. \A t \in data[et] : t > upto \/ t < upto - MaxMisses * TimeChunk
  <2>1. CASE AtZero
    BY <1>1, <2>1 DEF AtZero, Doing
  <2>2. CASE OnItsWay
    <3>1. misses = MaxMisses
      BY <1>2, <2>2 DEF OnItsWay
    <3>2. PICK c \in Nat : c = MaxMisses * TimeChunk
      BY <1>2
    <3>3. c > 0
      <4>1. \A a, b \in Nat \ {0} : a * b > 0
        OBVIOUS
      <4>2. QED
        BY <1>2, <3>2, <4>1
    <3>4. end <= upto - c
      BY <2>2, <3>1, <3>2 DEF OnItsWay
    <3>5. \A t \in data[et] : t > upto \/ t < end \/ end = upto
      BY <1>1, <2>2 DEF OnItsWay, Doing
    <3>6. \A t \in data[et] : t > upto \/ t < upto - c
      BY <1>2, <3>3, <3>4, <3>5
    <3>7. QED
      BY <3>2, <3>6
  <2>3. QED
    BY <2>1, <2>2
<1>4. \A d \in PolicyTime(et) : d = e
  BY <1>1, PolicyTimeType
<1>5. \A d \in PolicyTime(et) : Ending(et, d) = upto
  BY <1>1, <1>4
<1>6. QED
  BY <1>1, <1>3, <1>5 DEF Clean

\* A step that fails, publishes or lets time pass ends the calm; any other keeps the
\* policies' times and what was read, and adds no column.
LEMMA CalmBefore ==
    ASSUME Types, [Next]_vars, Calm'
    PROVE  /\ Calm /\ policies' = policies /\ now' = now
           /\ pc # "load" => snapshot' = snapshot
           /\ \A et \in EventRows : data'[et] \subseteq data[et]
           /\ ~ QueryFails /\ ~ Environment
           /\ DeleteData => data' = [data EXCEPT ![Head(todo)] = @ \ expired]
<1>1. /\ faults \in Nat /\ writes \in Nat /\ now \in Nat /\ FirstNow <= now /\ FirstNow \in Nat
      /\ data \in [EventRows -> SUBSET Nat]
  BY RemoveDataAssumption DEF Types
<1>2. ~ QueryFails
  BY <1>1 DEF QueryFails, Calm
<1>3. ~ Environment
  <2>1. ~ Tick
    BY <1>1 DEF Tick, Calm
  <2>2. \A m, type, t : ~ Publish(m, type, t)
    BY <1>1 DEF Publish, Calm
  <2>3. QED
    BY <2>1, <2>2 DEF Environment
<1>4. CASE DeleteData
  <2>1. /\ data' = [data EXCEPT ![Head(todo)] = @ \ expired] /\ UNCHANGED faults
        /\ UNCHANGED <<policies, start, now, writes, snapshot>>
    BY <1>1, <1>4 DEF DeleteData, Calm, options
  <2>2. \A et \in EventRows : data'[et] \subseteq data[et]
    BY <1>1, <2>1
  <2>3. QED
    BY <1>2, <1>3, <2>1, <2>2 DEF Calm
<1>5. CASE ~ DeleteData
  <2>1. /\ UNCHANGED <<policies, start, now, writes, faults, data>>
        /\ pc # "load" => snapshot' = snapshot
    BY <1>2, <1>3, <1>5 DEF Next, Cleaner, Load, SkipRow, VisitRow, Query, RowDone, RowsDone,
       Exit, DeleteMetadata, Stopped, vars, world, options
  <2>2. QED
    BY <1>2, <1>3, <1>5, <2>1 DEF Calm
<1>6. QED
  BY <1>4, <1>5

\* The rows behind the cleaner.
Behind == \A et \in EventRows : et \notin ToSet(todo) => Clean(et)

\* A calm step leaves the rows clean that were clean.
LEMMA BehindStep ==
    ASSUME Types, [Next]_vars, Calm', pc # "load",
           \A et \in EventRows : et \notin ToSet(todo') => Clean(et)
    PROVE  Behind'
<1>1. /\ policies' = policies /\ now' = now /\ snapshot' = snapshot
      /\ \A et \in EventRows : data'[et] \subseteq data[et]
  BY CalmBefore
<1>2. QED
  BY <1>1, CleanStays DEF Behind

\* While all is calm, no step leaves a hole behind.
LEMMA HoleNext == Types /\ WalkInv /\ HoleInv /\ [Next]_vars => HoleInv'
<1> SUFFICES ASSUME Types, WalkInv, HoleInv, [Next]_vars, Calm', (pc # "load")'
             PROVE  /\ Behind'
                    /\ AtHand' => (\E e \in PolicyTime(Head(todo)) :
                            upto = Ending(Head(todo), e) /\ (AtZero \/ OnItsWay))'
  BY DEF HoleInv, Behind
<1>1. /\ Calm /\ policies' = policies /\ now' = now
      /\ pc # "load" => snapshot' = snapshot
      /\ \A et \in EventRows : data'[et] \subseteq data[et]
  BY CalmBefore
<1>2. pc # "load" =>
        /\ Behind
        /\ AtHand => \E e \in PolicyTime(Head(todo)) :
                        upto = Ending(Head(todo), e) /\ (AtZero \/ OnItsWay)
  BY <1>1 DEF HoleInv, Behind
<1>3. AtHand => Head(todo) \in EventRows
  BY TodoTail DEF Types, AtHand
<1>4. CASE Load
  <2>1. todo' = RowOrder /\ pc' = "row"
    BY <1>4 DEF Load
  <2>2. QED
    BY <2>1 DEF Behind, EventRows, AtHand
<1>5. CASE SkipRow
  <2>1. /\ pc = "row" /\ pc' = "row" /\ todo # <<>> /\ todo' = Tail(todo)
        /\ ExpireTime(Head(todo)) = {}
    BY <1>5 DEF SkipRow, Skipped
  <2>2. ToSet(todo) = {Head(todo)} \cup ToSet(todo')
    BY <2>1, TodoTail DEF Types
  <2>3. Clean(Head(todo))
    BY <1>1, <2>1, PolicyTimeType DEF Clean, Calm
  <2>4. Behind'
    BY <1>2, <2>1, <2>2, <2>3, BehindStep DEF Behind
  <2>5. QED
    BY <2>1, <2>4 DEF AtHand
<1>6. CASE VisitRow
  <2>1. PICK et \in EventRows : et = Head(todo)
    BY <1>6, Visit
  <2>2. /\ UNCHANGED <<todo, snapshot>> /\ pc = "row" /\ pc' = "query" /\ misses' = 0
        /\ end' = upto' /\ upto' \in Int
    BY <1>6, Visit
  <2>3. PICK e \in ExpireTime(et) : upto' = Ending(et, e)
    BY <1>6, <2>1, Visit
  <2>4. e \in PolicyTime(et)'
    BY <1>1, <2>3, PolicyTimeType, SameTime DEF Calm
  <2>5. upto' = Ending(et, e)'
    BY <2>2, <2>3 DEF Ending, HasExpired
  <2>6. OnItsWay'
    <3>1. end' <= upto' - misses' * TimeChunk /\ misses' <= MaxMisses
      BY <2>2, RemoveDataAssumption
    <3>2. QED
      BY <2>2, <3>1 DEF OnItsWay
  <2>7. Behind'
    BY <1>2, <2>2, BehindStep DEF Behind
  <2>8. et = Head(todo)'
    BY <2>1, <2>2
  <2>9. QED
    BY <2>4, <2>5, <2>6, <2>7, <2>8
<1>7. CASE Query
  <2>1. PICK et \in EventRows : et = Head(todo) /\ et = Head(todo')
    BY <1>3, <1>7 DEF Query, AtHand
  <2>2. PICK found : found = QueryData(et, From, end)
    OBVIOUS
  <2>3. PICK m : m = MissesNow + IF found = {} THEN 1 ELSE 0
    OBVIOUS
  <2>4. /\ pc = "query" /\ misses < MaxMisses /\ UNCHANGED <<todo, data, snapshot, upto>>
        /\ expired' = found /\ end' = From /\ misses' = m
        /\ pc' = IF found = {} THEN "query" ELSE "delete"
    BY <1>7, <2>1, <2>2, <2>3 DEF Query, world
  <2>5. PICK e \in PolicyTime(et) : upto = Ending(et, e) /\ (AtZero \/ OnItsWay)
    BY <1>2, <2>1, <2>4 DEF AtHand
  <2>6. /\ misses <= MaxMisses /\ end <= upto - misses * TimeChunk
        /\ \A t \in data[et] : t > upto \/ t < end \/ end = upto
    <3>1. ~ AtZero
      BY <2>4, RemoveDataAssumption DEF AtZero, Types
    <3>2. QED
      BY <2>1, <2>4, <2>5, <3>1 DEF OnItsWay, Doing
  <2>7. begin = end - TimeChunk
    BY <2>4 DEF WalkInv, AtHand
  <2>8. \/ m >= MaxMisses /\ \A t \in data[et] : t > upto \/ t \in found
        \/ /\ m <= MaxMisses
           /\ From <= upto - m * TimeChunk
           /\ \A t \in data[et] : t > upto \/ t < From \/ t \in found
    BY <2>2, <2>3, <2>4, <2>6, <2>7, WalkBack
  <2>9. \A t \in found : Doing(t)'
    BY <2>4 DEF Doing
  <2>10. AtZero' \/ OnItsWay'
    BY <2>1, <2>4, <2>8, <2>9 DEF AtZero, OnItsWay
  <2>11. e \in PolicyTime(et)' /\ upto' = Ending(et, e)'
    <3>1. Ending(et, e)' = Ending(et, e)
      BY <2>4 DEF Ending, HasExpired
    <3>2. QED
      BY <1>1, <2>4, <2>5, <3>1, SameTime
  <2>12. Behind'
    BY <1>2, <2>4, BehindStep DEF Behind
  <2>13. QED
    BY <2>1, <2>10, <2>11, <2>12
<1>8. CASE DeleteData
  <2>1. PICK et \in EventRows : et = Head(todo) /\ et = Head(todo')
    BY <1>3, <1>8 DEF DeleteData, AtHand
  <2>2. /\ pc = "delete" /\ pc' = "query" /\ UNCHANGED <<todo, snapshot, upto, end, misses>>
        /\ data' = [data EXCEPT ![et] = @ \ expired]
    BY <1>8, <2>1, CalmBefore DEF DeleteData, walk
  <2>3. PICK e \in PolicyTime(et) : upto = Ending(et, e) /\ (AtZero \/ OnItsWay)
    BY <1>2, <2>1, <2>2 DEF AtHand
  <2>4. data'[et] = data[et] \ expired
    BY <2>2 DEF Types
  <2>5. AtZero => AtZero'
    BY <2>1, <2>2, <2>4 DEF AtZero, Doing
  <2>6. OnItsWay => OnItsWay'
    BY <2>1, <2>2, <2>4 DEF OnItsWay, Doing
  <2>7. e \in PolicyTime(et)' /\ upto' = Ending(et, e)'
    <3>1. Ending(et, e)' = Ending(et, e)
      BY <2>2 DEF Ending, HasExpired
    <3>2. QED
      BY <1>1, <2>2, <2>3, <3>1, SameTime
  <2>8. Behind'
    BY <1>2, <2>2, BehindStep DEF Behind
  <2>9. QED
    BY <2>1, <2>3, <2>5, <2>6, <2>7, <2>8
<1>9. CASE RowDone
  <2>1. /\ pc = "query" /\ misses >= MaxMisses /\ pc' = "row" /\ todo' = Tail(todo)
        /\ AtHand /\ todo # <<>>
    BY <1>9 DEF RowDone, AtHand, Types
  <2>2. ToSet(todo) = {Head(todo)} \cup ToSet(todo')
    BY <2>1, TodoTail DEF Types
  <2>3. Clean(Head(todo))
    BY <1>2, <2>1, WalkEnds
  <2>4. Behind'
    BY <1>2, <2>1, <2>2, <2>3, BehindStep DEF Behind
  <2>5. QED
    BY <2>1, <2>4 DEF AtHand
<1>10. CASE RowsDone \/ Exit \/ \E m \in Metadata : DeleteMetadata(m)
  <2>1. pc # "load" /\ ~ AtHand' /\ todo' = todo
    BY <1>10 DEF RowsDone, Exit, DeleteMetadata, AtHand
  <2>2. Behind'
    BY <1>2, <2>1, BehindStep DEF Behind
  <2>3. QED
    BY <2>1, <2>2
<1>11. CASE UNCHANGED vars
  <2>1. /\ pc # "load"
        /\ UNCHANGED <<pc, todo, data, snapshot, upto, end, misses, expired>>
    BY <1>11 DEF vars, world, walk
  <2>2. Behind'
    BY <1>2, <2>1, BehindStep DEF Behind
  <2>3. SUFFICES ASSUME AtHand
                 PROVE  (\E e \in PolicyTime(Head(todo)) :
                            upto = Ending(Head(todo), e) /\ (AtZero \/ OnItsWay))'
    BY <2>1, <2>2 DEF AtHand
  <2>4. PICK et \in EventRows : et = Head(todo) /\ et = Head(todo')
    BY <1>3, <2>1, <2>3
  <2>5. PICK e \in PolicyTime(et) : upto = Ending(et, e) /\ (AtZero \/ OnItsWay)
    BY <1>2, <2>1, <2>3, <2>4
  <2>6. AtZero' = AtZero /\ OnItsWay' = OnItsWay
    BY <2>1 DEF AtZero, OnItsWay, Doing
  <2>7. e \in PolicyTime(et)' /\ upto' = Ending(et, e)'
    <3>1. Ending(et, e)' = Ending(et, e)
      BY <2>1 DEF Ending, HasExpired
    <3>2. QED
      BY <1>1, <2>1, <2>5, <3>1, SameTime
  <2>8. QED
    BY <2>4, <2>5, <2>6, <2>7
<1>12. QED
  BY <1>4, <1>5, <1>6, <1>7, <1>8, <1>9, <1>10, <1>11, CalmBefore DEF Next, Cleaner, Stopped

\* The backward walk of the cleaner, with its chunks that share an end, its count of
\* misses and its last chunk at time 0, leaves no expired column within its reach, for
\* every chunk size, number of misses, history and policy.
THEOREM NothingLeft == Spec => []NothingLeftBehind
<1>1. Init => WalkInv /\ HoleInv
  BY DEF Init, WalkInv, HoleInv, AtHand
<1>2. HoleInv => NothingLeftBehind
  <2>1. SUFFICES ASSUME HoleInv, faults = 0, writes = 0, now = FirstNow, NEW et \in EventRows,
                        Visited(et)
                 PROVE  Clean(et)
    BY DEF NothingLeftBehind, Clean, Ending
  <2>2. QED
    BY <2>1 DEF HoleInv, Calm, Visited
<1>3. QED
  BY <1>1, <1>2, TypesInit, TypesNext, WalkNext, HoleNext, PTL DEF Spec

===============================================================================
