----------------------- MODULE ResourceManagerProofs -----------------------
(***************************************************************************)
(* Proofs about ResourceManager, for every set of requests and providers:  *)
(* where a request's state is, that its position in the list of providers  *)
(* is valid while providers come and go, and that it only moves forward.   *)
(***************************************************************************)
EXTENDS ResourceManager, FiniteSetTheorems, WellFoundedInduction, TLAPS

-----------------------------------------------------------------------------
(***************************************************************************)
(* Lists whose members are there once.                                     *)
(***************************************************************************)
Once(s) == \A i, j \in DOMAIN s : i # j => s[i] # s[j]
Ascending(s) == \A i, j \in DOMAIN s : i < j => Order[s[i]] <= Order[s[j]]

\* A set of positions has a first one.
LEMMA FirstPosition ==
  ASSUME NEW S \in SUBSET Nat, S # {}
  PROVE  \E i \in S : \A j \in S : i <= j
<1> DEFINE R == OpToRel(<, Nat)
<1>1. IsWellFoundedOn(R, Nat) BY NatLessThanWellFounded
<1> HIDE DEF R
<1>2. PICK i \in S : \A j \in S : <<j, i>> \notin R BY <1>1, WFMin
<1>3. \A j, k \in Nat : <<j, k>> \notin R => k <= j BY DEF R, OpToRel
<1> QED BY <1>2, <1>3

\* Erase takes one member out and leaves the others in their order.
LEMMA EraseFacts ==
  ASSUME NEW S, NEW s \in Seq(S), Once(s), NEW x \in Elements(s)
  PROVE  /\ Erase(s, x) \in Seq(S) /\ Once(Erase(s, x))
         /\ Elements(Erase(s, x)) = Elements(s) \ {x}
         /\ Ascending(s) => Ascending(Erase(s, x))
<1>1. PICK n \in 1..Len(s) : n = CHOOSE i \in DOMAIN s : s[i] = x
  BY DEF Elements
<1>2. n \in DOMAIN s /\ s[n] = x BY <1>1 DEF Elements
<1>3. PICK e : e = Erase(s, x) OBVIOUS
<1>4. e = SubSeq(s, 1, n - 1) \o SubSeq(s, n + 1, Len(s)) BY <1>1, <1>3 DEF Erase
<1>5. PICK m \in Nat : m = Len(s) OBVIOUS
<1>6. n \in 1..m /\ DOMAIN s = 1..m BY <1>5
<1>7. /\ SubSeq(s, 1, n - 1) \in Seq(S) /\ Len(SubSeq(s, 1, n - 1)) = n - 1
      /\ \A i \in 1..(n - 1) : SubSeq(s, 1, n - 1)[i] = s[i]
  BY <1>5, <1>6
<1>8. /\ SubSeq(s, n + 1, m) \in Seq(S) /\ Len(SubSeq(s, n + 1, m)) = m - n
      /\ \A i \in 1..(m - n) : SubSeq(s, n + 1, m)[i] = s[n + i]
  BY <1>5, <1>6
<1>9. PICK a \in Seq(S), b \in Seq(S) : a = SubSeq(s, 1, n - 1) /\ b = SubSeq(s, n + 1, m)
  BY <1>7, <1>8
<1>10. e = a \o b /\ Len(a) = n - 1 /\ Len(b) = m - n BY <1>4, <1>5, <1>7, <1>8, <1>9
<1>11. e \in Seq(S) /\ DOMAIN e = 1..(m - 1)
  BY <1>6, <1>10
<1>12. \A i \in 1..(m - 1) : (i < n => e[i] = s[i]) /\ (i >= n => e[i] = s[i + 1])
  <2> TAKE i \in 1..(m - 1)
  <2>1. CASE i < n
    <3>1. i \in 1..(n - 1) /\ e[i] = a[i] BY <1>5, <1>6, <1>10, <2>1
    <3>2. a[i] = s[i] BY <1>7, <1>9, <3>1
    <3> QED BY <1>5, <1>6, <2>1, <3>1, <3>2
  <2>2. CASE i >= n
    <3>1. e[i] = b[i - (n - 1)] /\ i - (n - 1) \in 1..(m - n) BY <1>5, <1>6, <1>10, <2>2
    <3>2. b[i - (n - 1)] = s[n + (i - (n - 1))] BY <1>8, <1>9, <3>1
    <3>3. n + (i - (n - 1)) = i + 1 BY <1>5, <1>6
    <3> QED BY <1>5, <1>6, <2>2, <3>1, <3>2, <3>3
  <2> QED BY <1>5, <1>6, <2>1, <2>2
\* Two members of e are two members of s, in the same order.
<1>16. \A i, j \in DOMAIN e : i < j =>
         \E k, l \in DOMAIN s : k < l /\ k # n /\ l # n /\ e[i] = s[k] /\ e[j] = s[l]
  <2> SUFFICES ASSUME NEW i \in DOMAIN e, NEW j \in DOMAIN e, i < j
               PROVE  \E k, l \in DOMAIN s : k < l /\ k # n /\ l # n /\ e[i] = s[k] /\ e[j] = s[l]
    OBVIOUS
  <2>5. i \in 1..(m - 1) /\ j \in 1..(m - 1) BY <1>11
  <2>6. i \in 1..m /\ j \in 1..m /\ i + 1 \in 1..m /\ j + 1 \in 1..m BY <1>5, <2>5
  <2>1. i \in DOMAIN s /\ j \in DOMAIN s /\ i + 1 \in DOMAIN s /\ j + 1 \in DOMAIN s BY <1>6, <2>6
  <2>2. CASE j < n
    <3>1. i # n /\ j # n /\ i < j /\ e[i] = s[i] /\ e[j] = s[j] BY <1>5, <1>6, <1>12, <2>2, <2>5
    <3> QED BY <2>1, <3>1
  <2>3. CASE i < n /\ j >= n
    <3>1. i # n /\ j + 1 # n /\ i < j + 1 /\ e[i] = s[i] /\ e[j] = s[j + 1]
      BY <1>5, <1>6, <1>12, <2>3, <2>5
    <3> QED BY <2>1, <3>1
  <2>4. CASE i >= n
    <3>1. /\ i + 1 # n /\ j + 1 # n /\ i + 1 < j + 1
          /\ e[i] = s[i + 1] /\ e[j] = s[j + 1]
      BY <1>5, <1>6, <1>12, <2>4, <2>5
    <3> QED BY <2>1, <3>1
  <2> QED BY <1>5, <1>6, <2>2, <2>3, <2>4, <2>5
<1>13. Once(e)
  <2> SUFFICES ASSUME NEW i \in DOMAIN e, NEW j \in DOMAIN e, i < j PROVE e[i] # e[j]
    BY <1>11 DEF Once
  <2>1. PICK k, l \in DOMAIN s : k < l /\ e[i] = s[k] /\ e[j] = s[l] BY <1>16
  <2>2. k # l BY <1>6, <2>1
  <2> QED BY <2>1, <2>2 DEF Once
<1>14. Ascending(s) => Ascending(e)
  <2> SUFFICES ASSUME Ascending(s), NEW i \in DOMAIN e, NEW j \in DOMAIN e, i < j
               PROVE  Order[e[i]] <= Order[e[j]]
    BY DEF Ascending
  <2>1. PICK k, l \in DOMAIN s : k < l /\ e[i] = s[k] /\ e[j] = s[l] BY <1>16
  <2> QED BY <2>1 DEF Ascending
<1>15. Elements(e) = Elements(s) \ {x}
  <2>1. \A i \in DOMAIN e : \E k \in DOMAIN s : k # n /\ e[i] = s[k]
    <3> SUFFICES ASSUME NEW i \in 1..(m - 1) PROVE \E k \in 1..m : k # n /\ e[i] = s[k]
      BY <1>6, <1>11
    <3>1. CASE i < n
      <4>1. i \in 1..m /\ i # n /\ e[i] = s[i] BY <1>5, <1>6, <1>12, <3>1
      <4> QED BY <4>1
    <3>2. CASE i >= n
      <4>1. i + 1 \in 1..m /\ i + 1 # n /\ e[i] = s[i + 1] BY <1>5, <1>6, <1>12, <3>2
      <4> QED BY <4>1
    <3> QED BY <1>5, <1>6, <3>1, <3>2
  <2>2. \A k \in DOMAIN s : k # n => \E i \in DOMAIN e : e[i] = s[k]
    <3> SUFFICES ASSUME NEW k \in 1..m, k # n PROVE \E i \in 1..(m - 1) : e[i] = s[k]
      BY <1>6, <1>11
    <3>1. CASE k < n
      <4>1. k \in 1..(m - 1) /\ e[k] = s[k] BY <1>5, <1>6, <1>12, <3>1
      <4> QED BY <4>1
    <3>2. CASE k > n
      <4>1. k - 1 \in 1..(m - 1) /\ k - 1 >= n /\ (k - 1) + 1 = k BY <1>5, <1>6, <3>2
      <4>2. e[k - 1] = s[k] BY <1>12, <4>1
      <4> QED BY <4>1, <4>2
    <3> QED BY <1>5, <1>6, <3>1, <3>2
  <2>3. \A k \in DOMAIN s : s[k] = x <=> k = n BY <1>2 DEF Once
  <2> QED BY <2>1, <2>2, <2>3 DEF Elements
<1> QED BY <1>3, <1>11, <1>13, <1>14, <1>15

\* Insert adds the provider and keeps the list in order.
LEMMA InsertFacts ==
  ASSUME ResourceAssumption, list \in Seq(Providers), Once(list), Ascending(list),
         NEW p \in Providers, p \notin Elements(list), Insert(p)
  PROVE  /\ list' \in Seq(Providers) /\ Once(list') /\ Ascending(list')
         /\ Elements(list') = Elements(list) \cup {p}
<1> DEFINE higher == {i \in DOMAIN list : Order[list[i]] > Order[p]}
           at == IF higher = {} THEN Len(list) + 1
                 ELSE CHOOSE i \in higher : \A j \in higher : i <= j
<1>1. PICK m \in Nat : m = Len(list) OBVIOUS
<1>2. DOMAIN list = 1..m /\ \A i \in 1..m : list[i] \in Providers BY <1>1
<1>3. PICK n \in 1..(m + 1) : /\ n = at
                              /\ \A i \in 1..m : i < n => Order[list[i]] <= Order[p]
                              /\ n <= m => Order[list[n]] > Order[p]
  <2>0. \A i \in 1..m : Order[list[i]] \in Int /\ Order[p] \in Int BY <1>2, ResourceAssumption
  <2>1. CASE higher = {}
    <3>1. at = m + 1 /\ \A i \in 1..m : Order[list[i]] <= Order[p] BY <1>1, <1>2, <2>0, <2>1
    <3> HIDE DEF at
    <3> QED BY <1>1, <3>1
  <2>2. CASE higher # {}
    <3>1. higher \in SUBSET Nat /\ higher # {} BY <1>1, <1>2, <2>2
    <3>2. \E i \in higher : \A j \in higher : i <= j BY <3>1, FirstPosition
    <3>3. at \in higher /\ \A j \in higher : at <= j BY <2>2, <3>2
    <3>4. at \in 1..m /\ Order[list[at]] > Order[p] BY <1>2, <3>3
    <3> HIDE DEF at
    <3>5. ASSUME NEW i \in 1..m, i < at PROVE Order[list[i]] <= Order[p]
      <4>1. ~(at <= i) BY <1>1, <3>4, <3>5
      <4>2. i \notin higher BY <3>3, <4>1
      <4> QED BY <1>2, <2>0, <4>2
    <3> QED BY <1>1, <3>4, <3>5
  <2> QED BY <2>1, <2>2
<1>4. list' = SubSeq(list, 1, n - 1) \o <<p>> \o SubSeq(list, n, m)
  <2>1. list' = SubSeq(list, 1, at - 1) \o <<p>> \o SubSeq(list, at, Len(list)) BY DEF Insert
  <2> HIDE DEF at
  <2> QED BY <1>1, <1>3, <2>1
<1> HIDE DEF at, higher
<1>5. PICK a \in Seq(Providers) : /\ a = SubSeq(list, 1, n - 1) /\ Len(a) = n - 1
                                  /\ \A i \in 1..(n - 1) : a[i] = list[i]
  <2>1. SubSeq(list, 1, n - 1) \in Seq(Providers) /\ Len(SubSeq(list, 1, n - 1)) = n - 1
    BY <1>1, <1>2, <1>3
  <2>2. \A i \in 1..(n - 1) : SubSeq(list, 1, n - 1)[i] = list[i] BY <1>1, <1>2, <1>3
  <2> QED BY <2>1, <2>2
<1>6. PICK b \in Seq(Providers) : /\ b = SubSeq(list, n, m) /\ Len(b) = m + 1 - n
                                  /\ \A i \in 1..(m + 1 - n) : b[i] = list[n - 1 + i]
  <2>1. SubSeq(list, n, m) \in Seq(Providers) /\ Len(SubSeq(list, n, m)) = m + 1 - n BY <1>1, <1>2, <1>3
  <2>2. \A i \in 1..(m + 1 - n) : SubSeq(list, n, m)[i] = list[n - 1 + i] BY <1>1, <1>2, <1>3
  <2> QED BY <2>1, <2>2
<1>7. PICK c \in Seq(Providers) : /\ c = a \o <<p>> /\ Len(c) = n
                                  /\ \A i \in 1..(n - 1) : c[i] = list[i]
                                  /\ c[n] = p
  <2>1. a \o <<p>> \in Seq(Providers) /\ Len(a \o <<p>>) = n BY <1>1, <1>3, <1>5
  <2>2. \A i \in 1..(n - 1) : (a \o <<p>>)[i] = list[i] BY <1>1, <1>3, <1>5
  <2>3. (a \o <<p>>)[n] = p BY <1>1, <1>3, <1>5
  <2> QED BY <2>1, <2>2, <2>3
<1>8. /\ list' = c \o b /\ list' \in Seq(Providers) /\ DOMAIN list' = 1..(m + 1)
  <2>1. list' = c \o b BY <1>4, <1>5, <1>6, <1>7
  <2>2. Len(c \o b) = n + (m + 1 - n) BY <1>6, <1>7
  <2>3. n + (m + 1 - n) = m + 1 BY <1>1, <1>3
  <2> QED BY <2>1, <2>2, <2>3
<1>9. /\ \A i \in 1..m : (i < n => list'[i] = list[i]) /\ (i >= n => list'[i + 1] = list[i])
      /\ list'[n] = p
  <2>1. \A i \in 1..n : list'[i] = c[i] BY <1>1, <1>3, <1>7, <1>8
  <2>2. ASSUME NEW i \in 1..m, i < n PROVE list'[i] = list[i] BY <1>1, <1>3, <1>7, <2>1, <2>2
  <2>3. list'[n] = p BY <1>1, <1>3, <1>7, <2>1
  <2>4. ASSUME NEW i \in 1..m, i >= n PROVE list'[i + 1] = list[i]
    <3>1. (i + 1) - n \in 1..(m + 1 - n) /\ i + 1 > n BY <1>1, <1>3, <2>4
    <3>2. list'[i + 1] = b[(i + 1) - n]
      <4>0. Len(c) = n /\ Len(b) = m + 1 - n /\ n + (m + 1 - n) = m + 1 BY <1>1, <1>3, <1>6, <1>7
      <4>1. i + 1 \in 1..(Len(c) + Len(b)) /\ ~(i + 1 <= Len(c)) BY <1>1, <1>3, <2>4, <4>0
      <4>2. (c \o b)[i + 1] = b[(i + 1) - Len(c)] BY <4>1
      <4> QED BY <1>7, <1>8, <4>2
    <3>3. b[(i + 1) - n] = list[n - 1 + ((i + 1) - n)] BY <1>6, <3>1
    <3>4. n - 1 + ((i + 1) - n) = i BY <1>1, <1>3
    <3> QED BY <3>2, <3>3, <3>4
  <2> QED BY <2>2, <2>3, <2>4
\* A position of list' is one of list, before or after p, or that of p.
<1>14. ASSUME NEW i \in 1..(m + 1)
       PROVE  \/ i \in 1..m /\ i < n /\ list'[i] = list[i]
              \/ i = n /\ list'[i] = p
              \/ i > n /\ i - 1 \in 1..m /\ i - 1 >= n /\ list'[i] = list[i - 1]
  <2>1. CASE i < n BY <1>1, <1>3, <1>9, <2>1
  <2>2. CASE i = n BY <1>9, <2>2
  <2>3. CASE i > n
    <3>1. i - 1 \in 1..m /\ i - 1 >= n /\ (i - 1) + 1 = i BY <1>1, <1>3, <2>3
    <3>2. list'[i] = list[i - 1] BY <1>9, <3>1
    <3> QED BY <2>3, <3>1, <3>2
  <2> QED BY <1>1, <1>3, <2>1, <2>2, <2>3
<1>10. \A i \in 1..m : list[i] # p BY <1>2 DEF Elements
<1>15. \A i, j \in 1..m : i # j => list[i] # list[j] BY <1>2 DEF Once
<1>11. Once(list')
  <2> SUFFICES ASSUME NEW i \in 1..(m + 1), NEW j \in 1..(m + 1), i < j
               PROVE  list'[i] # list'[j]
    <3>1. \A i, j \in DOMAIN list' : i # j => i < j \/ j < i BY <1>8
    <3> QED BY <1>8, <3>1 DEF Once
  <2>1. CASE i < n BY <1>1, <1>3, <1>10, <1>14, <1>15, <2>1
  <2>2. CASE i = n
    <3>1. list'[i] = p /\ j - 1 \in 1..m /\ list'[j] = list[j - 1] BY <1>1, <1>3, <1>14, <2>2
    <3> QED BY <1>10, <3>1
  <2>3. CASE i > n
    <3>1. /\ i - 1 \in 1..m /\ j - 1 \in 1..m /\ i - 1 # j - 1
          /\ list'[i] = list[i - 1] /\ list'[j] = list[j - 1]
      BY <1>1, <1>3, <1>14, <2>3
    <3> QED BY <1>15, <3>1
  <2> QED BY <1>1, <1>3, <2>1, <2>2, <2>3
<1>12. Ascending(list')
  <2>0. \A i \in 1..m : Order[list[i]] \in Int /\ Order[p] \in Int BY <1>2, ResourceAssumption
  <2>1. \A i, j \in 1..m : i < j => Order[list[i]] <= Order[list[j]] BY <1>2 DEF Ascending
  <2>2. \A i \in 1..m : i >= n => Order[p] <= Order[list[i]]
    <3> SUFFICES ASSUME NEW i \in 1..m, i >= n PROVE Order[p] <= Order[list[i]] OBVIOUS
    <3>1. n \in 1..m /\ Order[list[n]] > Order[p] BY <1>1, <1>3
    <3>2. Order[list[n]] <= Order[list[i]] BY <1>1, <1>3, <2>0, <2>1, <3>1
    <3> QED BY <2>0, <3>1, <3>2
  <2> SUFFICES ASSUME NEW i \in 1..(m + 1), NEW j \in 1..(m + 1), i < j
               PROVE  Order[list'[i]] <= Order[list'[j]]
    BY <1>8 DEF Ascending
  <2>3. i \in Int /\ j \in Int /\ n \in Int BY <1>1, <1>3
  <2>4. CASE j < n
    <3>1. list'[i] = list[i] /\ list'[j] = list[j] /\ i \in 1..m /\ j \in 1..m
      BY <1>14, <2>3, <2>4
    <3> QED BY <2>1, <3>1
  <2>5. CASE i < n /\ j = n
    <3>1. list'[i] = list[i] /\ list'[j] = p /\ i \in 1..m BY <1>14, <2>3, <2>5
    <3> QED BY <1>3, <2>5, <3>1
  <2>6. CASE i < n /\ j > n
    <3>1. list'[i] = list[i] /\ list'[j] = list[j - 1] /\ i \in 1..m /\ j - 1 \in 1..m
      BY <1>14, <2>3, <2>6
    <3>2. i < j - 1 BY <2>3, <2>6
    <3> QED BY <2>1, <3>1, <3>2
  <2>7. CASE i = n
    <3>1. list'[i] = p /\ list'[j] = list[j - 1] /\ j - 1 \in 1..m /\ j - 1 >= n
      BY <1>14, <2>3, <2>7
    <3> QED BY <2>2, <3>1
  <2>8. CASE i > n
    <3>1. /\ list'[i] = list[i - 1] /\ list'[j] = list[j - 1]
          /\ i - 1 \in 1..m /\ j - 1 \in 1..m
      BY <1>14, <2>3, <2>8
    <3>2. i - 1 < j - 1 BY <2>3
    <3> QED BY <2>1, <3>1, <3>2
  <2> QED BY <2>3, <2>4, <2>5, <2>6, <2>7, <2>8
<1>13. Elements(list') = Elements(list) \cup {p}
  <2>1. \A i \in DOMAIN list' : list'[i] = p \/ \E k \in DOMAIN list : list'[i] = list[k]
    BY <1>2, <1>8, <1>14
  <2>2. \A k \in DOMAIN list : \E i \in DOMAIN list' : list'[i] = list[k]
    <3> SUFFICES ASSUME NEW k \in 1..m PROVE \E i \in 1..(m + 1) : list'[i] = list[k]
      BY <1>2, <1>8
    <3>1. k \in 1..(m + 1) /\ k + 1 \in 1..(m + 1) BY <1>1
    <3>2. list'[k] = list[k] \/ list'[k + 1] = list[k] BY <1>1, <1>3, <1>9
    <3> QED BY <3>1, <3>2
  <2>3. \E i \in DOMAIN list' : list'[i] = p
    <3>1. n \in DOMAIN list' /\ list'[n] = p BY <1>3, <1>8, <1>9
    <3> QED BY <3>1
  <2> QED BY <2>1, <2>2, <2>3 DEF Elements
<1> QED BY <1>8, <1>11, <1>12, <1>13

-----------------------------------------------------------------------------
(***************************************************************************)
(* The invariant: what each list and queue holds, and how they agree.      *)
(***************************************************************************)
\* A FILE task that opens a file has a request.
OpensForRequest ==
  \A i \in DOMAIN fileTasks : fileTasks[i].type = "open" => fileTasks[i].request \in Requests

\* The list holds each provider once, in ascending order, and those that are to be added later
\* are others, each posted once.
Adding == {i \in DOMAIN ioTasks : ioTasks[i].type = "add"}
ListSorted ==
  /\ Once(list) /\ Ascending(list)
  /\ Elements(list) \subseteq added
  /\ \A i \in Adding : ioTasks[i].provider \in added \ Elements(list)
  /\ \A i, j \in Adding : i # j => ioTasks[i].provider # ioTasks[j].provider

\* Only a living manager removes, and the loop is at a position of the list or past its end; no
\* call reaches a manager whose destructor runs, and nobody is asked meanwhile.
RemovingAlive ==
  /\ removing = NotRemoving \/ (removing.at > 0 /\ manager = "alive")
  /\ manager = "destroyed" \/ removing.last =>
       /\ asking = NotAsking
       /\ \A i \in DOMAIN ioTasks : ioTasks[i].type \notin {"add", "remove"}

\* A provider's pending list holds each request once, and those that are at that provider.
Unfinished == {"request", "task"}
WaitingAt ==
  /\ \A p \in Providers : Once(waiting[p])
  /\ \A p \in Providers : \A r \in Elements(waiting[p]) : entry[r] = p /\ owner[r] \in Unfinished
  /\ \A r \in Requests : owner[r] = "yet" => entry[r] = NoProvider
  /\ manager = "destroyed" => \A p \in Providers : Elements(waiting[p]) = {}

\* Each request whose state is in a task has one continuation queued, and no other has any.
Continuing(q) == {i \in DOMAIN q : q[i].type = "continuation"}
QueuedFor(q, own) ==
  /\ \A i \in Continuing(q) : own[q[i].request] = "task"
  /\ \A i, j \in Continuing(q) : i # j => q[i].request # q[j].request
  /\ \A r \in Requests : own[r] = "task" => \E i \in Continuing(q) : q[i].request = r
ContinuedOnce == \A r \in Requests : continued[r] <= IF owner[r] = "gone" THEN 1 ELSE 0

\* A provider that is being deleted waits for requests, all of them on their way.
DeletingFor ==
  \A p \in deleting :
    /\ p \in Elements(list) /\ Elements(waiting[p]) # {}
    /\ \A r \in Elements(waiting[p]) : owner[r] = "task"

ResourceInv ==
  /\ TypeOK /\ OpensForRequest
  /\ ListSorted /\ RemovingAlive /\ WaitingAt /\ EntryAlive /\ DeletingFor
  /\ QueuedFor(ioTasks, owner) /\ ContinuedOnce


-----------------------------------------------------------------------------
(***************************************************************************)
(* Queues.                                                                 *)
(***************************************************************************)
\* Where the members of a queue are after one is appended, ...
LEMMA AppendAt ==
  ASSUME NEW T, NEW q \in Seq(T), NEW x \in T
  PROVE  \E n \in Nat :
           /\ DOMAIN Append(q, x) = DOMAIN q \cup {n} /\ n \notin DOMAIN q
           /\ Append(q, x)[n] = x /\ \A i \in DOMAIN q : Append(q, x)[i] = q[i]
<1>1. PICK n \in Nat : n = Len(q) + 1 OBVIOUS
<1> QED BY <1>1

\* ... or the first is taken, ...
LEMMA TailAt ==
  ASSUME NEW T, NEW q \in Seq(T), q # <<>>
  PROVE  /\ Head(q) = q[1] /\ 1 \in DOMAIN q /\ Head(q) \in T /\ Tail(q) \in Seq(T)
         /\ \A i \in DOMAIN Tail(q) : i + 1 \in DOMAIN q /\ i + 1 # 1 /\ Tail(q)[i] = q[i + 1]
         /\ \A i, j \in DOMAIN Tail(q) : i # j => i + 1 # j + 1
         /\ \A k \in DOMAIN q : k # 1 => \E i \in DOMAIN Tail(q) : k = i + 1
<1>1. PICK n \in Nat : n = Len(q) OBVIOUS
<1>2. DOMAIN q = 1..n /\ n > 0 BY <1>1
<1>3. Tail(q) \in Seq(T) /\ DOMAIN Tail(q) = 1..(n - 1) /\ \A i \in 1..(n - 1) : Tail(q)[i] = q[i + 1]
  BY <1>1, <1>2
<1>4. Head(q) = q[1] /\ Head(q) \in T BY <1>2
<1>5. \A k \in 1..n : k # 1 => k - 1 \in 1..(n - 1) /\ k = (k - 1) + 1 BY <1>1
<1>6. \A i \in 1..(n - 1) : i + 1 \in 1..n /\ i + 1 # 1 BY <1>1
<1>7. \A i, j \in 1..(n - 1) : i # j => i + 1 # j + 1 OBVIOUS
<1>8. \A k \in DOMAIN q : k # 1 => \E i \in DOMAIN Tail(q) : k = i + 1
  <2> SUFFICES ASSUME NEW k \in 1..n, k # 1 PROVE \E i \in 1..(n - 1) : k = i + 1 BY <1>2, <1>3
  <2> QED BY <1>5
<1>9. \A i \in DOMAIN Tail(q) : i + 1 \in DOMAIN q /\ i + 1 # 1 /\ Tail(q)[i] = q[i + 1]
  BY <1>2, <1>3, <1>6
<1>10. 1 \in DOMAIN q BY <1>2
<1> QED BY <1>3, <1>4, <1>7, <1>8, <1>9, <1>10

\* ... or t follows, n places further.
Joined(w, q, t, n) ==
  /\ \A i \in DOMAIN q : i \in DOMAIN w /\ w[i] = q[i] /\ i <= n
  /\ \A j \in DOMAIN t : n + j \in DOMAIN w /\ w[n + j] = t[j] /\ n + j > n
  /\ \A k \in DOMAIN w : k \in DOMAIN q \/ \E j \in DOMAIN t : k = n + j
\* A queue and what follows it, joined.
LEMMA ConcatAt ==
  ASSUME NEW T, NEW q \in Seq(T), NEW t \in Seq(T)
  PROVE  q \o t \in Seq(T) /\ \E n \in Nat : Joined(q \o t, q, t, n)
<1>1. PICK n \in Nat, m \in Nat : n = Len(q) /\ m = Len(t) OBVIOUS
<1>2. DOMAIN q = 1..n /\ DOMAIN t = 1..m /\ DOMAIN (q \o t) = 1..(n + m) /\ q \o t \in Seq(T)
  BY <1>1
<1>3. \A i \in 1..n : i \in 1..(n + m) /\ (q \o t)[i] = q[i] /\ i <= n BY <1>1
<1>4. \A j \in 1..m : n + j \in 1..(n + m) /\ (q \o t)[n + j] = t[j] /\ n + j > n
  <2> SUFFICES ASSUME NEW j \in 1..m
               PROVE  n + j \in 1..(n + m) /\ (q \o t)[n + j] = t[j] /\ n + j > n
    OBVIOUS
  <2>1. n + j \in 1..(Len(q) + Len(t)) /\ n + j > n BY <1>1
  <2>2. (q \o t)[n + j] = t[(n + j) - Len(q)] BY <1>1, <2>1
  <2>3. (n + j) - Len(q) = j BY <1>1
  <2> QED BY <1>1, <2>1, <2>2, <2>3
<1>5. \A k \in 1..(n + m) : k \in 1..n \/ (k - n \in 1..m /\ k = n + (k - n)) BY <1>1
<1>6. Joined(q \o t, q, t, n) BY <1>2, <1>3, <1>4, <1>5 DEF Joined
<1> QED BY <1>2, <1>6

\* The continuations queued are right after a task of another kind was posted, ...
LEMMA QueuedAppend ==
  ASSUME NEW T, NEW q \in Seq(T), NEW x \in T, x.type # "continuation", NEW own, QueuedFor(q, own)
  PROVE  QueuedFor(Append(q, x), own)
<1>1. PICK n \in Nat : /\ DOMAIN Append(q, x) = DOMAIN q \cup {n} /\ n \notin DOMAIN q
                       /\ Append(q, x)[n] = x /\ \A i \in DOMAIN q : Append(q, x)[i] = q[i]
  BY AppendAt
<1> DEFINE w == Append(q, x)
<1> HIDE DEF w
<1>2. Continuing(w) = Continuing(q) /\ \A i \in Continuing(q) : w[i] = q[i]
  BY <1>1 DEF Continuing, w
<1>3. QueuedFor(w, own) BY <1>2 DEF QueuedFor
<1> QED BY <1>3 DEF w

\* ... or the first of another kind was taken, ...
LEMMA QueuedTail ==
  ASSUME NEW T, NEW q \in Seq(T), q # <<>>, Head(q).type # "continuation", NEW own,
         QueuedFor(q, own)
  PROVE  QueuedFor(Tail(q), own)
<1> DEFINE w == Tail(q)
<1>1. /\ Head(q) = q[1]
      /\ \A i \in DOMAIN w : i + 1 \in DOMAIN q /\ i + 1 # 1 /\ w[i] = q[i + 1]
      /\ \A i, j \in DOMAIN w : i # j => i + 1 # j + 1
      /\ \A k \in DOMAIN q : k # 1 => \E i \in DOMAIN w : k = i + 1
  BY TailAt
<1> HIDE DEF w
<1>2. \A i \in Continuing(w) : i + 1 \in Continuing(q) /\ w[i] = q[i + 1] BY <1>1 DEF Continuing
<1>3. \A k \in Continuing(q) : \E i \in Continuing(w) : w[i] = q[k] BY <1>1 DEF Continuing
<1>4. \A i, j \in Continuing(w) : i # j => i + 1 # j + 1 BY <1>1 DEF Continuing
<1>5. QueuedFor(w, own) BY <1>2, <1>3, <1>4 DEF QueuedFor
<1> QED BY <1>5 DEF w

\* ... a request whose state is not in a task changed hands, ...
LEMMA QueuedOther ==
  ASSUME NEW q, NEW own \in [Requests -> {"yet", "request", "task", "gone"}], QueuedFor(q, own),
         NEW r \in Requests, own[r] # "task", NEW s, s # "task",
         \A i \in Continuing(q) : q[i].request \in Requests
  PROVE  QueuedFor(q, [own EXCEPT ![r] = s])
BY DEF QueuedFor

\* ... the first continuation ran, ...
LEMMA QueuedRun ==
  ASSUME NEW T, NEW q \in Seq(T), q # <<>>, Head(q).type = "continuation",
         NEW own \in [Requests -> {"yet", "request", "task", "gone"}], QueuedFor(q, own),
         \A i \in Continuing(q) : q[i].request \in Requests, NEW s, s # "task"
  PROVE  /\ own[Head(q).request] = "task"
         /\ QueuedFor(Tail(q), [own EXCEPT ![Head(q).request] = s])
<1> DEFINE w == Tail(q)
           r == Head(q).request
<1>1. /\ Head(q) = q[1] /\ 1 \in DOMAIN q
      /\ \A i \in DOMAIN w : i + 1 \in DOMAIN q /\ i + 1 # 1 /\ w[i] = q[i + 1]
      /\ \A i, j \in DOMAIN w : i # j => i + 1 # j + 1
      /\ \A k \in DOMAIN q : k # 1 => \E i \in DOMAIN w : k = i + 1
  BY TailAt
<1> HIDE DEF w
<1>2. 1 \in Continuing(q) /\ r = q[1].request BY <1>1 DEF Continuing
<1>3. own[r] = "task" /\ r \in Requests BY <1>2 DEF QueuedFor
<1> HIDE DEF r
<1>4. \A i \in Continuing(w) : i + 1 \in Continuing(q) /\ i + 1 # 1 /\ w[i] = q[i + 1]
  BY <1>1 DEF Continuing
<1>5. \A k \in Continuing(q) : k # 1 => \E i \in Continuing(w) : w[i] = q[k]
  BY <1>1 DEF Continuing
<1>6. \A i, j \in Continuing(w) : i # j => i + 1 # j + 1 BY <1>1 DEF Continuing
<1>7. \A i \in Continuing(w) : w[i].request # r BY <1>2, <1>4 DEF QueuedFor
<1>8. PICK own2 : own2 = [own EXCEPT ![r] = s] OBVIOUS
<1>9. own2[r] = s /\ \A x \in Requests : x # r => own2[x] = own[x] BY <1>3, <1>8
<1>10. \A i \in Continuing(w) : own2[w[i].request] = "task"
  BY <1>4, <1>7, <1>9 DEF QueuedFor
<1>11. \A i, j \in Continuing(w) : i # j => w[i].request # w[j].request
  BY <1>4, <1>6 DEF QueuedFor
<1>12. ASSUME NEW x \in Requests, own2[x] = "task" PROVE \E i \in Continuing(w) : w[i].request = x
  <2>1. x # r /\ own[x] = "task" BY <1>9, <1>12
  <2>2. PICK k \in Continuing(q) : q[k].request = x BY <2>1 DEF QueuedFor
  <2>3. k # 1 BY <1>2, <2>1, <2>2
  <2> QED BY <1>5, <2>2, <2>3
<1>13. QueuedFor(w, own2) BY <1>10, <1>11, <1>12 DEF QueuedFor
<1> QED BY <1>3, <1>8, <1>13 DEF w, r

\* The continuations of the requests in rs.
Given(rs, answer) ==
  [i \in DOMAIN rs |-> [type |-> "continuation", request |-> rs[i], answer |-> answer]]

\* ... or the states of some Requests were given to continuations.
LEMMA QueuedGiven ==
  ASSUME NEW T, NEW q \in Seq(T), NEW own \in [Requests -> {"yet", "request", "task", "gone"}],
         QueuedFor(q, own), \A i \in Continuing(q) : q[i].request \in Requests,
         NEW rs \in Seq(Requests), Once(rs), \A r \in Elements(rs) : own[r] = "request",
         NEW answer,
         NEW t \in Seq(T), t = Given(rs, answer)
  PROVE  QueuedFor(q \o t, [r \in Requests |-> IF r \in Elements(rs) THEN "task" ELSE own[r]])
<1> DEFINE w == q \o t
<1>1. PICK n \in Nat : Joined(w, q, t, n) BY ConcatAt
<1> HIDE DEF w
<1>2. /\ DOMAIN t = DOMAIN rs
      /\ \A j \in DOMAIN t : t[j].type = "continuation" /\ t[j].request = rs[j]
      /\ \A j \in DOMAIN rs : rs[j] \in Requests /\ rs[j] \in Elements(rs)
  BY DEF Elements, Given
<1>3. PICK own2 : own2 = [r \in Requests |-> IF r \in Elements(rs) THEN "task" ELSE own[r]] OBVIOUS
<1>4. \A k \in Continuing(w) : \/ k \in Continuing(q) /\ w[k] = q[k]
                               \/ \E j \in DOMAIN rs : k = n + j /\ w[k].request = rs[j]
  <2> TAKE k \in Continuing(w)
  <2>1. k \in DOMAIN w /\ w[k].type = "continuation" BY DEF Continuing
  <2>2. CASE k \in DOMAIN q /\ w[k] = q[k] BY <2>1, <2>2 DEF Continuing
  <2>3. ASSUME NEW j \in DOMAIN t, k = n + j, w[k] = t[j] PROVE j \in DOMAIN rs /\ w[k].request = rs[j]
    BY <1>2, <2>3
  <2> QED BY <1>1, <2>1, <2>2, <2>3 DEF Joined
<1>5. /\ \A k \in Continuing(q) : k \in Continuing(w) /\ w[k] = q[k]
      /\ \A j \in DOMAIN rs : n + j \in Continuing(w) /\ w[n + j].request = rs[j]
  BY <1>1, <1>2 DEF Continuing, Joined
<1>6. \A k \in Continuing(q) : q[k].request \in Requests /\ q[k].request \notin Elements(rs)
  BY DEF QueuedFor
<1>7. \A k \in Continuing(w) : own2[w[k].request] = "task"
  BY <1>2, <1>3, <1>4, <1>6 DEF QueuedFor
<1>8. ASSUME NEW k \in Continuing(w), NEW l \in Continuing(w), k # l
      PROVE  w[k].request # w[l].request
  <2>1. CASE k \in Continuing(q) /\ w[k] = q[k] /\ l \in Continuing(q) /\ w[l] = q[l]
    BY <1>8, <2>1 DEF QueuedFor
  <2>2. ASSUME NEW i \in DOMAIN rs, NEW j \in DOMAIN rs, k = n + i, l = n + j,
               w[k].request = rs[i], w[l].request = rs[j]
        PROVE  w[k].request # w[l].request
    BY <1>8, <2>2 DEF Once
  <2> QED BY <1>2, <1>4, <1>6, <2>1, <2>2
<1>9. ASSUME NEW r \in Requests, own2[r] = "task" PROVE \E k \in Continuing(w) : w[k].request = r
  <2>1. CASE r \in Elements(rs)
    <3>1. PICK j \in DOMAIN rs : rs[j] = r BY <2>1 DEF Elements
    <3> QED BY <1>5, <3>1
  <2>2. CASE r \notin Elements(rs)
    <3>1. own[r] = "task" BY <1>3, <1>9, <2>2
    <3>2. PICK k \in Continuing(q) : q[k].request = r BY <3>1 DEF QueuedFor
    <3> QED BY <1>5, <3>2
  <2> QED BY <2>1, <2>2
<1>10. QueuedFor(w, own2) BY <1>7, <1>8, <1>9 DEF QueuedFor
<1> QED BY <1>3, <1>10 DEF w

-----------------------------------------------------------------------------
(***************************************************************************)
(* A request moves on.                                                     *)
(***************************************************************************)
\* The provider asked next is in the list, is not being deleted, and comes later in it.
LEMMA NextValidFacts ==
  ASSUME list \in Seq(Providers), NEW i \in Nat
  PROVE  \/ NextValid(i) = NoProvider
         \/ \E j \in DOMAIN list : j >= i /\ NextValid(i) = list[j] /\ list[j] \notin deleting
<1>1. CASE Valid(i) = {} BY <1>1 DEF NextValid
<1>2. CASE Valid(i) # {}
  <2>1. Valid(i) \in SUBSET Nat BY DEF Valid
  <2>2. \E j \in Valid(i) : \A k \in Valid(i) : j <= k BY <1>2, <2>1, FirstPosition
  <2>3. (CHOOSE j \in Valid(i) : \A k \in Valid(i) : j <= k) \in Valid(i) BY <2>2
  <2>4. \E j \in Valid(i) : NextValid(i) = list[j] BY <1>2, <2>3 DEF NextValid
  <2> QED BY <2>4 DEF Valid
<1> QED BY <1>1, <1>2

\* ... than the provider that did not answer.
LEMMA FollowingFacts ==
  ASSUME ResourceAssumption, list \in Seq(Providers), Once(list), Ascending(list),
         NEW p \in Elements(list)
  PROVE  \/ Following(p) = NoProvider
         \/ /\ Following(p) \in Elements(list) \ deleting /\ Following(p) \in Providers
            /\ Following(p) # p /\ Order[p] <= Order[Following(p)]
<1>1. PICK n \in DOMAIN list : n = (CHOOSE i \in DOMAIN list : list[i] = p) /\ list[n] = p
  BY DEF Elements
<1>2. Following(p) = NextValid(n + 1) BY <1>1 DEF Following
<1>3. n + 1 \in Nat BY <1>1
<1>4. CASE \E j \in DOMAIN list : j >= n + 1 /\ NextValid(n + 1) = list[j] /\ list[j] \notin deleting
  <2>1. PICK j \in DOMAIN list : /\ j >= n + 1 /\ NextValid(n + 1) = list[j]
                                 /\ list[j] \notin deleting
    BY <1>4
  <2>0. DOMAIN list \subseteq Nat OBVIOUS
  <2>2. n < j /\ n # j
    <3>1. n \in Nat /\ j \in Nat BY <1>1, <2>0, <2>1
    <3>2. j >= n + 1 BY <2>1
    <3> QED BY <3>1, <3>2
  <2>3. list[j] # p /\ Order[p] <= Order[list[j]] BY <1>1, <2>1, <2>2 DEF Once, Ascending
  <2>4. list[j] \in Elements(list) /\ list[j] \in Providers BY <2>1 DEF Elements
  <2> QED BY <1>2, <2>1, <2>3, <2>4
<1> QED BY <1>2, <1>3, <1>4, NextValidFacts

\* What it is for r to leave its provider for q, or to end when q is NoProvider: a provider whose
\* deletion is pending is deleted when its last request leaves.
Moved(r, q) ==
  /\ owner' = [owner EXCEPT ![r] = IF q = NoProvider THEN "gone" ELSE "request"]
  /\ entry' = [entry EXCEPT ![r] = q]
  /\ continued' = IF q = NoProvider THEN [continued EXCEPT ![r] = @ + 1] ELSE continued
  /\ asked' \subseteq Requests \X Providers
  /\ asking' = IF q = NoProvider THEN NotAsking ELSE [request |-> r, provider |-> q]
  /\ waiting' \in [Providers -> Seq(Requests)]
  /\ \A p \in Providers : /\ Once(waiting'[p])
                          /\ Elements(waiting'[p]) = (Elements(waiting[p]) \ {r})
                                                       \cup {x \in {r} : p = q}
  /\ list' \in Seq(Providers) /\ Once(list') /\ Ascending(list')
  /\ deleting' \subseteq deleting
  /\ \/ /\ Elements(list') = Elements(list) /\ deleting' = deleting
        /\ entry[r] \in deleting => Elements(waiting[entry[r]]) # {r}
     \/ /\ entry[r] \in deleting /\ Elements(waiting[entry[r]]) = {r}
        /\ Elements(list') = Elements(list) \ {entry[r]} /\ deleting' = deleting \ {entry[r]}
  /\ q # NoProvider =>
       /\ q \in Providers /\ q \in Elements(list) \ deleting /\ q # entry[r]
       /\ entry[r] # NoProvider => Order[entry[r]] <= Order[q]

\* An element appended to a list it is not in.
LEMMA AppendOnce ==
  ASSUME NEW S, NEW s \in Seq(S), Once(s), NEW x \in S, x \notin Elements(s)
  PROVE  /\ Append(s, x) \in Seq(S) /\ Once(Append(s, x))
         /\ Elements(Append(s, x)) = Elements(s) \cup {x}
<1>1. PICK n \in Nat : /\ DOMAIN Append(s, x) = DOMAIN s \cup {n} /\ n \notin DOMAIN s
                       /\ Append(s, x)[n] = x /\ \A i \in DOMAIN s : Append(s, x)[i] = s[i]
  BY AppendAt
<1>2. PICK w : w = Append(s, x) OBVIOUS
<1>3. Elements(w) = Elements(s) \cup {x} BY <1>1, <1>2 DEF Elements
<1>4. Once(w) BY <1>1, <1>2 DEF Once, Elements
<1>5. w \in Seq(S) BY <1>2
<1> QED BY <1>2, <1>3, <1>4, <1>5

\* Only <<r>> holds r once and nothing else.
LEMMA LastOne ==
  ASSUME NEW S, NEW s \in Seq(S), Once(s), NEW r
  PROVE  s = <<r>> <=> Elements(s) = {r}
<1>1. ASSUME s = <<r>> PROVE Elements(s) = {r} BY <1>1 DEF Elements
<1>2. ASSUME Elements(s) = {r} PROVE s = <<r>>
  <2>1. PICK n \in Nat : n = Len(s) OBVIOUS
  <2>2. DOMAIN s = 1..n /\ \A i \in 1..n : s[i] = r
    <3>1. \A i \in DOMAIN s : s[i] \in Elements(s) BY DEF Elements
    <3> QED BY <1>2, <2>1, <3>1
  <2>3. n # 0
    <3> SUFFICES ASSUME n = 0 PROVE FALSE OBVIOUS
    <3>1. DOMAIN s = {} BY <2>2
    <3> QED BY <1>2, <3>1 DEF Elements
  <2>4. ~(n >= 2)
    <3> SUFFICES ASSUME n >= 2 PROVE FALSE OBVIOUS
    <3>1. 1 \in DOMAIN s /\ 2 \in DOMAIN s BY <2>1, <2>2
    <3>2. s[1] = r /\ s[2] = r BY <2>2, <3>1
    <3> QED BY <3>1, <3>2 DEF Once
  <2>5. n = 1 BY <2>1, <2>3, <2>4
  <2>6. Len(s) = 1 /\ s[1] = r BY <2>1, <2>2, <2>5
  <2> QED BY <2>6
<1> QED BY <1>1, <1>2

\* Leaving a provider: the request's own provider is in the list, and others stay there.
LEMMA DetachFacts ==
  ASSUME TypeOK, ListSorted, WaitingAt, EntryAlive, DeletingFor,
         manager = "alive", NEW r \in Requests, owner[r] \in Unfinished
  PROVE  /\ entry[r] \in Elements(list) /\ entry[r] \in Providers
         /\ Detached(r) \in [Providers -> Seq(Requests)]
         /\ \A p \in Providers : /\ Once(Detached(r)[p])
                                 /\ Elements(Detached(r)[p]) = Elements(waiting[p]) \ {r}
         /\ Detach(r) =>
              /\ list' \in Seq(Providers) /\ Once(list') /\ Ascending(list')
              /\ \/ /\ Elements(list') = Elements(list) /\ deleting' = deleting
                    /\ entry[r] \in deleting => Elements(waiting[entry[r]]) # {r}
                 \/ /\ entry[r] \in deleting /\ Elements(waiting[entry[r]]) = {r}
                    /\ Elements(list') = Elements(list) \ {entry[r]}
                    /\ deleting' = deleting \ {entry[r]}
<1>1. PICK p : p = entry[r] OBVIOUS
<1>2. p \in Elements(list) /\ r \in Elements(waiting[p]) BY <1>1 DEF EntryAlive, Unfinished
<1>3. p \in Providers /\ list \in Seq(Providers) /\ Once(list) /\ Ascending(list)
  BY <1>2 DEF Elements, TypeOK, ListSorted
<1>4. waiting[p] \in Seq(Requests) /\ Once(waiting[p]) BY <1>3 DEF TypeOK, WaitingAt
<1>5. PICK w : w = Erase(waiting[p], r) OBVIOUS
<1>6. w \in Seq(Requests) /\ Once(w) /\ Elements(w) = Elements(waiting[p]) \ {r}
  BY <1>2, <1>4, <1>5, EraseFacts
<1>7. Detached(r) = [waiting EXCEPT ![p] = w] BY <1>1, <1>5 DEF Detached
<1>8. Detached(r)[p] = w /\ \A x \in Providers \ {p} : Detached(r)[x] = waiting[x]
  BY <1>3, <1>7 DEF TypeOK
<1>9. Detached(r) \in [Providers -> Seq(Requests)] BY <1>3, <1>6, <1>7 DEF TypeOK
<1>10. ASSUME NEW x \in Providers
       PROVE  Once(Detached(r)[x]) /\ Elements(Detached(r)[x]) = Elements(waiting[x]) \ {r}
  <2>1. CASE x = p BY <1>6, <1>8, <2>1
  <2>2. CASE x # p
    <3>1. r \notin Elements(waiting[x]) BY <1>1, <2>2 DEF WaitingAt
    <3> QED BY <1>8, <2>2, <3>1 DEF WaitingAt
  <2> QED BY <2>1, <2>2
<1>11. ASSUME Detach(r)
       PROVE  /\ list' \in Seq(Providers) /\ Once(list') /\ Ascending(list')
              /\ \/ /\ Elements(list') = Elements(list) /\ deleting' = deleting
                    /\ p \in deleting => Elements(waiting[p]) # {r}
                 \/ /\ p \in deleting /\ Elements(waiting[p]) = {r}
                    /\ Elements(list') = Elements(list) \ {p}
                    /\ deleting' = deleting \ {p}
  <2>1. waiting[p] = <<r>> <=> Elements(waiting[p]) = {r} BY <1>4, LastOne
  <2>2. CASE LeavesEmpty(r)
    <3>1. list' = Erase(list, p) /\ deleting' = deleting \ {p} BY <1>1, <1>11, <2>2 DEF Detach
    <3>2. p \in deleting /\ Elements(waiting[p]) = {r} BY <1>1, <2>1, <2>2 DEF LeavesEmpty
    <3> QED BY <1>2, <1>3, <3>1, <3>2, EraseFacts
  <2>3. CASE ~LeavesEmpty(r)
    <3>1. list' = list /\ deleting' = deleting BY <1>11, <2>3 DEF Detach
    <3>2. p \in deleting => Elements(waiting[p]) # {r} BY <1>1, <2>1, <2>3 DEF LeavesEmpty
    <3> QED BY <1>3, <3>1, <3>2
  <2> QED BY <2>2, <2>3
<1> QED BY <1>1, <1>2, <1>3, <1>9, <1>10, <1>11

\* MoveOn and StopRequest, for a request at a provider, are such a move; ...
LEMMA MoveOnMoves ==
  ASSUME TypeOK, ListSorted, WaitingAt, EntryAlive, DeletingFor,
         manager = "alive", NEW r \in Requests, owner[r] \in Unfinished,
         MoveOn(r) \/ StopRequest(r)
  PROVE  \E q : Moved(r, q)
<1>1. PICK p : p = entry[r] OBVIOUS
<1>2. /\ p \in Elements(list) /\ p \in Providers
      /\ Detached(r) \in [Providers -> Seq(Requests)]
      /\ \A x \in Providers : /\ Once(Detached(r)[x])
                              /\ Elements(Detached(r)[x]) = Elements(waiting[x]) \ {r}
  BY <1>1, DetachFacts
<1>3. PICK lists : lists = Detached(r) OBVIOUS
<1>4. Detach(r) =>
        /\ list' \in Seq(Providers) /\ Once(list') /\ Ascending(list')
        /\ deleting' \subseteq deleting
        /\ \/ /\ Elements(list') = Elements(list) /\ deleting' = deleting
              /\ entry[r] \in deleting => Elements(waiting[entry[r]]) # {r}
           \/ /\ entry[r] \in deleting /\ Elements(waiting[entry[r]]) = {r}
              /\ Elements(list') = Elements(list) \ {entry[r]} /\ deleting' = deleting \ {entry[r]}
  BY DetachFacts
<1>5. ASSUME StopRequest(r) PROVE Moved(r, NoProvider)
  <2>1. /\ Detach(r) /\ waiting' = lists /\ asking' = NotAsking
        /\ owner' = [owner EXCEPT ![r] = "gone"]
        /\ continued' = [continued EXCEPT ![r] = @ + 1]
        /\ entry' = [entry EXCEPT ![r] = NoProvider]
        /\ asked' = asked
    BY <1>3, <1>5 DEF StopRequest, Finish
  <2>2. \A x \in Providers : {y \in {r} : x = NoProvider} = {} BY ResourceAssumption
  <2>3. asked' \subseteq Requests \X Providers BY <2>1 DEF TypeOK
  <2> QED BY <1>2, <1>3, <1>4, <2>1, <2>2, <2>3 DEF Moved
<1>6. ASSUME MoveOn(r), Following(p) # NoProvider PROVE Moved(r, Following(p))
  <2>1. PICK q : q = Following(p) OBVIOUS
  <2>2. Detach(r) /\ Offer(r, q, lists) BY <1>1, <1>3, <1>6, <2>1 DEF MoveOn
  <2>3. /\ q \in Elements(list) \ deleting /\ q \in Providers
        /\ q # p /\ Order[p] <= Order[q]
    BY <1>2, <1>6, <2>1, FollowingFacts, ResourceAssumption DEF TypeOK, ListSorted
  <2>4. PICK w : w = Append(lists[q], r) OBVIOUS
  <2>5. w \in Seq(Requests) /\ Once(w) /\ Elements(w) = Elements(lists[q]) \cup {r}
    <3>1. /\ lists[q] \in Seq(Requests) /\ Once(lists[q])
          /\ r \notin Elements(lists[q])
      BY <1>2, <1>3, <2>3
    <3> QED BY <2>4, <3>1, AppendOnce
  <2>6. waiting' = [lists EXCEPT ![q] = w] BY <2>2, <2>4 DEF Offer
  <2>7. /\ waiting' \in [Providers -> Seq(Requests)]
        /\ \A x \in Providers : /\ Once(waiting'[x])
                                /\ Elements(waiting'[x]) = (Elements(waiting[x]) \ {r})
                                                             \cup {y \in {r} : x = q}
    BY <1>2, <1>3, <2>3, <2>5, <2>6
  <2>8. /\ owner' = [owner EXCEPT ![r] = "request"] /\ entry' = [entry EXCEPT ![r] = q]
        /\ asking' = [request |-> r, provider |-> q] /\ continued' = continued
        /\ asked' \subseteq Requests \X Providers
    BY <2>2, <2>3 DEF Offer, TypeOK
  <2>9. q # NoProvider BY <2>3, ResourceAssumption
  <2>10. Moved(r, q) BY <1>1, <1>4, <2>2, <2>3, <2>7, <2>8, <2>9 DEF Moved
  <2> QED BY <2>1, <2>10
<1>7. ASSUME MoveOn(r), Following(p) = NoProvider PROVE StopRequest(r) BY <1>1, <1>7 DEF MoveOn
<1> QED BY <1>5, <1>6, <1>7

\* ... so is the first offer of a request.
LEMMA FirstOfferMoves ==
  ASSUME TypeOK, ListSorted, WaitingAt, NEW r \in Requests, owner[r] = "yet",
         NextValid(1) # NoProvider, Offer(r, NextValid(1), waiting), UNCHANGED <<list, deleting>>
  PROVE  Moved(r, NextValid(1))
<1>1. PICK q : q = NextValid(1) OBVIOUS
<1>2. q \in Providers /\ q \in Elements(list) \ deleting /\ q # NoProvider
  <2>1. list \in Seq(Providers) /\ 1 \in Nat BY DEF TypeOK
  <2>2. PICK j \in DOMAIN list : q = list[j] /\ list[j] \notin deleting BY <1>1, <2>1, NextValidFacts
  <2> QED BY <1>1, <2>1, <2>2 DEF Elements
<1>3. entry[r] = NoProvider /\ \A x \in Providers : r \notin Elements(waiting[x])
  BY DEF WaitingAt, Unfinished
<1>4. PICK w : w = Append(waiting[q], r) OBVIOUS
<1>5. w \in Seq(Requests) /\ Once(w) /\ Elements(w) = Elements(waiting[q]) \cup {r}
  <2>1. waiting[q] \in Seq(Requests) /\ Once(waiting[q]) BY <1>2 DEF TypeOK, WaitingAt
  <2> QED BY <1>2, <1>3, <1>4, <2>1, AppendOnce
<1>6. waiting' = [waiting EXCEPT ![q] = w] BY <1>1, <1>4 DEF Offer
<1>7. /\ waiting' \in [Providers -> Seq(Requests)]
      /\ \A x \in Providers : /\ Once(waiting'[x])
                              /\ Elements(waiting'[x]) = (Elements(waiting[x]) \ {r})
                                                           \cup {y \in {r} : x = q}
  BY <1>2, <1>3, <1>5, <1>6 DEF TypeOK, WaitingAt
<1>8. /\ owner' = [owner EXCEPT ![r] = "request"] /\ entry' = [entry EXCEPT ![r] = q]
      /\ asking' = [request |-> r, provider |-> q] /\ continued' = continued
      /\ asked' \subseteq Requests \X Providers
  BY <1>1, <1>2 DEF Offer, TypeOK
<1>9. NoProvider \notin deleting BY ResourceAssumption DEF TypeOK
<1>10. /\ list' \in Seq(Providers) /\ Once(list') /\ Ascending(list')
       /\ Elements(list') = Elements(list)
  BY DEF TypeOK, ListSorted
<1>11. Moved(r, q) BY <1>2, <1>3, <1>7, <1>8, <1>9, <1>10 DEF Moved
<1> QED BY <1>1, <1>11

-----------------------------------------------------------------------------
(***************************************************************************)
(* What the steps do, whichever function takes them.                       *)
(***************************************************************************)
Task == Call \cup Continuation \cup Loaded \cup Add \cup Remove
core == <<manager, list, deleting, waiting, owner, entry, continued>>

\* What is left in w of the queue q, continuations apart, is as it was in q, d places further.
Others(q) == {i \in DOMAIN q : q[i].type # "continuation"}
Shifted(q, w, d) ==
  /\ \A i \in Others(w) : i + d \in Others(q) /\ w[i] = q[i + d]
  /\ \A i, j \in Others(w) : i # j => i + d # j + d
Shift == \E d \in {0, 1} : Shifted(ioTasks, ioTasks', d)

\* Nothing, or a task that moves no request is taken or posted.
Quiet ==
  /\ UNCHANGED <<core, added>>
  /\ \/ UNCHANGED ioTasks
     \/ /\ ioTasks # <<>> /\ Head(ioTasks).type # "continuation" /\ ioTasks' = Tail(ioTasks)
Posting(x) ==
  /\ x \in Call \cup Loaded \cup Add \cup Remove /\ ioTasks' = Append(ioTasks, x)
  /\ x.type \in {"add", "remove"} => Referenced
  /\ IF x.type = "add" THEN x.provider \notin added /\ added' = added \cup {x.provider}
     ELSE added' = added
  /\ UNCHANGED core

\* The states of S are given to continuations, and the entries of D wait for their requests.
Giving(S, D) ==
  /\ S \in SUBSET Requests /\ \A r \in S : owner[r] = "request"
  /\ owner' = [r \in Requests |-> IF r \in S THEN "task" ELSE owner[r]]
  /\ deleting' = deleting \cup D /\ D \subseteq Elements(list)
  /\ \A p \in D : /\ waiting[p] # <<>>
                  /\ \A r \in Elements(waiting[p]) : HasState(r, p) => r \in S
  /\ ioTasks' \in Seq(Task) /\ Shift
  /\ QueuedFor(ioTasks, owner) => QueuedFor(ioTasks', owner')
  /\ UNCHANGED <<manager, list, waiting, entry, continued, added>>

\* A provider is added, directly or by a task; one is deleted; all are.
Inserting(p) ==
  /\ Insert(p)
  /\ \/ p \notin added /\ added' = added \cup {p} /\ UNCHANGED ioTasks
     \/ /\ ioTasks # <<>> /\ Head(ioTasks).type = "add" /\ Head(ioTasks).provider = p
        /\ ioTasks' = Tail(ioTasks) /\ added' = added
  /\ UNCHANGED <<manager, deleting, waiting, owner, entry, continued>>
Erasing(p) ==
  /\ p \in Elements(list) \ deleting /\ waiting[p] = <<>> /\ list' = Erase(list, p)
  /\ UNCHANGED <<manager, deleting, waiting, owner, entry, continued, ioTasks, added>>
Destroying ==
  /\ manager' = "destroyed" /\ list' = <<>> /\ deleting' = {}
  /\ waiting' = [p \in Providers |-> <<>>]
  /\ UNCHANGED <<owner, entry, continued, ioTasks, added>>

\* A request moves on, from a task or not; it never needed the manager; or it outlived it.
Moving(r, q) ==
  /\ manager = "alive" /\ Moved(r, q) /\ UNCHANGED <<manager, added>>
  /\ \/ owner[r] \in {"yet", "request"} /\ UNCHANGED ioTasks
     \/ /\ ioTasks # <<>> /\ Head(ioTasks).type = "continuation" /\ Head(ioTasks).request = r
        /\ owner[r] = "task" /\ ioTasks' = Tail(ioTasks)
Passing(r) ==
  /\ owner[r] = "yet" /\ owner' = [owner EXCEPT ![r] = "gone"]
  /\ UNCHANGED <<manager, list, deleting, waiting, entry, continued, ioTasks, added>>
Dropping(r) ==
  /\ manager = "destroyed" /\ Finish(r)
  /\ ioTasks # <<>> /\ Head(ioTasks).type = "continuation" /\ Head(ioTasks).request = r
  /\ ioTasks' = Tail(ioTasks)
  /\ UNCHANGED <<manager, list, deleting, waiting, added>>

\* The types of what is queued.
LEMMA TaskTypes ==
  ASSUME TypeOK
  PROVE  /\ ioTasks \in Seq(Task)
         /\ \A x \in Task : /\ x.type = "call" <=> x \in Call
                            /\ x.type = "continuation" <=> x \in Continuation
                            /\ x.type = "loaded" <=> x \in Loaded
                            /\ x.type = "add" <=> x \in Add
                            /\ x.type = "remove" <=> x \in Remove
         /\ \A i \in Continuing(ioTasks) : ioTasks[i].request \in Requests
         /\ ioTasks # <<>> => Head(ioTasks) \in Task /\ Tail(ioTasks) \in Seq(Task)
<1>1. ioTasks \in Seq(Task) BY DEF TypeOK, Task
<1>2. \A x \in Task : /\ x.type = "call" <=> x \in Call
                      /\ x.type = "continuation" <=> x \in Continuation
                      /\ x.type = "loaded" <=> x \in Loaded
                      /\ x.type = "add" <=> x \in Add
                      /\ x.type = "remove" <=> x \in Remove
  BY DEF Task, Call, Continuation, Loaded, Add, Remove
<1>3. \A i \in Continuing(ioTasks) : ioTasks[i] \in Continuation BY <1>1, <1>2 DEF Continuing
<1>4. \A x \in Continuation : x.request \in Requests BY DEF Continuation
<1> QED BY <1>1, <1>2, <1>3, <1>4

\* A queue whose first task is taken, or that is as it was, or that continuations follow.
LEMMA ShiftFacts ==
  ASSUME NEW q \in Seq(Task)
  PROVE  /\ Shifted(q, q, 0)
         /\ q # <<>> => Shifted(q, Tail(q), 1)
         /\ \A w \in Seq(Task), t \in Seq(Continuation), d \in {0, 1} :
              Shifted(q, w, d) => Shifted(q, w \o t, d)
<1>1. \A i \in Others(q) : i + 0 = i BY DEF Others
<1>2. Shifted(q, q, 0) BY <1>1 DEF Shifted
<1>3. ASSUME q # <<>> PROVE Shifted(q, Tail(q), 1) BY <1>3, TailAt DEF Shifted, Others
<1>4. ASSUME NEW w \in Seq(Task), NEW t \in Seq(Continuation), NEW d \in {0, 1}, Shifted(q, w, d)
      PROVE  Shifted(q, w \o t, d)
  <2>0. \A j \in DOMAIN t : t[j] \in Continuation OBVIOUS
  <2>1. t \in Seq(Task) /\ \A j \in DOMAIN t : t[j].type = "continuation"
    BY <2>0 DEF Task, Continuation
  <2>2. PICK n \in Nat : Joined(w \o t, w, t, n) BY <2>1, ConcatAt
  <2>3. PICK v : v = w \o t OBVIOUS
  <2>4. \A i \in Others(v) : i \in Others(w) /\ v[i] = w[i] BY <2>1, <2>2, <2>3 DEF Others, Joined
  <2> QED BY <1>4, <2>3, <2>4 DEF Shifted
<1> QED BY <1>2, <1>3, <1>4

\* Giving the states of some Requests, in a loop or one by one.
LEMMA GiveFacts ==
  ASSUME TypeOK, NEW rs \in Seq(Requests), Once(rs), \A r \in Elements(rs) : owner[r] = "request",
         NEW answer \in Answers, NEW base \in Seq(Task), Give(rs, answer, base),
         \/ base = ioTasks
         \/ ioTasks # <<>> /\ Head(ioTasks).type # "continuation" /\ base = Tail(ioTasks)
  PROVE  /\ Elements(rs) \in SUBSET Requests
         /\ owner' = [r \in Requests |-> IF r \in Elements(rs) THEN "task" ELSE owner[r]]
         /\ ioTasks' \in Seq(Task) /\ Shift
         /\ QueuedFor(ioTasks, owner) => QueuedFor(ioTasks', owner')
<1> DEFINE t == Given(rs, answer)
<1>1. Elements(rs) \in SUBSET Requests BY DEF Elements
<1>2. /\ owner' = [r \in Requests |-> IF r \in Elements(rs) THEN "task" ELSE owner[r]]
      /\ ioTasks' = base \o t
  BY DEF Give, Given
<1>3. t \in Seq(Continuation)
  <2>1. PICK n \in Nat : DOMAIN rs = 1..n OBVIOUS
  <2>2. \A i \in 1..n : rs[i] \in Requests BY <2>1
  <2>3. \A i \in 1..n :
          [type |-> "continuation", request |-> rs[i], answer |-> answer] \in Continuation
    BY <2>2 DEF Continuation
  <2>4. t \in [1..n -> Continuation] BY <2>1, <2>3 DEF Given
  <2> HIDE DEF t
  <2> QED BY <2>4
<1>4. t \in Seq(Task) BY <1>3 DEF Task
<1>5. ioTasks \in Seq(Task) /\ \A i \in Continuing(ioTasks) : ioTasks[i].request \in Requests
  BY TaskTypes
<1>6. \A i \in Continuing(base) : base[i].request \in Requests
  <2>1. \A x \in Continuation : x.request \in Requests BY DEF Continuation
  <2>2. \A i \in Continuing(base) : base[i] \in Continuation
    BY TaskTypes DEF Continuing
  <2> QED BY <2>1, <2>2
<1>7. QueuedFor(ioTasks, owner) => QueuedFor(base, owner) BY <1>5, QueuedTail
<1>8. QueuedFor(ioTasks, owner) => QueuedFor(ioTasks', owner')
  <2> SUFFICES ASSUME QueuedFor(ioTasks, owner) PROVE QueuedFor(ioTasks', owner') OBVIOUS
  <2>1. owner \in [Requests -> {"yet", "request", "task", "gone"}] BY DEF TypeOK
  <2>2. QueuedFor(base, owner) BY <1>7
  <2> HIDE DEF t
  <2>3. QueuedFor(base \o t, [r \in Requests |-> IF r \in Elements(rs) THEN "task" ELSE owner[r]])
    BY <1>4, <1>6, <2>1, <2>2, QueuedGiven DEF t
  <2> QED BY <1>2, <2>3
<1> HIDE DEF t
<1>9. ioTasks' \in Seq(Task) BY <1>2, <1>4
<1>10. Shift
  <2>1. PICK d \in {0, 1} : Shifted(ioTasks, base, d) BY <1>5, ShiftFacts
  <2>2. Shifted(ioTasks, base \o t, d) BY <1>3, <1>5, <2>1, ShiftFacts
  <2> QED BY <1>2, <2>1, <2>2 DEF Shift
<1> QED BY <1>1, <1>2, <1>8, <1>9, <1>10

\* Those of T whose Request at p still has their state.
WithState(T, p) == {r \in T : HasState(r, p)}
\* The loop over a pending list gives exactly those.
LEMMA GiveEachFacts ==
  ASSUME TypeOK, NEW s, NEW p, NEW T \in SUBSET Requests, NEW answer \in Answers,
         NEW base \in Seq(Task), GiveEach(s, p, T, answer, base), Len(s) \in Nat,
         \/ base = ioTasks
         \/ ioTasks # <<>> /\ Head(ioTasks).type # "continuation" /\ base = Tail(ioTasks)
  PROVE  \E S \in SUBSET Requests :
           /\ S = WithState(T, p) /\ \A r \in S : owner[r] = "request"
           /\ owner' = [r \in Requests |-> IF r \in S THEN "task" ELSE owner[r]]
           /\ ioTasks' \in Seq(Task) /\ Shift
           /\ QueuedFor(ioTasks, owner) => QueuedFor(ioTasks', owner')
<1>1. PICK S : S = WithState(T, p) OBVIOUS
<1>7. PICK n \in 0..Len(s) : \E rs \in [1..n -> S] :
        /\ Elements(rs) = S
        /\ \A i, j \in 1..n : i < j => rs[i] # rs[j]
        /\ Give(rs, answer, base)
  BY <1>1 DEF GiveEach, WithState
<1>2. PICK rs \in [1..n -> S] :
        /\ Elements(rs) = S
        /\ \A i, j \in 1..n : i < j => rs[i] # rs[j]
        /\ Give(rs, answer, base)
  BY <1>7
<1>3. S \in SUBSET Requests /\ \A r \in S : owner[r] = "request" BY <1>1 DEF HasState, WithState
<1>4. n \in Nat BY <1>7
<1>5. rs \in Seq(Requests) BY <1>2, <1>3, <1>4
<1>6. Once(rs)
  <2> SUFFICES ASSUME NEW i \in 1..n, NEW j \in 1..n, i # j PROVE rs[i] # rs[j]
    BY <1>2 DEF Once
  <2>1. i < j \/ j < i BY <1>4
  <2> QED BY <1>2, <2>1
<1> QED BY <1>1, <1>2, <1>3, <1>5, <1>6, GiveFacts

\* One answer gives the state of its request, or nothing.
LEMMA GiveAnswerFacts ==
  ASSUME TypeOK, NEW r \in Requests, NEW p, NEW answer \in Answers,
         NEW base \in Seq(Task), GiveAnswer(r, p, answer, base),
         \/ base = ioTasks
         \/ ioTasks # <<>> /\ Head(ioTasks).type # "continuation" /\ base = Tail(ioTasks)
  PROVE  \E S \in SUBSET Requests :
           /\ \A x \in S : owner[x] = "request"
           /\ owner' = [x \in Requests |-> IF x \in S THEN "task" ELSE owner[x]]
           /\ ioTasks' \in Seq(Task) /\ Shift
           /\ QueuedFor(ioTasks, owner) => QueuedFor(ioTasks', owner')
<1>1. PICK rs : rs = IF HasState(r, p) THEN <<r>> ELSE <<>> OBVIOUS
<1>2. Give(rs, answer, base) BY <1>1 DEF GiveAnswer
<1>3. rs \in Seq(Requests) /\ Once(rs) BY <1>1 DEF Once
<1>4. \A x \in Elements(rs) : owner[x] = "request" BY <1>1 DEF Elements, HasState
<1> QED BY <1>2, <1>3, <1>4, GiveFacts


-----------------------------------------------------------------------------
\* What a step of the manager can be.
Effect ==
  \/ Quiet \/ Destroying
  \/ \E x \in Call \cup Loaded \cup Add \cup Remove : Posting(x)
  \/ \E S \in SUBSET Requests, D \in SUBSET Providers : Giving(S, D)
  \/ \E p \in Providers : Inserting(p) \/ Erasing(p)
  \/ \E r \in Requests : Passing(r) \/ Dropping(r) \/ \E q : Moving(r, q)

\* A call of OnRequest is made for a request, by a living manager.
LEMMA AskingFacts ==
  ASSUME ResourceInv, asking # NotAsking
  PROVE  asking.request \in Requests /\ asking.provider \in Providers /\ manager = "alive"
<1>1. asking \in [request: Requests, provider: Providers] BY DEF ResourceInv, TypeOK
<1>2. manager \in {"alive", "destroyed"} BY DEF ResourceInv, TypeOK
<1> QED BY <1>1, <1>2 DEF ResourceInv, RemovingAlive

\* A task that the IO thread takes.
LEMMA NextTaskFacts ==
  ASSUME ResourceInv, NEW k, NextTask(k)
  PROVE  /\ ioTasks # <<>> /\ Head(ioTasks).type = k /\ Tail(ioTasks) \in Seq(Task)
         /\ k = "call" => Head(ioTasks) \in Call
         /\ k = "continuation" => Head(ioTasks) \in Continuation
         /\ k = "loaded" => Head(ioTasks) \in Loaded
         /\ k = "add" => Head(ioTasks) \in Add
         /\ k = "remove" => Head(ioTasks) \in Remove
BY TaskTypes DEF ResourceInv, NextTask

\* A loop of RemoveProviders is at an entry of the list.
LEMMA OnEntryFacts ==
  ASSUME ResourceInv, OnEntry
  PROVE  At \in Elements(list) /\ At \in Providers /\ removing.answer \in Answers
<1>1. list \in Seq(Providers) /\ removing.at \in Nat /\ removing.answer \in {"next", "stop"}
  BY DEF ResourceInv, TypeOK
<1>2. removing.at > 0 /\ removing.at <= Len(list) BY DEF ResourceInv, RemovingAlive, OnEntry
<1>3. removing.at \in DOMAIN list BY <1>1, <1>2
<1> QED BY <1>1, <1>3 DEF At, Elements, Answers

\* A request is offered, or OnRequest returns.
LEMMA AskingEffects ==
  ASSUME ResourceAssumption, ResourceInv,
         \/ \E r \in Requests : OnBeforeResourceLoad(r) \/ GetResourceHandler(r)
         \/ OnRequestReturns
  PROVE  Effect
<1> USE DEF ResourceInv
<1>1. ASSUME NEW r \in Requests, OnBeforeResourceLoad(r) PROVE Effect
  <2>1. CASE NextValid(1) = NoProvider
    <3>1. Passing(r) BY <1>1, <2>1 DEF OnBeforeResourceLoad, Passing
    <3> QED BY <3>1 DEF Effect
  <2>2. CASE NextValid(1) # NoProvider
    <3>1. /\ Offer(r, NextValid(1), waiting) /\ UNCHANGED <<list, deleting>> /\ owner[r] = "yet"
          /\ manager = "alive" /\ UNCHANGED <<manager, added, ioTasks>>
      BY <1>1, <2>2 DEF OnBeforeResourceLoad
    <3>2. Moved(r, NextValid(1)) BY <2>2, <3>1, FirstOfferMoves
    <3>3. Moving(r, NextValid(1)) BY <3>1, <3>2 DEF Moving
    <3> QED BY <3>3 DEF Effect
  <2> QED BY <2>1, <2>2
<1>2. ASSUME NEW r \in Requests, GetResourceHandler(r) PROVE Effect
  BY <1>2 DEF GetResourceHandler, Effect, Quiet, core, providerVars
<1>3. ASSUME OnRequestFalse PROVE Effect
  <2>1. asking.request \in Requests /\ manager = "alive" BY <1>3, AskingFacts DEF OnRequestFalse
  <2>2. UNCHANGED <<manager, ioTasks, added>> BY <1>3 DEF OnRequestFalse
  <2>3. CASE HasState(asking.request, asking.provider)
    <3>1. PICK r \in Requests : r = asking.request BY <2>1
    <3>2. owner[r] = "request" BY <2>3, <3>1 DEF HasState
    <3>3. MoveOn(r) BY <1>3, <2>3, <3>1 DEF OnRequestFalse
    <3>4. \E q : Moved(r, q) BY <2>1, <3>2, <3>3, MoveOnMoves DEF Unfinished
    <3>5. \E q : Moving(r, q) BY <2>1, <2>2, <3>2, <3>4 DEF Moving
    <3> QED BY <3>5 DEF Effect
  <2>4. CASE ~HasState(asking.request, asking.provider)
    BY <1>3, <2>2, <2>4 DEF OnRequestFalse, Effect, Quiet, core, providerVars
  <2> QED BY <2>3, <2>4
<1>4. ASSUME ApplicationTakes \/ DirectoryTakes \/ ArchiveQueues PROVE Effect
  BY <1>4 DEF ApplicationTakes, DirectoryTakes, ArchiveQueues, Effect, Quiet, core, providerVars,
              requestVars, archiveVars
<1>5. ASSUME ArchiveAnswers PROVE Effect
  <2>1. asking.request \in Requests BY <1>5, AskingFacts DEF ArchiveAnswers
  <2>2. GiveAnswer(asking.request, asking.provider, "handled", ioTasks) BY <1>5 DEF ArchiveAnswers
  <2>3. UNCHANGED <<manager, list, deleting, waiting, entry, continued, added>>
    BY <1>5 DEF ArchiveAnswers, providerVars
  <2>4. PICK S \in SUBSET Requests :
          /\ \A x \in S : owner[x] = "request"
          /\ owner' = [x \in Requests |-> IF x \in S THEN "task" ELSE owner[x]]
          /\ ioTasks' \in Seq(Task) /\ Shift
          /\ QueuedFor(ioTasks, owner) => QueuedFor(ioTasks', owner')
    BY <2>1, <2>2, TaskTypes, GiveAnswerFacts DEF Answers
  <2>5. Giving(S, {}) BY <2>3, <2>4 DEF Giving
  <2> QED BY <2>5 DEF Effect
<1> QED BY <1>1, <1>2, <1>3, <1>4, <1>5 DEF OnRequestReturns

\* Calls of the application, or posted by it.
LEMMA ApplicationEffects ==
  ASSUME ResourceAssumption, ResourceInv, Application
  PROVE  Effect
<1> USE DEF ResourceInv
<1>1. ASSUME NEW r \in Requests, NEW p \in Providers, NEW answer \in Answers, Answer(r, p, answer)
      PROVE  Effect
  <2>1. GiveAnswer(r, p, answer, ioTasks) BY <1>1 DEF Answer
  <2>2. UNCHANGED <<manager, list, deleting, waiting, entry, continued, added>>
    BY <1>1 DEF Answer, providerVars
  <2>3. PICK S \in SUBSET Requests :
          /\ \A x \in S : owner[x] = "request"
          /\ owner' = [x \in Requests |-> IF x \in S THEN "task" ELSE owner[x]]
          /\ ioTasks' \in Seq(Task) /\ Shift
          /\ QueuedFor(ioTasks, owner) => QueuedFor(ioTasks', owner')
    BY <2>1, TaskTypes, GiveAnswerFacts
  <2>4. Giving(S, {}) BY <2>2, <2>3 DEF Giving
  <2> QED BY <2>4 DEF Effect
<1>2. ASSUME NEW x \in Call \cup Loaded \cup Add \cup Remove, ioTasks' = Append(ioTasks, x),
             UNCHANGED core, x.type \in {"add", "remove"} => Referenced,
             IF x.type = "add" THEN x.provider \notin added /\ added' = added \cup {x.provider}
             ELSE added' = added
      PROVE  Effect
  BY <1>2 DEF Effect, Posting
<1>3. ASSUME NEW x, Post(x) PROVE ioTasks' = Append(ioTasks, x) /\ UNCHANGED core
  BY <1>3 DEF Post, core, requestVars, providerVars
<1>4. ASSUME NEW r \in Requests, NEW p \in Providers, NEW answer \in Answers,
             PostAnswer(r, p, answer)
      PROVE  Effect
  <2>0. PICK x : x = [type |-> "call", request |-> r, provider |-> p, answer |-> answer] OBVIOUS
  <2>1. x \in Call /\ x.type = "call" BY <2>0 DEF Call
  <2>2. Post(x) /\ added' = added BY <1>4, <2>0 DEF PostAnswer
  <2> QED BY <1>2, <1>3, <2>1, <2>2
<1>5. ASSUME NEW p \in Providers, PostAddProvider(p) PROVE Effect
  <2>0. PICK x : x = [type |-> "add", provider |-> p] OBVIOUS
  <2>1. x \in Add /\ x.type = "add" /\ x.provider = p BY <2>0 DEF Add
  <2>2. Post(x) /\ p \notin added /\ added' = added \cup {p} /\ Referenced
    BY <1>5, <2>0 DEF PostAddProvider
  <2> QED BY <1>2, <1>3, <2>1, <2>2
<1>6. ASSUME NEW selected \in SUBSET Providers, NEW answer \in {"next", "stop"},
             PostRemove(selected, answer)
      PROVE  Effect
  <2>0. PICK x : x = [type |-> "remove", selected |-> selected, answer |-> answer] OBVIOUS
  <2>1. x \in Remove /\ x.type = "remove" BY <2>0 DEF Remove
  <2>2. Post(x) /\ Referenced /\ added' = added BY <1>6, <2>0 DEF PostRemove
  <2> QED BY <1>2, <1>3, <2>1, <2>2
<1>7. ASSUME NEW p \in Providers, AddProvider(p) PROVE Effect
  <2>1. Inserting(p) BY <1>7 DEF AddProvider, Inserting, requestVars
  <2> QED BY <2>1 DEF Effect
<1>8. ASSUME Destroy \/ \E selected, answer : RemoveCall(selected, answer) PROVE Effect
  BY <1>8 DEF Destroy, RemoveCall, Effect, Quiet, core, providerVars, requestVars
<1>9. \A selected \in Identifiers : selected \in SUBSET Providers BY ResourceAssumption
<1> QED BY <1>1, <1>4, <1>5, <1>6, <1>7, <1>8, <1>9 DEF Application


\* The loop of RemoveProviders and RemoveAllProviders, and the FILE thread.
LEMMA LoopEffects ==
  ASSUME ResourceAssumption, ResourceInv, RemoveLoop \/ RunFileTask
  PROVE  Effect
<1> USE DEF ResourceInv
<1>1. ASSUME SkipProvider PROVE Effect
  BY <1>1 DEF SkipProvider, Effect, Quiet, core, providerVars, requestVars
<1>2. ASSUME DeleteLater PROVE Effect
  <2>1. At \in Elements(list) /\ At \in Providers /\ removing.answer \in Answers
    BY <1>2, OnEntryFacts DEF DeleteLater
  <2>2. PICK p \in Providers : p = At BY <2>1
  <2>3. /\ deleting' = deleting \cup {p} /\ waiting[p] # <<>>
        /\ GiveEach(waiting[p], p, Elements(waiting[p]), removing.answer, ioTasks)
        /\ UNCHANGED <<manager, list, waiting, entry, continued, added>>
    BY <1>2, <2>2 DEF DeleteLater
  <2>4. Elements(waiting[p]) \in SUBSET Requests /\ Len(waiting[p]) \in Nat
    BY DEF TypeOK, Elements
  <2>5. PICK S \in SUBSET Requests :
          /\ S = WithState(Elements(waiting[p]), p) /\ \A r \in S : owner[r] = "request"
          /\ owner' = [r \in Requests |-> IF r \in S THEN "task" ELSE owner[r]]
          /\ ioTasks' \in Seq(Task) /\ Shift
          /\ QueuedFor(ioTasks, owner) => QueuedFor(ioTasks', owner')
    <3>1. PICK T \in SUBSET Requests : T = Elements(waiting[p]) BY <2>4
    <3>2. GiveEach(waiting[p], p, T, removing.answer, ioTasks) BY <2>3, <3>1
    <3>3. ioTasks \in Seq(Task) BY TaskTypes
    <3>4. PICK S \in SUBSET Requests :
            /\ S = WithState(T, p) /\ \A r \in S : owner[r] = "request"
            /\ owner' = [r \in Requests |-> IF r \in S THEN "task" ELSE owner[r]]
            /\ ioTasks' \in Seq(Task) /\ Shift
            /\ QueuedFor(ioTasks, owner) => QueuedFor(ioTasks', owner')
      BY <2>1, <2>4, <3>2, <3>3, GiveEachFacts
    <3> QED BY <3>1, <3>4
  <2>6. Giving(S, {p}) BY <2>1, <2>2, <2>3, <2>5 DEF Giving, WithState
  <2> QED BY <2>6 DEF Effect
<1>3. ASSUME DeleteNow PROVE Effect
  <2>1. At \in Elements(list) /\ At \in Providers BY <1>3, OnEntryFacts DEF DeleteNow
  <2>2. Erasing(At) BY <1>3, <2>1 DEF DeleteNow, Erasing, requestVars
  <2> QED BY <2>1, <2>2 DEF Effect
<1>4. ASSUME RemoveReturns PROVE Effect
  <2>1. UNCHANGED <<owner, entry, continued, ioTasks, added>>
    BY <1>4 DEF RemoveReturns, requestVars
  <2>2. CASE removing.last
    <3>1. Destroying BY <1>4, <2>1, <2>2 DEF RemoveReturns, Destroying
    <3> QED BY <3>1 DEF Effect
  <2>3. CASE ~removing.last
    BY <1>4, <2>1, <2>3 DEF RemoveReturns, Effect, Quiet, core, providerVars
  <2> QED BY <2>2, <2>3
<1>5. ASSUME RunFileTask PROVE Effect
  <2>1. UNCHANGED core /\ added' = added
    BY <1>5 DEF RunFileTask, core, requestVars, providerVars
  <2>2. PICK t : t = Head(fileTasks) OBVIOUS
  <2>3. /\ t.type \in {"open", "load"} /\ t.provider \in Providers
        /\ t.type = "open" => t.request \in Requests
    <3>1. fileTasks # <<>> BY <1>5 DEF RunFileTask
    <3>2. fileTasks[1] = t /\ 1 \in DOMAIN fileTasks /\ t \in FileTask
      BY <2>2, <3>1, TailAt DEF TypeOK
    <3> QED BY <3>2 DEF FileTask, OpensForRequest
  <2>4. CASE \E answer \in {"handled", "next"} :
               /\ t.type = "open"
               /\ ioTasks' = Append(ioTasks, [type |-> "call", request |-> t.request,
                                              provider |-> t.provider, answer |-> answer])
    <3>1. PICK answer \in {"handled", "next"} :
               /\ t.type = "open"
               /\ ioTasks' = Append(ioTasks, [type |-> "call", request |-> t.request,
                                              provider |-> t.provider, answer |-> answer])
      BY <2>4
    <3>2. PICK x : x = [type |-> "call", request |-> t.request, provider |-> t.provider,
                        answer |-> answer]
      OBVIOUS
    <3>3. x \in Call /\ x.type = "call" BY <2>3, <3>1, <3>2 DEF Call, Answers
    <3>4. Posting(x) BY <2>1, <3>1, <3>2, <3>3 DEF Posting
    <3> QED BY <3>3, <3>4 DEF Effect
  <2>5. CASE \E ok \in BOOLEAN :
               ioTasks' = Append(ioTasks, [type |-> "loaded", provider |-> t.provider, ok |-> ok])
    <3>1. PICK ok \in BOOLEAN :
               ioTasks' = Append(ioTasks, [type |-> "loaded", provider |-> t.provider, ok |-> ok])
      BY <2>5
    <3>2. PICK x : x = [type |-> "loaded", provider |-> t.provider, ok |-> ok] OBVIOUS
    <3>3. x \in Loaded /\ x.type = "loaded" BY <2>3, <3>1, <3>2 DEF Loaded
    <3>4. Posting(x) BY <2>1, <3>1, <3>2, <3>3 DEF Posting
    <3> QED BY <3>3, <3>4 DEF Effect
  <2> QED BY <1>5, <2>2, <2>4, <2>5 DEF RunFileTask
<1> QED BY <1>1, <1>2, <1>3, <1>4, <1>5 DEF RemoveLoop

\* Tasks of the IO thread.
LEMMA TaskEffects ==
  ASSUME ResourceAssumption, ResourceInv, RunIoTask
  PROVE  Effect
<1> USE DEF ResourceInv
<1>1. ASSUME RunContinuation PROVE Effect
  <2>1. PICK t : t = Head(ioTasks) OBVIOUS
  <2>2. ioTasks # <<>> /\ t.type = "continuation" /\ t \in Continuation
    BY <1>1, <2>1, NextTaskFacts DEF RunContinuation
  <2>3. PICK r \in Requests : r = t.request BY <2>2 DEF Continuation
  <2>4. owner[r] = "task"
    <3>1. ioTasks[1] = t /\ 1 \in DOMAIN ioTasks BY <2>1, <2>2, TaskTypes, TailAt
    <3> QED BY <2>2, <2>3, <3>1 DEF QueuedFor, Continuing
  <2>5. ioTasks' = Tail(ioTasks) /\ UNCHANGED <<manager, added>>
    BY <1>1 DEF RunContinuation
  <2>6. CASE manager = "destroyed"
    <3>1. Finish(r) /\ UNCHANGED <<list, deleting, waiting>>
      BY <1>1, <2>1, <2>3, <2>6 DEF RunContinuation, providerVars
    <3>2. Dropping(r) BY <2>1, <2>2, <2>3, <2>5, <2>6, <3>1 DEF Dropping
    <3> QED BY <3>2 DEF Effect
  <2>7. CASE manager # "destroyed"
    <3>1. manager = "alive" BY <2>7 DEF TypeOK
    <3>2. MoveOn(r) \/ StopRequest(r) BY <1>1, <2>1, <2>3, <2>7 DEF RunContinuation
    <3>3. \E q : Moved(r, q) BY <2>4, <3>1, <3>2, MoveOnMoves DEF Unfinished
    <3>4. \E q : Moving(r, q) BY <2>1, <2>2, <2>3, <2>4, <2>5, <3>1, <3>3 DEF Moving
    <3> QED BY <3>4 DEF Effect
  <2> QED BY <2>6, <2>7
<1>2. ASSUME RunCall PROVE Effect
  <2>1. PICK t : t = Head(ioTasks) OBVIOUS
  <2>2. ioTasks # <<>> /\ t.type = "call" /\ t \in Call /\ Tail(ioTasks) \in Seq(Task)
    BY <1>2, <2>1, NextTaskFacts DEF RunCall
  <2>3. t.request \in Requests /\ t.answer \in Answers BY <2>2 DEF Call
  <2>4. /\ GiveAnswer(t.request, t.provider, t.answer, Tail(ioTasks))
        /\ UNCHANGED <<manager, list, deleting, waiting, entry, continued, added>>
    BY <1>2, <2>1 DEF RunCall, providerVars
  <2>5. Head(ioTasks).type # "continuation" BY <2>1, <2>2
  <2>6. PICK S \in SUBSET Requests :
          /\ \A x \in S : owner[x] = "request"
          /\ owner' = [x \in Requests |-> IF x \in S THEN "task" ELSE owner[x]]
          /\ ioTasks' \in Seq(Task) /\ Shift
          /\ QueuedFor(ioTasks, owner) => QueuedFor(ioTasks', owner')
    BY <2>2, <2>3, <2>4, <2>5, GiveAnswerFacts
  <2>7. Giving(S, {}) BY <2>4, <2>6 DEF Giving
  <2> QED BY <2>7 DEF Effect
<1>3. ASSUME RunAdd PROVE Effect
  <2>1. PICK t : t = Head(ioTasks) OBVIOUS
  <2>2. ioTasks # <<>> /\ t.type = "add" /\ t \in Add BY <1>3, <2>1, NextTaskFacts DEF RunAdd
  <2>3. t.provider \in Providers BY <2>2 DEF Add
  <2>4. Inserting(t.provider) BY <1>3, <2>1, <2>2 DEF RunAdd, Inserting, requestVars
  <2> QED BY <2>3, <2>4 DEF Effect
<1>4. ASSUME RunRemove PROVE Effect
  <2>1. ioTasks # <<>> /\ Head(ioTasks).type = "remove" BY <1>4, NextTaskFacts DEF RunRemove
  <2>2. /\ ioTasks' = Tail(ioTasks)
        /\ UNCHANGED <<manager, list, deleting, waiting, owner, entry, continued, added>>
    BY <1>4 DEF RunRemove, requestVars, providerVars
  <2> QED BY <2>1, <2>2 DEF Effect, Quiet, core
<1>5. ASSUME ArchiveLoaded PROVE Effect
  <2>1. PICK t : t = Head(ioTasks) OBVIOUS
  <2>2. ioTasks # <<>> /\ t.type = "loaded" /\ t \in Loaded /\ Tail(ioTasks) \in Seq(Task)
    BY <1>5, <2>1, NextTaskFacts DEF ArchiveLoaded
  <2>3. Head(ioTasks).type # "continuation" BY <2>1, <2>2
  <2>4. UNCHANGED <<manager, list, deleting, waiting, entry, continued, added>>
    BY <1>5 DEF ArchiveLoaded, providerVars
  <2>5. CASE t.provider \in Elements(list)
    <3>1. PICK p \in Providers : p = t.provider BY <2>2 DEF Loaded
    <3>2. ContinueQueued(t) BY <1>5, <2>1, <2>5 DEF ArchiveLoaded
    <3>3. PICK found \in SUBSET Elements(queued[p]) :
            GiveEach(queued[p], p, found, "handled", Tail(ioTasks))
      BY <3>1, <3>2 DEF ContinueQueued
    <3>4. found \in SUBSET Requests /\ Len(queued[p]) \in Nat
      BY <3>3 DEF TypeOK, Elements
    <3>5. PICK S \in SUBSET Requests :
            /\ S = WithState(found, p) /\ \A r \in S : owner[r] = "request"
            /\ owner' = [r \in Requests |-> IF r \in S THEN "task" ELSE owner[r]]
            /\ ioTasks' \in Seq(Task) /\ Shift
            /\ QueuedFor(ioTasks, owner) => QueuedFor(ioTasks', owner')
      BY <2>2, <2>3, <3>3, <3>4, GiveEachFacts DEF Answers
    <3>6. Giving(S, {}) BY <2>4, <3>5 DEF Giving
    <3> QED BY <3>6 DEF Effect
  <2>6. CASE t.provider \notin Elements(list)
    <3>1. ioTasks' = Tail(ioTasks) /\ UNCHANGED owner BY <1>5, <2>1, <2>6 DEF ArchiveLoaded
    <3> QED BY <2>2, <2>3, <2>4, <3>1 DEF Effect, Quiet, core
  <2> QED BY <2>5, <2>6
<1> QED BY <1>1, <1>2, <1>3, <1>4, <1>5 DEF RunIoTask

\* Every step has one of the effects.
LEMMA NextEffects ==
  ASSUME ResourceAssumption, ResourceInv, Next
  PROVE  Effect
BY AskingEffects, ApplicationEffects, LoopEffects, TaskEffects DEF Next


-----------------------------------------------------------------------------
(***************************************************************************)
(* What the effects preserve.                                              *)
(***************************************************************************)
\* The queue after a step: what was there, one place further or not, or one task more.
LEMMA QueueEffects ==
  ASSUME ResourceInv, Effect
  PROVE  /\ ioTasks' \in Seq(Task)
         /\ Shift \/ \E x \in Call \cup Loaded \cup Add \cup Remove : Posting(x)
<1>1. ioTasks \in Seq(Task) /\ (ioTasks # <<>> => Tail(ioTasks) \in Seq(Task))
  BY TaskTypes DEF ResourceInv
<1>2. ASSUME UNCHANGED ioTasks PROVE ioTasks' \in Seq(Task) /\ Shift
  BY <1>1, <1>2, ShiftFacts DEF Shift
<1>3. ASSUME ioTasks # <<>>, ioTasks' = Tail(ioTasks) PROVE ioTasks' \in Seq(Task) /\ Shift
  BY <1>1, <1>3, ShiftFacts DEF Shift
<1>4. CASE Quiet BY <1>2, <1>3, <1>4 DEF Quiet
<1>5. CASE Destroying BY <1>2, <1>5 DEF Destroying
<1>6. ASSUME NEW x \in Call \cup Loaded \cup Add \cup Remove, Posting(x)
      PROVE  ioTasks' \in Seq(Task)
  <2>1. x \in Task /\ ioTasks' = Append(ioTasks, x) BY <1>6 DEF Task, Posting
  <2> QED BY <1>1, <2>1
<1>7. ASSUME NEW S, NEW D, Giving(S, D) PROVE ioTasks' \in Seq(Task) /\ Shift
  BY <1>7 DEF Giving
<1>8. ASSUME NEW p \in Providers, Inserting(p) PROVE ioTasks' \in Seq(Task) /\ Shift
  BY <1>2, <1>3, <1>8 DEF Inserting
<1>9. ASSUME NEW p \in Providers, Erasing(p) PROVE ioTasks' \in Seq(Task) /\ Shift
  BY <1>2, <1>9 DEF Erasing
<1>10. ASSUME NEW r \in Requests, NEW q, Moving(r, q) PROVE ioTasks' \in Seq(Task) /\ Shift
  BY <1>2, <1>3, <1>10 DEF Moving
<1>11. ASSUME NEW r \in Requests, Passing(r) PROVE ioTasks' \in Seq(Task) /\ Shift
  BY <1>2, <1>11 DEF Passing
<1>12. ASSUME NEW r \in Requests, Dropping(r) PROVE ioTasks' \in Seq(Task) /\ Shift
  BY <1>3, <1>12 DEF Dropping
<1> QED BY <1>4, <1>5, <1>6, <1>7, <1>8, <1>9, <1>10, <1>11, <1>12 DEF Effect

\* Each request that has a continuation queued has one.
LEMMA QueuedPreserved ==
  ASSUME ResourceInv, Effect
  PROVE  QueuedFor(ioTasks', owner')
<1> DEFINE own == owner
<1>1. /\ ioTasks \in Seq(Task) /\ \A i \in Continuing(ioTasks) : ioTasks[i].request \in Requests
      /\ owner \in [Requests -> {"yet", "request", "task", "gone"}] /\ QueuedFor(ioTasks, owner)
  BY TaskTypes DEF ResourceInv, TypeOK
<1>2. ASSUME ioTasks # <<>>, Head(ioTasks).type # "continuation", ioTasks' = Tail(ioTasks),
             UNCHANGED owner
      PROVE  QueuedFor(ioTasks', owner')
  BY <1>1, <1>2, QueuedTail
<1>3. CASE Quiet BY <1>1, <1>2, <1>3 DEF Quiet, core
<1>4. CASE Destroying BY <1>1, <1>4 DEF Destroying
<1>5. ASSUME NEW x \in Call \cup Loaded \cup Add \cup Remove, Posting(x)
      PROVE  QueuedFor(ioTasks', owner')
  <2>1. x \in Task /\ x.type # "continuation"
    BY DEF Task, Call, Loaded, Add, Remove
  <2>2. ioTasks' = Append(ioTasks, x) /\ owner' = owner BY <1>5 DEF Posting, core
  <2> QED BY <1>1, <2>1, <2>2, QueuedAppend
<1>6. ASSUME NEW S, NEW D, Giving(S, D) PROVE QueuedFor(ioTasks', owner')
  BY <1>1, <1>6 DEF Giving
<1>7. ASSUME NEW p \in Providers, Inserting(p) PROVE QueuedFor(ioTasks', owner')
  BY <1>1, <1>2, <1>7 DEF Inserting
<1>8. ASSUME NEW p \in Providers, Erasing(p) PROVE QueuedFor(ioTasks', owner')
  BY <1>1, <1>8 DEF Erasing
<1>9. ASSUME NEW r \in Requests, NEW s, s # "task", owner' = [owner EXCEPT ![r] = s],
             \/ owner[r] \in {"yet", "request"} /\ UNCHANGED ioTasks
             \/ /\ ioTasks # <<>> /\ Head(ioTasks).type = "continuation"
                /\ Head(ioTasks).request = r /\ ioTasks' = Tail(ioTasks)
      PROVE  QueuedFor(ioTasks', owner')
  <2>1. CASE owner[r] \in {"yet", "request"} /\ UNCHANGED ioTasks
    <3>1. QueuedFor(ioTasks, [owner EXCEPT ![r] = s]) BY <1>1, <1>9, <2>1, QueuedOther
    <3> QED BY <1>9, <2>1, <3>1
  <2>2. CASE /\ ioTasks # <<>> /\ Head(ioTasks).type = "continuation"
             /\ Head(ioTasks).request = r /\ ioTasks' = Tail(ioTasks)
    <3>1. QueuedFor(Tail(ioTasks), [owner EXCEPT ![Head(ioTasks).request] = s])
      BY <1>1, <1>9, <2>2, QueuedRun
    <3> QED BY <1>9, <2>2, <3>1
  <2> QED BY <1>9, <2>1, <2>2
<1>10. ASSUME NEW r \in Requests, NEW q, Moving(r, q) PROVE QueuedFor(ioTasks', owner')
  <2>1. PICK s : s = IF q = NoProvider THEN "gone" ELSE "request" OBVIOUS
  <2>2. s # "task" /\ owner' = [owner EXCEPT ![r] = s] BY <1>10, <2>1 DEF Moving, Moved
  <2> QED BY <1>9, <1>10, <2>2 DEF Moving
<1>11. ASSUME NEW r \in Requests, Passing(r) PROVE QueuedFor(ioTasks', owner')
  BY <1>9, <1>11 DEF Passing
<1>12. ASSUME NEW r \in Requests, Dropping(r) PROVE QueuedFor(ioTasks', owner')
  BY <1>9, <1>12 DEF Dropping, Finish
<1> QED BY <1>3, <1>4, <1>5, <1>6, <1>7, <1>8, <1>10, <1>11, <1>12 DEF Effect

\* A state is deleted at most once.
LEMMA ContinuedPreserved ==
  ASSUME ResourceInv, Effect
  PROVE  ContinuedOnce'
<1>1. /\ owner \in [Requests -> {"yet", "request", "task", "gone"}]
      /\ continued \in [Requests -> Nat]
  BY DEF ResourceInv, TypeOK
<1>2. \A r \in Requests : continued[r] <= IF owner[r] = "gone" THEN 1 ELSE 0
  BY DEF ResourceInv, ContinuedOnce
<1>3. ASSUME UNCHANGED <<owner, continued>> PROVE ContinuedOnce'
  BY <1>2, <1>3 DEF ContinuedOnce
<1>4. ASSUME NEW r \in Requests, owner[r] # "gone", owner' = [owner EXCEPT ![r] = "gone"],
             continued' = continued \/ continued' = [continued EXCEPT ![r] = @ + 1]
      PROVE  ContinuedOnce'
  <2>1. continued[r] = 0 BY <1>1, <1>2, <1>4
  <2>2. continued'[r] <= 1 /\ owner'[r] = "gone" BY <1>1, <1>4, <2>1
  <2>3. \A x \in Requests : x # r => continued'[x] = continued[x] /\ owner'[x] = owner[x]
    BY <1>1, <1>4
  <2> QED BY <1>2, <2>2, <2>3 DEF ContinuedOnce
<1>5. ASSUME NEW S, NEW D, Giving(S, D) PROVE ContinuedOnce'
  <2>1. \A r \in Requests : continued'[r] = continued[r] /\ (owner'[r] = "gone" <=> owner[r] = "gone")
    BY <1>1, <1>5 DEF Giving
  <2> QED BY <1>2, <2>1 DEF ContinuedOnce
<1>6. ASSUME NEW r \in Requests, NEW q, Moving(r, q) PROVE ContinuedOnce'
  <2>1. owner[r] # "gone" BY <1>6 DEF Moving
  <2>2. CASE q = NoProvider BY <1>4, <1>6, <2>1, <2>2 DEF Moving, Moved
  <2>3. CASE q # NoProvider
    <3>1. continued' = continued /\ owner' = [owner EXCEPT ![r] = "request"]
      BY <1>6, <2>3 DEF Moving, Moved
    <3>2. \A x \in Requests : continued'[x] = continued[x] /\ (owner'[x] = "gone" <=> owner[x] = "gone")
      BY <1>1, <2>1, <3>1
    <3> QED BY <1>2, <3>2 DEF ContinuedOnce
  <2> QED BY <2>2, <2>3
<1>7. ASSUME NEW r \in Requests, Passing(r) PROVE ContinuedOnce'
  BY <1>4, <1>7 DEF Passing
<1>8. ASSUME NEW r \in Requests, Dropping(r) PROVE ContinuedOnce'
  <2>1. owner[r] = "task"
    <3>1. /\ ioTasks # <<>> /\ Head(ioTasks).type = "continuation" /\ Head(ioTasks).request = r
      BY <1>8 DEF Dropping
    <3>2. ioTasks[1] = Head(ioTasks) /\ 1 \in DOMAIN ioTasks
      BY <3>1, TaskTypes, TailAt DEF ResourceInv
    <3> QED BY <3>1, <3>2 DEF ResourceInv, QueuedFor, Continuing
  <2> QED BY <1>4, <1>8, <2>1 DEF Dropping, Finish
<1> QED BY <1>3, <1>5, <1>6, <1>7, <1>8
        DEF Effect, Quiet, Destroying, Posting, Inserting, Erasing, core


\* The tasks that add providers after a step that posts none.
LEMMA ShiftAdding ==
  ASSUME Shift
  PROVE  /\ \A i \in Adding' : \E k \in Adding : ioTasks'[i].provider = ioTasks[k].provider
         /\ (\A i, j \in Adding : i # j => ioTasks[i].provider # ioTasks[j].provider) =>
              \A i, j \in Adding' : i # j => ioTasks'[i].provider # ioTasks'[j].provider
<1>1. PICK d \in {0, 1} : Shifted(ioTasks, ioTasks', d) BY DEF Shift
<1>2. \A i \in Adding' : i + d \in Adding /\ ioTasks'[i] = ioTasks[i + d]
  BY <1>1 DEF Shifted, Others, Adding
<1>3. \A i, j \in Adding' : i # j => i + d # j + d BY <1>1 DEF Shifted, Others, Adding
<1> QED BY <1>2, <1>3

\* The list after a step.
LEMMA ListPreserved ==
  ASSUME ResourceAssumption, ResourceInv, Effect
  PROVE  list' \in Seq(Providers) /\ ListSorted'
<1>1. /\ list \in Seq(Providers) /\ Once(list) /\ Ascending(list) /\ Elements(list) \subseteq added
      /\ \A i \in Adding : ioTasks[i].provider \in added \ Elements(list)
      /\ \A i, j \in Adding : i # j => ioTasks[i].provider # ioTasks[j].provider
  BY DEF ResourceInv, TypeOK, ListSorted
\* The list may lose entries.
<1>2. ASSUME list' \in Seq(Providers), Once(list'), Ascending(list'),
             Elements(list') \subseteq Elements(list), added' = added, Shift
      PROVE  list' \in Seq(Providers) /\ ListSorted'
  BY <1>1, <1>2, ShiftAdding DEF ListSorted
<1>3. ASSUME list' = list, added' = added, Shift PROVE list' \in Seq(Providers) /\ ListSorted'
  BY <1>1, <1>2, <1>3
<1>4. Shift \/ \E x \in Call \cup Loaded \cup Add \cup Remove : Posting(x) BY QueueEffects
<1>5. ASSUME NEW x \in Call \cup Loaded \cup Add \cup Remove, Posting(x)
      PROVE  list' \in Seq(Providers) /\ ListSorted'
  <2>1. list' = list /\ x \in Task /\ ioTasks' = Append(ioTasks, x) /\ ioTasks \in Seq(Task)
    BY <1>5, TaskTypes DEF Posting, core, Task, ResourceInv
  <2>2. PICK n \in Nat : /\ DOMAIN ioTasks' = DOMAIN ioTasks \cup {n} /\ n \notin DOMAIN ioTasks
                         /\ ioTasks'[n] = x /\ \A i \in DOMAIN ioTasks : ioTasks'[i] = ioTasks[i]
    BY <2>1, AppendAt
  <2>3. CASE x.type = "add"
    <3>1. x.provider \notin added /\ added' = added \cup {x.provider} BY <1>5, <2>3 DEF Posting
    <3>2. /\ Adding' = Adding \cup {n} /\ n \notin Adding
          /\ ioTasks'[n] = x /\ \A i \in Adding : ioTasks'[i] = ioTasks[i]
      BY <2>2, <2>3 DEF Adding
    <3>3. \A i \in Adding' : ioTasks'[i].provider \in added' \ Elements(list)
      BY <1>1, <3>1, <3>2
    <3>4. \A i, j \in Adding' : i # j => ioTasks'[i].provider # ioTasks'[j].provider
      BY <1>1, <3>1, <3>2
    <3> QED BY <1>1, <2>1, <3>1, <3>3, <3>4 DEF ListSorted
  <2>4. CASE x.type # "add"
    <3>1. added' = added BY <1>5, <2>4 DEF Posting
    <3>2. Adding' = Adding /\ \A i \in Adding : ioTasks'[i] = ioTasks[i]
      BY <2>2, <2>4 DEF Adding
    <3>3. \A i \in Adding' : ioTasks'[i].provider \in added' \ Elements(list)
      BY <1>1, <3>1, <3>2
    <3>4. \A i, j \in Adding' : i # j => ioTasks'[i].provider # ioTasks'[j].provider
      BY <1>1, <3>1, <3>2
    <3> QED BY <1>1, <2>1, <3>1, <3>3, <3>4 DEF ListSorted
  <2> QED BY <2>3, <2>4
<1>6. ASSUME NEW p \in Providers, Inserting(p) PROVE list' \in Seq(Providers) /\ ListSorted'
  <2>1. Insert(p) BY <1>6 DEF Inserting
  <2>2. CASE p \notin added /\ added' = added \cup {p} /\ UNCHANGED ioTasks
    <3>1. Adding' = Adding BY <2>2 DEF Adding
    <3>2. /\ list' \in Seq(Providers) /\ Once(list') /\ Ascending(list')
          /\ Elements(list') = Elements(list) \cup {p}
      BY <1>1, <2>1, <2>2, InsertFacts
    <3> QED BY <1>1, <2>2, <3>1, <3>2 DEF ListSorted
  <2>3. CASE /\ ioTasks # <<>> /\ Head(ioTasks).type = "add" /\ Head(ioTasks).provider = p
             /\ ioTasks' = Tail(ioTasks) /\ added' = added
    <3>1. ioTasks \in Seq(Task) BY TaskTypes DEF ResourceInv
    <3>2. /\ Head(ioTasks) = ioTasks[1] /\ 1 \in DOMAIN ioTasks
          /\ \A i \in DOMAIN ioTasks' : /\ i + 1 \in DOMAIN ioTasks /\ i + 1 # 1
                                        /\ ioTasks'[i] = ioTasks[i + 1]
          /\ \A i, j \in DOMAIN ioTasks' : i # j => i + 1 # j + 1
      BY <2>3, <3>1, TailAt
    <3>3. /\ 1 \in Adding /\ p = ioTasks[1].provider
          /\ \A i \in Adding' : i + 1 \in Adding /\ i + 1 # 1 /\ ioTasks'[i] = ioTasks[i + 1]
          /\ \A i, j \in Adding' : i # j => i + 1 # j + 1
      BY <2>3, <3>2 DEF Adding
    <3>4. p \in added \ Elements(list) BY <1>1, <3>3
    <3>5. /\ list' \in Seq(Providers) /\ Once(list') /\ Ascending(list')
          /\ Elements(list') = Elements(list) \cup {p}
      BY <1>1, <2>1, <3>4, InsertFacts
    <3>6. \A i \in Adding' : ioTasks'[i].provider \in added \ (Elements(list) \cup {p})
      BY <1>1, <3>3
    <3>7. \A i, j \in Adding' : i # j => ioTasks'[i].provider # ioTasks'[j].provider
      BY <1>1, <3>3
    <3> QED BY <1>1, <2>3, <3>4, <3>5, <3>6, <3>7 DEF ListSorted
  <2> QED BY <1>6, <2>2, <2>3 DEF Inserting
<1>7. ASSUME NEW p \in Providers, Erasing(p), Shift PROVE list' \in Seq(Providers) /\ ListSorted'
  <2>1. p \in Elements(list) /\ list' = Erase(list, p) /\ added' = added BY <1>7 DEF Erasing
  <2> QED BY <1>1, <1>2, <1>7, <2>1, EraseFacts
<1>8. ASSUME Destroying, Shift PROVE list' \in Seq(Providers) /\ ListSorted'
  <2>1. list' = <<>> /\ added' = added BY <1>8 DEF Destroying
  <2>2. list' \in Seq(Providers) /\ Once(list') /\ Ascending(list') /\ Elements(list') = {}
    BY <2>1 DEF Once, Ascending, Elements
  <2> QED BY <1>2, <1>8, <2>1, <2>2
<1>9. ASSUME NEW r \in Requests, NEW q, Moving(r, q), Shift
      PROVE  list' \in Seq(Providers) /\ ListSorted'
  <2>1. /\ list' \in Seq(Providers) /\ Once(list') /\ Ascending(list')
        /\ Elements(list') \subseteq Elements(list) /\ added' = added
    BY <1>9 DEF Moving, Moved
  <2> QED BY <1>2, <1>9, <2>1
<1>10. ASSUME Shift, Quiet \/ (\E S \in SUBSET Requests, D \in SUBSET Providers : Giving(S, D))
                       \/ \E r \in Requests : Passing(r) \/ Dropping(r)
       PROVE  list' \in Seq(Providers) /\ ListSorted'
  BY <1>3, <1>10 DEF Quiet, Giving, Passing, Dropping, core
<1> QED BY <1>4, <1>5, <1>6, <1>7, <1>8, <1>9, <1>10 DEF Effect

\* The pending lists after a step.
LEMMA WaitingPreserved ==
  ASSUME ResourceAssumption, ResourceInv, Effect
  PROVE  waiting' \in [Providers -> Seq(Requests)] /\ WaitingAt'
<1>1. /\ waiting \in [Providers -> Seq(Requests)] /\ manager \in {"alive", "destroyed"}
      /\ owner \in [Requests -> {"yet", "request", "task", "gone"}]
      /\ entry \in [Requests -> Providers \cup {NoProvider}]
  BY DEF ResourceInv, TypeOK
<1>2. /\ \A p \in Providers : Once(waiting[p])
      /\ \A p \in Providers : \A r \in Elements(waiting[p]) : entry[r] = p /\ owner[r] \in Unfinished
      /\ \A r \in Requests : owner[r] = "yet" => entry[r] = NoProvider
      /\ manager = "destroyed" => \A p \in Providers : Elements(waiting[p]) = {}
  BY DEF ResourceInv, WaitingAt
<1>3. \A p \in Providers : Elements(waiting[p]) \subseteq Requests BY <1>1 DEF Elements
<1>4. ASSUME UNCHANGED <<manager, waiting, owner, entry>>
      PROVE  waiting' \in [Providers -> Seq(Requests)] /\ WaitingAt'
  BY <1>1, <1>2, <1>4 DEF WaitingAt
<1>5. ASSUME NEW S, NEW D, Giving(S, D)
      PROVE  waiting' \in [Providers -> Seq(Requests)] /\ WaitingAt'
  <2>1. UNCHANGED <<manager, waiting, entry>> BY <1>5 DEF Giving
  <2>2. \A r \in Requests : /\ owner[r] \in Unfinished => owner'[r] \in Unfinished
                            /\ owner'[r] = "yet" => owner[r] = "yet"
    BY <1>5 DEF Giving, Unfinished
  <2> QED BY <1>1, <1>2, <1>3, <2>1, <2>2 DEF WaitingAt
<1>6. ASSUME Destroying PROVE waiting' \in [Providers -> Seq(Requests)] /\ WaitingAt'
  <2>1. \A p \in Providers : waiting'[p] = <<>> /\ Once(waiting'[p]) /\ Elements(waiting'[p]) = {}
    BY <1>6 DEF Destroying, Once, Elements
  <2>2. waiting' \in [Providers -> Seq(Requests)] BY <1>6 DEF Destroying
  <2>3. UNCHANGED <<owner, entry>> BY <1>6 DEF Destroying
  <2> QED BY <1>2, <2>1, <2>2, <2>3 DEF WaitingAt
<1>7. ASSUME NEW r \in Requests, NEW q, Moving(r, q)
      PROVE  waiting' \in [Providers -> Seq(Requests)] /\ WaitingAt'
  <2>1. /\ owner' = [owner EXCEPT ![r] = IF q = NoProvider THEN "gone" ELSE "request"]
        /\ entry' = [entry EXCEPT ![r] = q]
        /\ waiting' \in [Providers -> Seq(Requests)]
        /\ \A p \in Providers : /\ Once(waiting'[p])
                                /\ Elements(waiting'[p]) = (Elements(waiting[p]) \ {r})
                                                             \cup {x \in {r} : p = q}
        /\ manager = "alive" /\ manager' = manager
    BY <1>7 DEF Moving, Moved
  <2>2. /\ owner'[r] = IF q = NoProvider THEN "gone" ELSE "request"
        /\ entry'[r] = q
        /\ \A x \in Requests : x # r => owner'[x] = owner[x] /\ entry'[x] = entry[x]
    BY <1>1, <2>1
  <2>3. ASSUME NEW p \in Providers, NEW x \in Elements(waiting'[p])
        PROVE  entry'[x] = p /\ owner'[x] \in Unfinished
    <3>1. CASE x = r
      <4>1. p = q BY <2>1, <3>1
      <4> QED BY <2>2, <3>1, <4>1, ResourceAssumption DEF Unfinished
    <3>2. CASE x # r
      <4>1. x \in Elements(waiting[p]) BY <2>1, <3>2
      <4> QED BY <1>2, <1>3, <2>2, <3>2, <4>1
    <3> QED BY <3>1, <3>2
  <2>4. \A x \in Requests : owner'[x] = "yet" => entry'[x] = NoProvider BY <1>2, <2>2
  <2> QED BY <2>1, <2>3, <2>4 DEF WaitingAt
<1>8. ASSUME NEW r \in Requests, Passing(r)
      PROVE  waiting' \in [Providers -> Seq(Requests)] /\ WaitingAt'
  <2>1. UNCHANGED <<manager, waiting, entry>> /\ owner[r] = "yet" BY <1>8 DEF Passing
  <2>2. owner'[r] = "gone" /\ \A x \in Requests : x # r => owner'[x] = owner[x]
    BY <1>1, <1>8 DEF Passing
  <2>3. \A p \in Providers : r \notin Elements(waiting[p]) BY <1>2, <2>1 DEF Unfinished
  <2> QED BY <1>1, <1>2, <1>3, <2>1, <2>2, <2>3 DEF WaitingAt
<1>9. ASSUME NEW r \in Requests, Dropping(r)
      PROVE  waiting' \in [Providers -> Seq(Requests)] /\ WaitingAt'
  <2>1. UNCHANGED <<manager, waiting>> /\ manager = "destroyed" BY <1>9 DEF Dropping
  <2>2. /\ owner'[r] = "gone"
        /\ \A x \in Requests : x # r => owner'[x] = owner[x] /\ entry'[x] = entry[x]
    BY <1>1, <1>9 DEF Dropping, Finish
  <2>3. \A p \in Providers : Elements(waiting[p]) = {} BY <1>2, <2>1
  <2> QED BY <1>1, <1>2, <2>1, <2>2, <2>3 DEF WaitingAt
<1> QED BY <1>4, <1>5, <1>6, <1>7, <1>8, <1>9
        DEF Effect, Quiet, Posting, Inserting, Erasing, core

\* What Moved leaves of the lists' members.
LEMMA EntriesPreserved ==
  ASSUME ResourceAssumption, ResourceInv, Effect
  PROVE  EntryAlive' /\ DeletingFor'
<1>1. /\ manager \in {"alive", "destroyed"} /\ deleting \subseteq Providers
      /\ owner \in [Requests -> {"yet", "request", "task", "gone"}]
      /\ entry \in [Requests -> Providers \cup {NoProvider}]
  BY DEF ResourceInv, TypeOK
<1>2. \A p \in Providers :
        /\ Elements(waiting[p]) \subseteq Requests
        /\ \A r \in Elements(waiting[p]) : entry[r] = p /\ owner[r] \in Unfinished
  BY DEF ResourceInv, TypeOK, WaitingAt, Elements
<1>3. \A p \in Elements(list) : p \in Providers BY DEF ResourceInv, TypeOK, Elements
<1>4. \A r \in Requests :
        manager = "alive" /\ owner[r] \in Unfinished =>
          entry[r] \in Elements(list) /\ r \in Elements(waiting[entry[r]])
  BY DEF ResourceInv, EntryAlive, Unfinished
<1>5. \A p \in deleting : /\ p \in Elements(list) /\ Elements(waiting[p]) # {}
                          /\ \A r \in Elements(waiting[p]) : owner[r] = "task"
  BY DEF ResourceInv, DeletingFor
\* The list may grow.
<1>6. ASSUME UNCHANGED <<manager, deleting, waiting, owner, entry>>,
             Elements(list) \subseteq Elements(list')
      PROVE  EntryAlive' /\ DeletingFor'
  BY <1>4, <1>5, <1>6 DEF EntryAlive, DeletingFor, Unfinished
<1>7. ASSUME NEW p \in Providers, Inserting(p) PROVE EntryAlive' /\ DeletingFor'
  <2>1. Insert(p) /\ p \notin Elements(list)
    <3>1. ioTasks # <<>> => Head(ioTasks) = ioTasks[1] /\ 1 \in DOMAIN ioTasks
      BY TaskTypes, TailAt DEF ResourceInv
    <3> QED BY <1>7, <3>1 DEF ResourceInv, ListSorted, Inserting, Adding
  <2>2. Elements(list') = Elements(list) \cup {p}
    BY <2>1, InsertFacts DEF ResourceInv, TypeOK, ListSorted
  <2> QED BY <1>6, <1>7, <2>2 DEF Inserting
<1>8. ASSUME NEW p \in Providers, Erasing(p) PROVE EntryAlive' /\ DeletingFor'
  <2>1. /\ p \notin deleting /\ Elements(waiting[p]) = {} /\ list' = Erase(list, p)
        /\ p \in Elements(list) /\ UNCHANGED <<manager, deleting, waiting, owner, entry>>
    BY <1>8 DEF Erasing, Elements
  <2>2. Elements(list') = Elements(list) \ {p}
    BY <2>1, EraseFacts DEF ResourceInv, TypeOK, ListSorted
  <2> QED BY <1>4, <1>5, <2>1, <2>2 DEF EntryAlive, DeletingFor, Unfinished
<1>9. ASSUME NEW S, NEW D, Giving(S, D) PROVE EntryAlive' /\ DeletingFor'
  <2>1. /\ S \in SUBSET Requests /\ \A r \in S : owner[r] = "request"
        /\ \A r \in Requests : owner'[r] = IF r \in S THEN "task" ELSE owner[r]
        /\ deleting' = deleting \cup D /\ D \subseteq Elements(list)
        /\ \A p \in D : /\ waiting[p] # <<>>
                        /\ \A r \in Elements(waiting[p]) : HasState(r, p) => r \in S
        /\ UNCHANGED <<manager, list, waiting, entry>>
    BY <1>9 DEF Giving
  <2>2. EntryAlive' BY <1>4, <2>1 DEF EntryAlive, Unfinished
  <2>3. ASSUME NEW p \in D
        PROVE  /\ Elements(waiting[p]) # {}
               /\ \A r \in Elements(waiting[p]) : owner'[r] = "task"
    <3>1. p \in Providers /\ waiting[p] # <<>> BY <1>3, <2>1
    <3>2. waiting[p][1] \in Elements(waiting[p])
      <4>1. waiting[p] \in Seq(Requests) BY <3>1 DEF ResourceInv, TypeOK
      <4>2. 1 \in DOMAIN waiting[p] BY <3>1, <4>1, TailAt
      <4> QED BY <4>2 DEF Elements
    <3>3. ASSUME NEW r \in Elements(waiting[p]) PROVE owner'[r] = "task"
      <4>1. r \in Requests /\ entry[r] = p /\ owner[r] \in {"request", "task"}
        BY <1>2, <3>1 DEF Unfinished
      <4> QED BY <2>1, <4>1 DEF HasState
    <3> QED BY <3>2, <3>3
  <2>4. \A p \in deleting : \A r \in Elements(waiting[p]) : owner'[r] = "task"
    BY <1>1, <1>2, <1>5, <2>1
  <2>5. DeletingFor' BY <1>5, <2>1, <2>3, <2>4 DEF DeletingFor
  <2> QED BY <2>2, <2>5
<1>10. ASSUME Destroying PROVE EntryAlive' /\ DeletingFor'
  BY <1>10 DEF Destroying, EntryAlive, DeletingFor
<1>11. ASSUME NEW r \in Requests, Passing(r) PROVE EntryAlive' /\ DeletingFor'
  <2>1. UNCHANGED <<manager, list, deleting, waiting, entry>> /\ owner[r] = "yet" BY <1>11 DEF Passing
  <2>2. owner'[r] = "gone" /\ \A x \in Requests : x # r => owner'[x] = owner[x]
    BY <1>1, <1>11 DEF Passing
  <2>3. \A p \in Providers : r \notin Elements(waiting[p]) BY <1>2, <2>1 DEF Unfinished
  <2>4. EntryAlive' BY <1>4, <2>1, <2>2 DEF EntryAlive, Unfinished
  <2>5. DeletingFor' BY <1>1, <1>2, <1>5, <2>1, <2>2, <2>3 DEF DeletingFor
  <2> QED BY <2>4, <2>5
<1>12. ASSUME NEW r \in Requests, Dropping(r) PROVE EntryAlive' /\ DeletingFor'
  <2>1. manager' = "destroyed" /\ deleting' = deleting BY <1>12 DEF Dropping
  <2>2. deleting = {} BY <1>1, <1>5, <1>12 DEF Dropping, ResourceInv, WaitingAt
  <2> QED BY <2>1, <2>2 DEF EntryAlive, DeletingFor
<1>13. ASSUME NEW r \in Requests, NEW q, Moving(r, q) PROVE EntryAlive' /\ DeletingFor'
  <2>1. PICK p : p = entry[r] OBVIOUS
  <2>2. /\ owner' = [owner EXCEPT ![r] = IF q = NoProvider THEN "gone" ELSE "request"]
        /\ entry' = [entry EXCEPT ![r] = q]
        /\ \A x \in Providers : Elements(waiting'[x]) = (Elements(waiting[x]) \ {r})
                                                          \cup {y \in {r} : x = q}
        /\ deleting' \subseteq deleting
        /\ \/ /\ Elements(list') = Elements(list) /\ deleting' = deleting
              /\ p \in deleting => Elements(waiting[p]) # {r}
           \/ /\ p \in deleting /\ Elements(waiting[p]) = {r}
              /\ Elements(list') = Elements(list) \ {p} /\ deleting' = deleting \ {p}
        /\ q # NoProvider => q \in Providers /\ q \in Elements(list) \ deleting /\ q # p
        /\ manager = "alive"
    BY <1>13, <2>1 DEF Moving, Moved
  <2>3. /\ owner'[r] = IF q = NoProvider THEN "gone" ELSE "request"
        /\ entry'[r] = q
        /\ \A x \in Requests : x # r => owner'[x] = owner[x] /\ entry'[x] = entry[x]
    BY <1>1, <2>2
  <2>4. ASSUME NEW x \in Requests, owner'[x] \in Unfinished
        PROVE  entry'[x] \in Elements(list') /\ x \in Elements(waiting'[entry'[x]])
    <3>1. CASE x = r
      <4>1. q # NoProvider BY <2>3, <2>4, <3>1 DEF Unfinished
      <4>2. q \in Elements(list') BY <2>2, <4>1
      <4>3. r \in Elements(waiting'[q]) BY <2>2, <4>1
      <4> QED BY <2>3, <3>1, <4>2, <4>3
    <3>2. CASE x # r
      <4>1. owner[x] \in Unfinished /\ entry'[x] = entry[x] BY <2>3, <2>4, <3>2
      <4>2. /\ entry[x] \in Elements(list) /\ x \in Elements(waiting[entry[x]])
            /\ entry[x] \in Providers
        BY <1>3, <1>4, <2>2, <4>1
      <4>3. x \in Elements(waiting'[entry[x]]) BY <2>2, <3>2, <4>2
      <4>4. Elements(waiting[p]) = {r} => entry[x] # p BY <3>2, <4>2
      <4>5. entry[x] \in Elements(list') BY <2>2, <4>2, <4>4
      <4> QED BY <4>1, <4>3, <4>5
    <3> QED BY <3>1, <3>2
  <2>5. ASSUME NEW x \in deleting'
        PROVE  /\ x \in Elements(list') /\ Elements(waiting'[x]) # {}
               /\ \A y \in Elements(waiting'[x]) : owner'[y] = "task"
    <3>1. x \in deleting /\ x \in Providers BY <1>1, <2>2
    <3>2. /\ x \in Elements(list) /\ Elements(waiting[x]) # {}
          /\ \A y \in Elements(waiting[x]) : owner[y] = "task" /\ y \in Requests /\ entry[y] = x
      BY <1>2, <1>5, <3>1
    <3>3. x # q
      <4>1. CASE q = NoProvider BY <3>1, <4>1, ResourceAssumption
      <4>2. CASE q # NoProvider BY <2>2, <3>1, <4>2
      <4> QED BY <4>1, <4>2
    <3>4. Elements(waiting'[x]) = Elements(waiting[x]) \ {r} BY <2>2, <3>1, <3>3
    <3>5. Elements(waiting[x]) # {r}
      <4> SUFFICES ASSUME Elements(waiting[x]) = {r} PROVE FALSE OBVIOUS
      <4>1. p = x BY <2>1, <3>2
      <4> QED BY <2>2, <2>5, <4>1
    <3>6. x \in Elements(list')
      <4>1. CASE x = p BY <2>2, <2>5, <3>2, <4>1
      <4>2. CASE x # p BY <2>2, <3>2, <4>2
      <4> QED BY <4>1, <4>2
    <3>7. \A y \in Elements(waiting'[x]) : owner'[y] = "task" BY <2>3, <3>2, <3>4
    <3>8. Elements(waiting'[x]) # {} BY <3>2, <3>4, <3>5
    <3> QED BY <3>6, <3>7, <3>8
  <2>6. EntryAlive' BY <2>4 DEF EntryAlive, Unfinished
  <2>7. DeletingFor' BY <2>5 DEF DeletingFor
  <2> QED BY <2>6, <2>7
<1>14. ASSUME Quiet \/ \E x \in Call \cup Loaded \cup Add \cup Remove : Posting(x)
       PROVE  EntryAlive' /\ DeletingFor'
  BY <1>6, <1>14 DEF Quiet, Posting, core
<1> QED BY <1>7, <1>8, <1>9, <1>10, <1>11, <1>12, <1>13, <1>14 DEF Effect


\* The types of what the effects speak of, ...
LEMMA CoreTypes ==
  ASSUME ResourceAssumption, ResourceInv, Effect
  PROVE  /\ manager' \in {"alive", "destroyed"} /\ deleting' \subseteq Providers
         /\ owner' \in [Requests -> {"yet", "request", "task", "gone"}]
         /\ entry' \in [Requests -> Providers \cup {NoProvider}]
         /\ continued' \in [Requests -> Nat] /\ added' \subseteq Providers
<1>1. /\ manager \in {"alive", "destroyed"} /\ deleting \subseteq Providers
      /\ owner \in [Requests -> {"yet", "request", "task", "gone"}]
      /\ entry \in [Requests -> Providers \cup {NoProvider}]
      /\ continued \in [Requests -> Nat] /\ added \subseteq Providers
  BY DEF ResourceInv, TypeOK
<1> DEFINE Types ==
  /\ manager' \in {"alive", "destroyed"} /\ deleting' \subseteq Providers
  /\ owner' \in [Requests -> {"yet", "request", "task", "gone"}]
  /\ entry' \in [Requests -> Providers \cup {NoProvider}]
  /\ continued' \in [Requests -> Nat] /\ added' \subseteq Providers
<1>2. CASE Quiet \/ Destroying BY <1>1, <1>2 DEF Quiet, Destroying, core
<1>3. ASSUME NEW x \in Call \cup Loaded \cup Add \cup Remove, Posting(x) PROVE Types
  <2>1. added' \subseteq Providers
    <3>1. CASE x.type = "add"
      <4>1. x \in Add BY <3>1 DEF Call, Loaded, Add, Remove
      <4>2. x.provider \in Providers BY <4>1 DEF Add
      <4> QED BY <1>1, <1>3, <3>1, <4>2 DEF Posting
    <3>2. CASE x.type # "add" BY <1>1, <1>3, <3>2 DEF Posting
    <3> QED BY <3>1, <3>2
  <2> QED BY <1>1, <1>3, <2>1 DEF Posting, core
<1>4. ASSUME NEW S \in SUBSET Requests, NEW D \in SUBSET Providers, Giving(S, D) PROVE Types
  BY <1>1, <1>4 DEF Giving
<1>5. ASSUME NEW p \in Providers, Inserting(p) \/ Erasing(p) PROVE Types
  BY <1>1, <1>5 DEF Inserting, Erasing
<1>6. ASSUME NEW r \in Requests, Passing(r) \/ Dropping(r) PROVE Types
  <2>1. CASE Passing(r) BY <1>1, <2>1 DEF Passing
  <2>2. CASE Dropping(r)
    <3>1. continued[r] + 1 \in Nat BY <1>1
    <3>2. /\ owner' = [owner EXCEPT ![r] = "gone"] /\ entry' = [entry EXCEPT ![r] = NoProvider]
          /\ continued' = [continued EXCEPT ![r] = continued[r] + 1]
          /\ UNCHANGED <<manager, deleting, added>>
      BY <2>2 DEF Dropping, Finish
    <3> QED BY <1>1, <3>1, <3>2
  <2> QED BY <1>6, <2>1, <2>2
<1>7. ASSUME NEW r \in Requests, NEW q, Moving(r, q) PROVE Types
  <2>1. /\ owner' = [owner EXCEPT ![r] = IF q = NoProvider THEN "gone" ELSE "request"]
        /\ entry' = [entry EXCEPT ![r] = q] /\ q \in Providers \cup {NoProvider}
        /\ continued' = IF q = NoProvider THEN [continued EXCEPT ![r] = @ + 1] ELSE continued
        /\ deleting' \subseteq deleting /\ UNCHANGED <<manager, added>>
    BY <1>7 DEF Moving, Moved
  <2> QED BY <1>1, <2>1
<1> QED BY <1>2, <1>3, <1>4, <1>5, <1>6, <1>7 DEF Effect

\* ... and of the rest.
RestTypes ==
  /\ handlers \subseteq Requests
  /\ asking \in [request: Requests, provider: Providers] \cup {NotAsking}
  /\ removing \in [selected: SUBSET Providers, at: Nat, answer: {"next", "stop"}, last: BOOLEAN]
  /\ fileTasks \in Seq(FileTask)
  /\ archive \in [Providers -> {"no", "loading", "loaded", "failed"}]
  /\ queued \in [Providers -> Seq(Requests)]
  /\ asked \subseteq Requests \X Providers
  /\ OpensForRequest
rest == <<handlers, asking, removing, fileTasks, archive, queued, asked>>

\* A task posted to the FILE thread that opens a file has its request.
LEMMA FileTaskPosted ==
  ASSUME ResourceInv, NEW x \in FileTask, x.type = "open" => x.request \in Requests,
         fileTasks' = Append(fileTasks, x)
  PROVE  fileTasks' \in Seq(FileTask) /\ OpensForRequest'
<1>1. fileTasks \in Seq(FileTask) /\ OpensForRequest BY DEF ResourceInv, TypeOK
<1>2. PICK n \in Nat : /\ DOMAIN fileTasks' = DOMAIN fileTasks \cup {n} /\ n \notin DOMAIN fileTasks
                       /\ fileTasks'[n] = x
                       /\ \A i \in DOMAIN fileTasks : fileTasks'[i] = fileTasks[i]
  BY <1>1, AppendAt
<1> QED BY <1>1, <1>2 DEF OpensForRequest

\* The types of the rest, step by step.
LEMMA RestPreserved ==
  ASSUME ResourceAssumption, ResourceInv, Next
  PROVE  RestTypes'
<1>1. RestTypes BY DEF ResourceInv, TypeOK, RestTypes
<1>2. ASSUME UNCHANGED rest PROVE RestTypes' BY <1>1, <1>2 DEF RestTypes, rest, OpensForRequest
<1>3. ASSUME UNCHANGED <<fileTasks, archive, queued>>, handlers' \subseteq Requests,
             asking' \in [request: Requests, provider: Providers] \cup {NotAsking},
             UNCHANGED removing, asked' \subseteq Requests \X Providers
      PROVE  RestTypes'
  BY <1>1, <1>3 DEF RestTypes, OpensForRequest
<1>4. ASSUME NEW r, NEW q, Moved(r, q), r \in Requests
      PROVE  /\ asking' \in [request: Requests, provider: Providers] \cup {NotAsking}
             /\ asked' \subseteq Requests \X Providers
  BY <1>4 DEF Moved
<1>5. ASSUME NEW r \in Requests, OnBeforeResourceLoad(r) PROVE RestTypes'
  <2>1. UNCHANGED <<fileTasks, archive, queued, handlers, removing>>
    BY <1>5 DEF OnBeforeResourceLoad, archiveVars
  <2>2. CASE NextValid(1) = NoProvider
    BY <1>2, <1>5, <2>1, <2>2 DEF OnBeforeResourceLoad, rest
  <2>3. CASE NextValid(1) # NoProvider
    <3>1. Moved(r, NextValid(1))
      BY <1>5, <2>3, FirstOfferMoves DEF OnBeforeResourceLoad, ResourceInv
    <3> QED BY <1>1, <1>3, <1>4, <2>1, <3>1 DEF RestTypes
  <2> QED BY <2>2, <2>3
<1>6. ASSUME NEW r \in Requests, GetResourceHandler(r) PROVE RestTypes'
  BY <1>1, <1>6 DEF GetResourceHandler, RestTypes, OpensForRequest, archiveVars
<1>7. ASSUME NEW r \in Requests, MoveOn(r) \/ StopRequest(r), manager = "alive",
             owner[r] \in Unfinished
      PROVE  /\ asking' \in [request: Requests, provider: Providers] \cup {NotAsking}
             /\ asked' \subseteq Requests \X Providers
  BY <1>4, <1>7, MoveOnMoves DEF ResourceInv
<1>8. ASSUME OnRequestFalse PROVE RestTypes'
  <2>1. UNCHANGED <<fileTasks, archive, queued, handlers, removing>>
    BY <1>8 DEF OnRequestFalse, archiveVars
  <2>2. asking.request \in Requests /\ manager = "alive" BY <1>8, AskingFacts DEF OnRequestFalse
  <2>3. CASE HasState(asking.request, asking.provider)
    <3>1. MoveOn(asking.request) /\ owner[asking.request] \in Unfinished
      BY <1>8, <2>3 DEF OnRequestFalse, HasState, Unfinished
    <3> QED BY <1>1, <1>3, <1>7, <2>1, <2>2, <3>1 DEF RestTypes
  <2>4. CASE ~HasState(asking.request, asking.provider)
    <3>1. asking' = NotAsking /\ asked' = asked BY <1>8, <2>4 DEF OnRequestFalse
    <3> QED BY <1>1, <1>3, <2>1, <3>1 DEF RestTypes
  <2> QED BY <2>3, <2>4
<1>9. ASSUME ApplicationTakes \/ ArchiveAnswers PROVE RestTypes'
  BY <1>1, <1>3, <1>9 DEF ApplicationTakes, ArchiveAnswers, RestTypes, archiveVars, requestVars
<1>10. ASSUME DirectoryTakes PROVE RestTypes'
  <2>1. asking.request \in Requests /\ asking.provider \in Providers
    BY <1>10, AskingFacts DEF DirectoryTakes
  <2>2. PICK x : x = [type |-> "open", request |-> asking.request, provider |-> asking.provider]
    OBVIOUS
  <2>3. x \in FileTask /\ (x.type = "open" => x.request \in Requests)
    BY <2>1, <2>2 DEF FileTask
  <2>4. fileTasks' = Append(fileTasks, x) BY <1>10, <2>2 DEF DirectoryTakes
  <2>5. fileTasks' \in Seq(FileTask) /\ OpensForRequest' BY <2>3, <2>4, FileTaskPosted
  <2> QED BY <1>1, <1>10, <2>5 DEF DirectoryTakes, RestTypes, requestVars
<1>11. ASSUME ArchiveQueues PROVE RestTypes'
  <2>1. PICK p \in Providers : p = asking.provider BY <1>11, AskingFacts DEF ArchiveQueues
  <2>2. asking.request \in Requests BY <1>11, AskingFacts DEF ArchiveQueues
  <2>3. PICK x : x = [type |-> "load", request |-> NoRequest, provider |-> p] OBVIOUS
  <2>4. x \in FileTask /\ (x.type = "open" => x.request \in Requests) BY <2>3 DEF FileTask
  <2>5. fileTasks' = fileTasks \/ fileTasks' = Append(fileTasks, x)
    BY <1>11, <2>1, <2>3 DEF ArchiveQueues
  <2>6. fileTasks' \in Seq(FileTask) /\ OpensForRequest'
    BY <1>1, <2>4, <2>5, FileTaskPosted DEF RestTypes, OpensForRequest
  <2>7. Append(queued[p], asking.request) \in Seq(Requests) BY <1>1, <2>2 DEF RestTypes
  <2>8. queued' = [queued EXCEPT ![p] = Append(queued[p], asking.request)]
    BY <1>11, <2>1 DEF ArchiveQueues
  <2>9. queued' \in [Providers -> Seq(Requests)] BY <1>1, <2>7, <2>8 DEF RestTypes
  <2>10. archive' \in [Providers -> {"no", "loading", "loaded", "failed"}]
    BY <1>1, <1>11 DEF ArchiveQueues, RestTypes
  <2> QED BY <1>1, <1>11, <2>6, <2>9, <2>10 DEF ArchiveQueues, RestTypes, requestVars
<1>12. ASSUME NEW selected \in SUBSET Providers, NEW answer \in {"next", "stop"}, NEW last \in BOOLEAN,
              BeginRemove(selected, answer, last)
       PROVE  removing' \in [selected: SUBSET Providers, at: Nat, answer: {"next", "stop"}, last: BOOLEAN]
  BY <1>12 DEF BeginRemove
<1>13. ASSUME removing' \in [selected: SUBSET Providers, at: Nat, answer: {"next", "stop"}, last: BOOLEAN],
              UNCHANGED <<handlers, asking, fileTasks, archive, queued, asked>>
       PROVE  RestTypes'
  BY <1>1, <1>13 DEF RestTypes, OpensForRequest
<1>14. ASSUME Application PROVE RestTypes'
  <2>1. ASSUME NEW r \in Requests, NEW p \in Providers, NEW answer \in Answers, Answer(r, p, answer)
        PROVE  RestTypes'
    BY <1>2, <2>1 DEF Answer, rest, archiveVars
  <2>2. ASSUME NEW x, Post(x) PROVE RestTypes'
    BY <1>2, <2>2 DEF Post, rest, archiveVars, requestVars
  <2>3. ASSUME NEW p \in Providers, AddProvider(p) PROVE RestTypes'
    BY <1>2, <2>3 DEF AddProvider, rest, archiveVars, requestVars
  <2>4. ASSUME NEW selected \in SUBSET Providers, NEW answer \in {"next", "stop"},
               RemoveCall(selected, answer)
        PROVE  RestTypes'
    <3>1. BeginRemove(selected, answer, FALSE) BY <2>4 DEF RemoveCall
    <3>2. UNCHANGED <<handlers, asking, fileTasks, archive, queued, asked>>
      BY <2>4 DEF RemoveCall, archiveVars, requestVars
    <3>3. removing' \in [selected: SUBSET Providers, at: Nat, answer: {"next", "stop"}, last: BOOLEAN]
      BY <2>4, <3>1 DEF BeginRemove
    <3> QED BY <1>13, <3>2, <3>3
  <2>5. ASSUME Destroy PROVE RestTypes'
    BY <1>12, <1>13, <2>5 DEF Destroy, archiveVars, requestVars
  <2>6. \A selected \in Identifiers : selected \in SUBSET Providers BY ResourceAssumption
  <2> QED BY <1>14, <2>1, <2>2, <2>3, <2>4, <2>5, <2>6
          DEF Application, PostAnswer, PostAddProvider, PostRemove
<1>15. ASSUME RemoveLoop PROVE RestTypes'
  <2>1. ASSUME Pass
        PROVE  removing' \in [selected: SUBSET Providers, at: Nat, answer: {"next", "stop"}, last: BOOLEAN]
    <3>1. removing.at + 1 \in Nat BY <1>1 DEF RestTypes
    <3>2. removing' = [removing EXCEPT !.at = removing.at + 1] BY <2>1 DEF Pass
    <3> QED BY <1>1, <3>1, <3>2 DEF RestTypes
  <2>2. NotRemoving \in [selected: SUBSET Providers, at: Nat, answer: {"next", "stop"}, last: BOOLEAN]
    BY DEF NotRemoving
  <2>3. ASSUME SkipProvider \/ DeleteLater PROVE RestTypes'
    BY <1>13, <2>1, <2>3 DEF SkipProvider, DeleteLater, archiveVars, requestVars
  <2>4. ASSUME DeleteNow PROVE RestTypes'
    BY <1>2, <2>4 DEF DeleteNow, archiveVars, requestVars, rest
  <2>5. ASSUME RemoveReturns PROVE RestTypes'
    BY <1>13, <2>2, <2>5 DEF RemoveReturns, archiveVars, requestVars
  <2> QED BY <1>15, <2>3, <2>4, <2>5 DEF RemoveLoop
<1>16. ASSUME RunContinuation PROVE RestTypes'
  <2>1. PICK r \in Requests : r = Head(ioTasks).request
    BY <1>16, NextTaskFacts DEF RunContinuation, Continuation
  <2>2. owner[r] \in Unfinished
    <3>1. /\ ioTasks # <<>> /\ Head(ioTasks).type = "continuation"
          /\ ioTasks[1] = Head(ioTasks) /\ 1 \in DOMAIN ioTasks
      BY <1>16, NextTaskFacts, TaskTypes, TailAt DEF RunContinuation, ResourceInv
    <3> QED BY <2>1, <3>1 DEF ResourceInv, QueuedFor, Continuing, Unfinished
  <2>3. handlers' \subseteq Requests BY <1>1, <1>16, <2>1 DEF RunContinuation, RestTypes
  <2>4. UNCHANGED <<fileTasks, archive, queued, removing>> BY <1>16 DEF RunContinuation, archiveVars
  <2>5. CASE manager = "destroyed"
    <3>1. asking' = asking /\ asked' = asked BY <1>16, <2>5 DEF RunContinuation, Finish
    <3> QED BY <1>1, <1>3, <2>3, <2>4, <3>1 DEF RestTypes
  <2>6. CASE manager # "destroyed"
    <3>1. manager = "alive" BY <2>6 DEF ResourceInv, TypeOK
    <3>2. MoveOn(r) \/ StopRequest(r) BY <1>16, <2>1, <2>6 DEF RunContinuation
    <3> QED BY <1>1, <1>3, <1>7, <2>2, <2>3, <2>4, <3>1, <3>2
  <2> QED BY <2>5, <2>6
<1>17. ASSUME RunCall \/ RunAdd PROVE RestTypes'
  BY <1>2, <1>17 DEF RunCall, RunAdd, archiveVars, requestVars, rest
<1>18. ASSUME RunRemove PROVE RestTypes'
  <2>1. Head(ioTasks) \in Remove BY <1>18, NextTaskFacts DEF RunRemove
  <2>2. Head(ioTasks).selected \in SUBSET Providers /\ Head(ioTasks).answer \in {"next", "stop"}
    BY <2>1 DEF Remove
  <2>3. removing' \in [selected: SUBSET Providers, at: Nat, answer: {"next", "stop"}, last: BOOLEAN]
    <3>1. \/ removing' = removing
          \/ BeginRemove(Head(ioTasks).selected, Head(ioTasks).answer, FALSE)
      BY <1>18 DEF RunRemove
    <3>2. CASE removing' = removing BY <1>1, <3>2 DEF RestTypes
    <3>3. CASE BeginRemove(Head(ioTasks).selected, Head(ioTasks).answer, FALSE)
      BY <2>2, <3>3 DEF BeginRemove
    <3> QED BY <3>1, <3>2, <3>3
  <2> QED BY <1>13, <1>18, <2>3 DEF RunRemove, archiveVars, requestVars
<1>19. ASSUME ArchiveLoaded PROVE RestTypes'
  <2>1. UNCHANGED <<handlers, asking, removing, fileTasks, asked>> BY <1>19 DEF ArchiveLoaded
  <2>2. /\ archive' \in [Providers -> {"no", "loading", "loaded", "failed"}]
        /\ queued' \in [Providers -> Seq(Requests)]
    <3>1. CASE UNCHANGED <<archive, queued>> BY <1>1, <3>1 DEF RestTypes
    <3>2. CASE ContinueQueued(Head(ioTasks))
      <4>1. PICK p, s :
              /\ archive' = [archive EXCEPT ![p] = s] /\ queued' = [queued EXCEPT ![p] = <<>>]
              /\ s \in {"loaded", "failed"}
        <5>1. PICK s : s = IF Head(ioTasks).ok THEN "loaded" ELSE "failed" OBVIOUS
        <5>2. PICK p : p = Head(ioTasks).provider OBVIOUS
        <5>3. archive' = [archive EXCEPT ![p] = s] /\ queued' = [queued EXCEPT ![p] = <<>>]
          BY <3>2, <5>1, <5>2 DEF ContinueQueued
        <5>4. s \in {"loaded", "failed"} BY <5>1
        <5> QED BY <5>3, <5>4
      <4>2. <<>> \in Seq(Requests) OBVIOUS
      <4> QED BY <1>1, <4>1, <4>2 DEF RestTypes
    <3> QED BY <1>19, <3>1, <3>2 DEF ArchiveLoaded
  <2> QED BY <1>1, <2>1, <2>2 DEF RestTypes, OpensForRequest
<1>20. ASSUME RunFileTask PROVE RestTypes'
  <2>1. fileTasks # <<>> /\ fileTasks' = Tail(fileTasks) BY <1>20 DEF RunFileTask
  <2>2. /\ Tail(fileTasks) \in Seq(FileTask)
        /\ \A i \in DOMAIN Tail(fileTasks) : /\ i + 1 \in DOMAIN fileTasks
                                             /\ Tail(fileTasks)[i] = fileTasks[i + 1]
    BY <1>1, <2>1, TailAt DEF RestTypes
  <2>3. fileTasks' \in Seq(FileTask) /\ OpensForRequest'
    BY <1>1, <2>1, <2>2 DEF RestTypes, OpensForRequest
  <2> QED BY <1>1, <1>20, <2>3 DEF RunFileTask, RestTypes, requestVars
<1> QED BY <1>5, <1>6, <1>8, <1>9, <1>10, <1>11, <1>14, <1>15, <1>16, <1>17, <1>18, <1>19, <1>20
        DEF Next, OnRequestReturns, RunIoTask


\* No call is queued that would need the manager.
NoCalls(q) == \A i \in DOMAIN q : q[i].type \notin {"add", "remove"}
\* No call reaches a manager that nobody refers to.
LEMMA CallsGone ==
  ASSUME ResourceInv, Effect, ~Referenced, NoCalls(ioTasks)
  PROVE  NoCalls(ioTasks')
<1>1. CASE Shift
  <2>1. PICK d \in {0, 1} : Shifted(ioTasks, ioTasks', d) BY <1>1 DEF Shift
  <2>2. \A i \in Others(ioTasks') : ioTasks'[i].type \notin {"add", "remove"}
    BY <2>1 DEF Shifted, Others, NoCalls
  <2> QED BY <2>2 DEF Others, NoCalls
<1>2. ASSUME NEW x \in Call \cup Loaded \cup Add \cup Remove, Posting(x)
      PROVE  NoCalls(ioTasks')
  <2>1. /\ x.type \notin {"add", "remove"} /\ ioTasks' = Append(ioTasks, x) /\ x \in Task
        /\ ioTasks \in Seq(Task)
    BY <1>2, TaskTypes DEF Posting, Task, ResourceInv
  <2>2. PICK n \in Nat : /\ DOMAIN ioTasks' = DOMAIN ioTasks \cup {n}
                         /\ ioTasks'[n] = x /\ \A i \in DOMAIN ioTasks : ioTasks'[i] = ioTasks[i]
    BY <2>1, AppendAt
  <2> QED BY <2>1, <2>2 DEF NoCalls
<1> QED BY <1>1, <1>2, QueueEffects

\* The end of the manager: it removes only while it lives, and then for the last time.
LEMMA RemovingPreserved ==
  ASSUME ResourceAssumption, ResourceInv, Next
  PROVE  RemovingAlive'
<1>1. /\ removing = NotRemoving \/ (removing.at > 0 /\ manager = "alive")
      /\ ~Referenced => asking = NotAsking /\ NoCalls(ioTasks)
      /\ manager \in {"alive", "destroyed"}
      /\ removing \in [selected: SUBSET Providers, at: Nat, answer: {"next", "stop"}, last: BOOLEAN]
  BY DEF ResourceInv, RemovingAlive, Referenced, NoCalls, TypeOK
<1>2. NotRemoving.last = FALSE BY DEF NotRemoving
<1> DEFINE Ending == manager' = "destroyed" \/ removing'.last
           Good == /\ removing' = NotRemoving \/ (removing'.at > 0 /\ manager' = "alive")
                   /\ Ending => /\ asking' = NotAsking
                                /\ ~Referenced \/ (NoCalls(ioTasks) /\ UNCHANGED ioTasks)
<1>3. ASSUME UNCHANGED <<manager, removing>>, UNCHANGED asking \/ Referenced PROVE Good
  BY <1>1, <1>3 DEF Referenced
<1>4. ASSUME Idle, manager = "alive" PROVE Referenced BY <1>2, <1>4 DEF Idle, Referenced
<1>5. ASSUME NEW r \in Requests, OnBeforeResourceLoad(r) \/ GetResourceHandler(r) PROVE Good
  BY <1>3, <1>4, <1>5 DEF OnBeforeResourceLoad, GetResourceHandler
<1>6. ASSUME OnRequestReturns PROVE Good
  <2>1. asking # NotAsking /\ UNCHANGED <<manager, removing>>
    BY <1>6 DEF OnRequestReturns, OnRequestFalse, ApplicationTakes, DirectoryTakes, ArchiveQueues,
                ArchiveAnswers
  <2>2. Referenced BY <1>1, <2>1
  <2> QED BY <1>3, <2>1, <2>2
<1>7. ASSUME NEW selected, NEW answer, BeginRemove(selected, answer, FALSE), manager = "alive",
             UNCHANGED manager
      PROVE  Good
  <2>1. removing'.at = 1 /\ removing'.last = FALSE BY <1>7 DEF BeginRemove
  <2> QED BY <1>7, <2>1
<1>8. ASSUME Application PROVE Good
  <2>1. ASSUME NEW selected, NEW answer, RemoveCall(selected, answer) PROVE Good
    BY <1>7, <2>1 DEF RemoveCall
  <2>2. ASSUME Destroy PROVE Good
    <3>1. /\ BeginRemove(Providers, "stop", TRUE) /\ Idle /\ NoCalls(ioTasks)
          /\ manager = "alive" /\ UNCHANGED <<manager, asking, ioTasks>>
      BY <2>2 DEF Destroy, NoCalls
    <3>2. removing'.at = 1 BY <3>1 DEF BeginRemove
    <3> QED BY <3>1, <3>2 DEF Idle
  <2>3. ASSUME NEW x, Post(x) PROVE Good BY <1>3, <2>3 DEF Post
  <2>4. ASSUME NEW r, NEW p, NEW answer, Answer(r, p, answer) PROVE Good
    BY <1>3, <2>4 DEF Answer
  <2>5. ASSUME NEW p, AddProvider(p) PROVE Good BY <1>3, <2>5 DEF AddProvider
  <2> HIDE DEF Good
  <2> QED BY <1>8, <2>1, <2>2, <2>3, <2>4, <2>5
          DEF Application, PostAnswer, PostAddProvider, PostRemove
<1>9. ASSUME RemoveLoop PROVE Good
  <2>1. removing # NotRemoving /\ UNCHANGED <<asking>>
    BY <1>9 DEF RemoveLoop, SkipProvider, DeleteLater, DeleteNow, RemoveReturns, OnEntry
  <2>2. removing.at > 0 /\ manager = "alive" BY <1>1, <2>1
  <2>3. ASSUME Pass, UNCHANGED manager PROVE Good
    <3>1. removing'.at = removing.at + 1 /\ removing'.last = removing.last
      BY <1>1, <2>3 DEF Pass
    <3> QED BY <1>1, <2>1, <2>2, <2>3, <3>1 DEF Referenced
  <2>4. ASSUME RemoveReturns PROVE Good
    <3>1. removing' = NotRemoving /\ (~removing.last => manager' = manager)
      BY <2>4 DEF RemoveReturns
    <3> QED BY <1>1, <1>2, <2>1, <2>2, <3>1 DEF Referenced
  <2>5. ASSUME DeleteNow PROVE Good BY <1>3, <2>5 DEF DeleteNow
  <2> HIDE DEF Good
  <2> QED BY <1>9, <2>3, <2>4, <2>5 DEF RemoveLoop, SkipProvider, DeleteLater
<1>10. ASSUME RunIoTask PROVE Good
  <2>1. ASSUME RunContinuation PROVE Good
    <3>1. UNCHANGED <<manager, removing>> /\ Idle BY <2>1 DEF RunContinuation, NextTask
    <3>2. CASE manager = "destroyed" BY <1>3, <2>1, <3>1, <3>2 DEF RunContinuation
    <3>3. CASE manager # "destroyed" BY <1>1, <1>3, <1>4, <3>1, <3>3
    <3> QED BY <3>2, <3>3
  <2>2. ASSUME RunRemove PROVE Good
    <3>1. Idle /\ ioTasks # <<>> /\ Head(ioTasks).type = "remove" /\ UNCHANGED <<manager, asking>>
      BY <2>2 DEF RunRemove, NextTask
    <3>2. Head(ioTasks) = ioTasks[1] /\ 1 \in DOMAIN ioTasks
      BY <3>1, TaskTypes, TailAt DEF ResourceInv
    <3>3. Referenced BY <1>1, <3>1, <3>2 DEF NoCalls
    <3>4. \/ UNCHANGED removing
          \/ BeginRemove(Head(ioTasks).selected, Head(ioTasks).answer, FALSE)
      BY <2>2 DEF RunRemove
    <3> HIDE DEF Good
    <3> QED BY <1>3, <1>7, <3>1, <3>3, <3>4 DEF Referenced
  <2>3. ASSUME RunCall \/ RunAdd \/ ArchiveLoaded PROVE Good
    BY <1>3, <2>3 DEF RunCall, RunAdd, ArchiveLoaded
  <2> HIDE DEF Good
  <2> QED BY <1>10, <2>1, <2>2, <2>3 DEF RunIoTask
<1>11. ASSUME RunFileTask PROVE Good BY <1>3, <1>11 DEF RunFileTask
<1>12. Good
  <2> HIDE DEF Good
  <2> QED BY <1>5, <1>6, <1>8, <1>9, <1>10, <1>11 DEF Next
<1>13. Ending => NoCalls(ioTasks')
  <2> SUFFICES ASSUME Ending PROVE NoCalls(ioTasks') OBVIOUS
  <2>1. CASE ~Referenced BY <1>1, <2>1, CallsGone, NextEffects
  <2>2. CASE NoCalls(ioTasks) /\ UNCHANGED ioTasks BY <2>2
  <2> QED BY <1>12, <2>1, <2>2
<1> QED BY <1>12, <1>13 DEF RemovingAlive, NoCalls

-----------------------------------------------------------------------------
(***************************************************************************)
(* The theorems.                                                           *)
(***************************************************************************)
\* The invariant holds at first, ...
LEMMA InvInit ==
  ASSUME ResourceAssumption, Init
  PROVE  ResourceInv
<1>1. TypeOK BY DEF Init, TypeOK, NotAsking, NotRemoving
<1>2. list = <<>> /\ ioTasks = <<>> /\ fileTasks = <<>> /\ removing = NotRemoving /\ asking = NotAsking
  BY DEF Init
<1>3. ListSorted BY <1>2 DEF ListSorted, Once, Ascending, Elements, Adding
<1>4. OpensForRequest /\ RemovingAlive BY <1>2 DEF OpensForRequest, RemovingAlive
<1>5. /\ \A p \in Providers : waiting[p] = <<>> /\ Once(waiting[p]) /\ Elements(waiting[p]) = {}
      /\ \A r \in Requests : owner[r] = "yet" /\ entry[r] = NoProvider /\ continued[r] = 0
      /\ deleting = {}
  BY DEF Init, Once, Elements
<1>6. WaitingAt /\ EntryAlive /\ DeletingFor /\ ContinuedOnce
  <2>1. WaitingAt BY <1>5 DEF WaitingAt
  <2>2. EntryAlive BY <1>5 DEF EntryAlive
  <2>3. DeletingFor BY <1>5 DEF DeletingFor
  <2>4. ContinuedOnce BY <1>5 DEF ContinuedOnce
  <2> QED BY <2>1, <2>2, <2>3, <2>4
<1>7. QueuedFor(ioTasks, owner) BY <1>2, <1>5 DEF QueuedFor, Continuing
<1> QED BY <1>1, <1>3, <1>4, <1>6, <1>7 DEF ResourceInv

\* ... every step keeps it, ...
LEMMA InvNext ==
  ASSUME ResourceAssumption, ResourceInv, [Next]_vars
  PROVE  ResourceInv'
<1>1. CASE Next
  <2>1. Effect BY <1>1, NextEffects
  <2>2. ioTasks' \in Seq(Call \cup Continuation \cup Loaded \cup Add \cup Remove)
    BY <2>1, QueueEffects DEF Task
  <2>3. TypeOK' /\ OpensForRequest'
    BY <1>1, <2>1, <2>2, CoreTypes, RestPreserved, ListPreserved, WaitingPreserved
       DEF TypeOK, RestTypes
  <2>4. QueuedFor(ioTasks, owner)' BY <2>1, QueuedPreserved
  <2> QED BY <1>1, <2>1, <2>3, <2>4, ListPreserved, WaitingPreserved, EntriesPreserved,
             ContinuedPreserved, RemovingPreserved DEF ResourceInv
<1>2. CASE UNCHANGED vars
  <2>1. UNCHANGED <<manager, owner, entry, continued, handlers, list, deleting, waiting, archive, queued,
                    fileTasks, asking, removing, ioTasks, asked, added>>
    BY <1>2 DEF vars, requestVars, providerVars, archiveVars
  <2>2. TypeOK' BY <2>1 DEF ResourceInv, TypeOK
  <2>3. OpensForRequest' /\ RemovingAlive' BY <2>1 DEF ResourceInv, OpensForRequest, RemovingAlive
  <2>4. ListSorted' BY <2>1 DEF ResourceInv, ListSorted, Adding
  <2>5. WaitingAt' /\ EntryAlive' /\ DeletingFor'
    BY <2>1 DEF ResourceInv, WaitingAt, EntryAlive, DeletingFor
  <2>6. QueuedFor(ioTasks, owner)' /\ ContinuedOnce' BY <2>1 DEF ResourceInv, ContinuedOnce
  <2> QED BY <2>2, <2>3, <2>4, <2>5, <2>6 DEF ResourceInv
<1> QED BY <1>1, <1>2

\* ... so it always holds.
LEMMA InvHolds ==
  ASSUME ResourceAssumption
  PROVE  Spec => []ResourceInv
<1>1. Init => ResourceInv BY InvInit
<1>2. ResourceInv /\ [Next]_vars => ResourceInv' BY InvNext
<1> QED BY <1>1, <1>2, PTL DEF Spec

\* Type correctness of the manager, its providers, and the tasks of its threads.
THEOREM TypeCorrect == Spec => []TypeOK
<1>1. ResourceInv => TypeOK BY DEF ResourceInv
<1> QED BY <1>1, InvHolds, ResourceAssumption, PTL

\* The state of each request is in one place, whatever asks for it, and is deleted once: the
\* callback that continues the request in the browser is executed at most once.
THEOREM OneOwner == Spec => []StateInOnePlace
<1>1. ResourceInv => StateInOnePlace
  <2> SUFFICES ASSUME ResourceInv, NEW r \in Requests
               PROVE  /\ Continuations(r) = IF owner[r] = "task" THEN 1 ELSE 0
                      /\ continued[r] <= IF owner[r] = "gone" THEN 1 ELSE 0
    BY DEF StateInOnePlace
  <2>1. PICK C : C = {i \in DOMAIN ioTasks :
                        ioTasks[i].type = "continuation" /\ ioTasks[i].request = r}
    OBVIOUS
  <2>2. Continuations(r) = Cardinality(C) BY <2>1 DEF Continuations
  <2>3. QueuedFor(ioTasks, owner) BY DEF ResourceInv
  <2>4. CASE owner[r] = "task"
    <3>1. PICK i \in Continuing(ioTasks) : ioTasks[i].request = r BY <2>3, <2>4 DEF QueuedFor
    <3>2. C = {i} BY <2>1, <2>3, <3>1 DEF QueuedFor, Continuing
    <3>3. Cardinality(C) = 1 BY <3>2, FS_Singleton
    <3> QED BY <2>2, <2>4, <3>3 DEF ResourceInv, ContinuedOnce
  <2>5. CASE owner[r] # "task"
    <3>1. C = {} BY <2>1, <2>3, <2>5 DEF QueuedFor, Continuing
    <3>2. Cardinality(C) = 0 BY <3>1, FS_EmptySet
    <3> QED BY <2>2, <2>5, <3>2 DEF ResourceInv, ContinuedOnce
  <2> QED BY <2>4, <2>5
<1> QED BY <1>1, InvHolds, ResourceAssumption, PTL

\* An entry of the list outlives the requests that are at it: the position a request's state
\* keeps is valid until it leaves, through every addition and removal of providers.
THEOREM PositionsValid == Spec => []EntryAlive
<1>1. ResourceInv => EntryAlive BY DEF ResourceInv
<1> QED BY <1>1, InvHolds, ResourceAssumption, PTL

\* A provider whose deletion is pending is still in the list and waits for requests, each of
\* which is on its way out: no deletion is left pending for nobody. This needs no assumption that
\* a provider is removed once.
THEOREM DeletionsWait == Spec => []DeletingWaits
<1>1. ResourceInv => DeletingWaits
  <2> SUFFICES ASSUME ResourceInv, NEW p \in deleting
               PROVE  /\ p \in Elements(list) /\ waiting[p] # <<>>
                      /\ \A i \in DOMAIN waiting[p] : owner[waiting[p][i]] = "task"
    BY DEF DeletingWaits
  <2>1. /\ p \in Elements(list) /\ Elements(waiting[p]) # {}
        /\ \A r \in Elements(waiting[p]) : owner[r] = "task"
    BY DEF ResourceInv, DeletingFor
  <2> QED BY <2>1 DEF Elements
<1> QED BY <1>1, InvHolds, ResourceAssumption, PTL

\* A request is offered to providers in ascending order, and to none that is being deleted.
THEOREM OffersInOrder == Spec => MovesForward
<1> DEFINE Forward ==
      \A r \in Requests :
        entry'[r] # entry[r] /\ entry'[r] # NoProvider =>
          /\ entry'[r] \notin deleting
          /\ entry[r] # NoProvider => Order[entry[r]] <= Order[entry'[r]]
<1>1. ResourceInv /\ [Next]_vars => [Forward]_vars
  <2> SUFFICES ASSUME ResourceInv, Next PROVE Forward OBVIOUS
  <2>1. Effect BY NextEffects, ResourceAssumption
  <2>2. entry \in [Requests -> Providers \cup {NoProvider}] BY DEF ResourceInv, TypeOK
  <2>3. ASSUME UNCHANGED entry PROVE Forward BY <2>3
  <2>4. ASSUME NEW r \in Requests, Dropping(r) PROVE Forward
    <3>1. entry' = [entry EXCEPT ![r] = NoProvider] BY <2>4 DEF Dropping, Finish
    <3> QED BY <2>2, <3>1
  <2>5. ASSUME NEW r \in Requests, NEW q, Moving(r, q) PROVE Forward
    <3>1. /\ entry' = [entry EXCEPT ![r] = q]
          /\ q # NoProvider => /\ q \notin deleting
                               /\ entry[r] # NoProvider => Order[entry[r]] <= Order[q]
      BY <2>5 DEF Moving, Moved
    <3> QED BY <2>2, <3>1
  <2> HIDE DEF Forward
  <2> QED BY <2>1, <2>3, <2>4, <2>5
          DEF Effect, Quiet, Destroying, Posting, Giving, Inserting, Erasing, Passing, core
<1> QED BY <1>1, InvHolds, ResourceAssumption, PTL DEF Spec, MovesForward
=============================================================================
