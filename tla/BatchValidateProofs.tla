-------------------------- MODULE BatchValidateProofs --------------------------
(* What is proved of a batch (BatchValidate), for every set of lists, threads,
   pull requests and bounds:
     - every request of a batch that returned has exactly one result;
     - a batch in the mode refresh uses nothing older than itself;
     - outside of it, what a batch before has saved is used.
   The inductive invariant has seven parts: types, the places of the main thread,
   the account of the requests, what there was at the start, the indexes, and
   one part for each of the last two properties.                              *)
EXTENDS BatchValidate, FiniteSetTheorems, WellFoundedInduction, TLAPS

-------------------------------------------------------------------------------
(* The places of a sequence of results, after the first k, with a number.  *)
Places(s, k, n) == {i \in DOMAIN s : i > k /\ s[i].number = n}

(* Such places are finitely many.                                            *)
LEMMA PlacesFinite ==
  ASSUME NEW T, NEW s \in Seq(T), NEW k, NEW n
  PROVE  IsFiniteSet(Places(s, k, n)) /\ Cardinality(Places(s, k, n)) \in Nat
<1>1. Len(s) \in Nat /\ DOMAIN s = 1..Len(s)
  OBVIOUS
<1>2. Places(s, k, n) \in SUBSET (1..Len(s))
  BY <1>1 DEF Places
<1>3. IsFiniteSet(1..Len(s))
  BY <1>1, FS_Interval
<1> QED
  BY <1>2, <1>3, FS_Subset, FS_CardinalityType

(* One more result.                                                        *)
LEMMA CountAppend ==
  ASSUME NEW T, NEW s \in Seq(T), NEW r \in T, NEW k \in 0..Len(s), NEW n
  PROVE  Cardinality(Places(Append(s, r), k, n)) =
           Cardinality(Places(s, k, n)) + (IF r.number = n THEN 1 ELSE 0)
<1> DEFINE t == Append(s, r)
           e == Len(s) + 1
<1>1. /\ Len(s) \in Nat /\ DOMAIN s = 1..Len(s) /\ DOMAIN t = 1..e
      /\ t[e] = r /\ \A i \in 1..Len(s) : t[i] = s[i]
      /\ e > k /\ e \notin 1..Len(s)
  OBVIOUS
<1> HIDE DEF t
<1>2. CASE r.number = n
  <2>1. Places(t, k, n) = Places(s, k, n) \cup {e}
    BY <1>1, <1>2 DEF Places
  <2>2. e \notin Places(s, k, n)
    BY <1>1 DEF Places
  <2>3. IsFiniteSet(Places(s, k, n))
    BY PlacesFinite
  <2>4. Cardinality(Places(s, k, n) \cup {e}) = Cardinality(Places(s, k, n)) + 1
    BY <2>2, <2>3, FS_AddElement
  <2> QED
    BY <1>2, <2>1, <2>4 DEF t
<1>3. CASE r.number # n
  <2>1. Places(t, k, n) = Places(s, k, n)
    BY <1>1, <1>3 DEF Places
  <2>2. Cardinality(Places(s, k, n)) \in Nat
    BY PlacesFinite
  <2> QED
    BY <1>3, <2>1, <2>2 DEF t
<1> QED
  BY <1>2, <1>3

(* One result less, at the head: the others move down by one place.        *)
LEMMA CountTail ==
  ASSUME NEW T, NEW s \in Seq(T), s # <<>>, NEW n
  PROVE  Cardinality(Places(s, 0, n)) =
           Cardinality(Places(Tail(s), 0, n)) + (IF Head(s).number = n THEN 1 ELSE 0)
<1> DEFINE t == Tail(s)
           Q == Places(s, 0, n) \ {1}
           f == [i \in Places(t, 0, n) |-> i + 1]
<1>1. /\ Len(s) \in Nat /\ Len(s) > 0 /\ DOMAIN s = 1..Len(s)
      /\ t \in Seq(T) /\ Len(t) = Len(s) - 1 /\ DOMAIN t = 1..(Len(s) - 1)
      /\ Head(s) = s[1] /\ \A i \in 1..(Len(s) - 1) : t[i] = s[i + 1]
  OBVIOUS
<1> HIDE DEF t
<1>2. Places(t, 0, n) \subseteq 1..(Len(s) - 1)
  BY <1>1 DEF Places
<1>3. f \in Injection(Places(t, 0, n), Q)
  <2>1. \A i \in Places(t, 0, n) : i + 1 \in Q
    BY <1>1, <1>2 DEF Places
  <2>2. \A i, j \in Places(t, 0, n) : i + 1 = j + 1 => i = j
    BY <1>1, <1>2
  <2> QED
    BY <2>1, <2>2 DEF Injection, IsInjective
<1>4. \A j \in Q : \E i \in Places(t, 0, n) : f[i] = j
  <2> SUFFICES ASSUME NEW j \in Q PROVE j - 1 \in Places(t, 0, n) /\ f[j - 1] = j
    OBVIOUS
  <2>1. j \in 2..Len(s) /\ s[j].number = n
    BY <1>1 DEF Places
  <2>2. j - 1 \in 1..(Len(s) - 1) /\ (j - 1) + 1 = j
    BY <1>1, <2>1
  <2>3. t[j - 1] = s[j]
    BY <1>1, <2>2
  <2> QED
    BY <1>1, <2>1, <2>2, <2>3 DEF Places
<1>5. f \in Bijection(Places(t, 0, n), Q)
  BY <1>3, <1>4 DEF Bijection, Surjection, Injection
<1>6. IsFiniteSet(Places(t, 0, n)) /\ IsFiniteSet(Places(s, 0, n))
      /\ Cardinality(Places(t, 0, n)) \in Nat /\ Cardinality(Places(s, 0, n)) \in Nat
  BY <1>1, PlacesFinite
<1>7. Cardinality(Q) = Cardinality(Places(t, 0, n))
  BY <1>5, <1>6, FS_Bijection DEF ExistsBijection
<1>8. 1 \in Places(s, 0, n) <=> Head(s).number = n
  BY <1>1 DEF Places
<1>9. Cardinality(Q) = IF 1 \in Places(s, 0, n) THEN Cardinality(Places(s, 0, n)) - 1
                       ELSE Cardinality(Places(s, 0, n))
  BY <1>6, FS_RemoveElement
<1> HIDE DEF Q
<1> QED
  BY <1>6, <1>7, <1>8, <1>9 DEF t

(* Members of a finite set that leave it, or join it, one at a time.       *)
LEMMA CountOut ==
  ASSUME NEW S, IsFiniteSet(S), NEW x \in S
  PROVE  Cardinality(S) = Cardinality(S \ {x}) + 1
<1>1. Cardinality(S) \in Nat /\ Cardinality(S \ {x}) = Cardinality(S) - 1
  BY FS_CardinalityType, FS_RemoveElement
<1> QED
  BY <1>1

(* A set with one member more.                                               *)
LEMMA CountIn ==
  ASSUME NEW S, IsFiniteSet(S), NEW x, x \notin S
  PROVE  Cardinality(S \cup {x}) = Cardinality(S) + 1
  BY FS_AddElement
-------------------------------------------------------------------------------
(* Induction, of a set of numbers: what holds for 0 and goes on holds for all. *)
LEMMA Induction ==
  ASSUME NEW S, 0 \in S, \A n \in Nat : n \in S => n + 1 \in S
  PROVE  Nat \subseteq S
<1> SUFFICES ASSUME Nat \ S # {} PROVE FALSE
  OBVIOUS
<1> DEFINE R == {pair \in Nat \X Nat : pair[1] < pair[2]}
<1>1. IsWellFoundedOn(R, Nat)
  BY NatLessThanWellFounded, Zenon DEF OpToRel
<1>2. PICK n \in Nat \ S : \A m \in Nat \ S : ~ (<<m, n>> \in R)
  <2>1. Nat \ S \subseteq Nat
    OBVIOUS
  <2> HIDE DEF R
  <2> QED
    BY <1>1, <2>1, WFMin, Zenon
<1>3. n # 0 /\ n - 1 \in Nat /\ n - 1 < n
  OBVIOUS
<1>4. n - 1 \in S
  BY <1>2, <1>3
<1> QED
  BY <1>3, <1>4

(* upto[n] is what of the first n requests of l has no result yet.         *)
Follows(upto, l, done, m) ==
  \A n \in 0..m :
    upto[n] = IF n = 0 THEN <<>>
              ELSE IF Number[l[n]] \in done THEN upto[n - 1] ELSE Append(upto[n - 1], l[n])

(* Such a function is found for every length.                              *)
LEMMA UptoExists ==
  ASSUME NEW l \in Seq(Prs), NEW done
  PROVE  \E upto \in [0..Len(l) -> Seq(Prs)] : Follows(upto, l, done, Len(l))
<1> DEFINE Good == {m \in Nat : m <= Len(l) => \E f \in [0..m -> Seq(Prs)] : Follows(f, l, done, m)}
<1>1. 0 \in Good
  <2> DEFINE f == [n \in 0..0 |-> <<>>]
  <2>1. f \in [0..0 -> Seq(Prs)] /\ Follows(f, l, done, 0)
    BY DEF Follows
  <2> HIDE DEF f
  <2> QED
    BY <2>1
<1>2. ASSUME NEW m \in Nat, m \in Good PROVE m + 1 \in Good
  <2> SUFFICES ASSUME m + 1 <= Len(l)
               PROVE  \E f \in [0..(m + 1) -> Seq(Prs)] : Follows(f, l, done, m + 1)
    OBVIOUS
  <2>1. Len(l) \in Nat /\ m <= Len(l) /\ m + 1 \in 1..Len(l)
    OBVIOUS
  <2>2. PICK f \in [0..m -> Seq(Prs)] : Follows(f, l, done, m)
    BY <1>2, <2>1
  <2> DEFINE last == IF Number[l[m + 1]] \in done THEN f[m] ELSE Append(f[m], l[m + 1])
             g == [n \in 0..(m + 1) |-> IF n = m + 1 THEN last ELSE f[n]]
  <2>3. l[m + 1] \in Prs /\ f[m] \in Seq(Prs)
    BY <2>1, <2>2
  <2>4. last \in Seq(Prs)
    BY <2>3
  <2> HIDE DEF last
  <2>5. g \in [0..(m + 1) -> Seq(Prs)]
    BY <2>2, <2>4
  <2>6. g[m + 1] = last /\ \A n \in 0..m : g[n] = f[n]
    OBVIOUS
  <2> HIDE DEF g
  <2>7. ASSUME NEW n \in 0..(m + 1)
        PROVE  g[n] = IF n = 0 THEN <<>>
                      ELSE IF Number[l[n]] \in done THEN g[n - 1] ELSE Append(g[n - 1], l[n])
    <3>1. CASE n = m + 1
      BY <2>6, <3>1 DEF last
    <3>2. CASE n \in 1..m
      <4>1. n \in 0..m /\ n - 1 \in 0..m /\ n # 0
        BY <3>2
      <4>2. f[n] = IF Number[l[n]] \in done THEN f[n - 1] ELSE Append(f[n - 1], l[n])
        BY <2>2, <4>1 DEF Follows
      <4>3. g[n] = f[n] /\ g[n - 1] = f[n - 1]
        BY <2>6, <4>1
      <4> QED
        BY <4>1, <4>2, <4>3
    <3>3. CASE n = 0
      BY <2>2, <2>6, <3>3 DEF Follows
    <3> QED
      BY <3>1, <3>2, <3>3
  <2> QED
    BY <2>5, <2>7 DEF Follows
<1>3. Nat \subseteq Good
  <2> HIDE DEF Good
  <2> QED
    BY <1>1, <1>2, Induction
<1> QED
  BY <1>3

(* The requests of the list without a result are all among the pending.    *)
LEMMA PendingIsTheRest ==
  ASSUME list \in Seq(Prs), NEW done
  PROVE  /\ PendingAfter(done) \in Seq(Prs)
         /\ \A i \in 1..Len(list) : Number[list[i]] \notin done =>
               \E j \in 1..Len(PendingAfter(done)) : PendingAfter(done)[j] = list[i]
<1> DEFINE Eq(g) == g = [n \in 0..Len(list) |->
                          IF n = 0 THEN <<>>
                          ELSE IF Number[list[n]] \in done THEN g[n - 1]
                          ELSE Append(g[n - 1], list[n])]
           upto == CHOOSE g : Eq(g)
<1>1. \E g : Eq(g)
  <2>1. PICK g \in [0..Len(list) -> Seq(Prs)] : Follows(g, list, done, Len(list))
    BY UptoExists
  <2>2. Eq(g)
    BY <2>1 DEF Follows
  <2> QED
    BY <2>2
<1>2. Eq(upto)
  BY <1>1
<1>3. PendingAfter(done) = upto[Len(list)]
  BY DEF PendingAfter
<1>4. Len(list) \in Nat
  OBVIOUS
<1> HIDE DEF upto
<1>5. Follows(upto, list, done, Len(list))
  BY <1>2 DEF Follows
<1> DEFINE Rest(n) ==
             /\ upto[n] \in Seq(Prs)
             /\ \A i \in 1..n : Number[list[i]] \notin done =>
                   \E j \in 1..Len(upto[n]) : upto[n][j] = list[i]
           Good == {n \in Nat : n <= Len(list) => Rest(n)}
<1>6. 0 \in Good
  <2>1. upto[0] = <<>>
    BY <1>4, <1>5 DEF Follows
  <2>2. upto[0] \in Seq(Prs) /\ 1..0 = {}
    BY <2>1
  <2>3. Rest(0)
    BY <2>2
  <2> HIDE DEF Rest
  <2> QED
    BY <2>3
<1>7. ASSUME NEW n \in Nat, n \in Good PROVE n + 1 \in Good
  <2> SUFFICES ASSUME n + 1 <= Len(list) PROVE Rest(n + 1)
    OBVIOUS
  <2>1. n + 1 \in 1..Len(list) /\ n + 1 \in 0..Len(list) /\ n + 1 # 0 /\ (n + 1) - 1 = n /\ Rest(n)
    BY <1>4, <1>7
  <2>2. upto[n + 1] = IF Number[list[n + 1]] \in done THEN upto[n]
                      ELSE Append(upto[n], list[n + 1])
    BY <1>5, <2>1 DEF Follows
  <2>3. list[n + 1] \in Prs
    BY <2>1
  <2>4. CASE Number[list[n + 1]] \in done
    <3>1. upto[n + 1] = upto[n]
      BY <2>2, <2>4
    <3> QED
      BY <2>1, <2>4, <3>1
  <2>5. CASE Number[list[n + 1]] \notin done
    <3> DEFINE a == upto[n]
               b == upto[n + 1]
    <3>1. b = Append(a, list[n + 1]) /\ a \in Seq(Prs)
      BY <2>1, <2>2, <2>5
    <3> HIDE DEF a, b
    <3>2. /\ b \in Seq(Prs) /\ Len(b) = Len(a) + 1 /\ Len(a) \in Nat
          /\ b[Len(a) + 1] = list[n + 1] /\ \A j \in 1..Len(a) : b[j] = a[j]
      BY <2>3, <3>1
    <3>3. ASSUME NEW i \in 1..(n + 1), Number[list[i]] \notin done
          PROVE  \E j \in 1..Len(b) : b[j] = list[i]
      <4>1. CASE i = n + 1
        BY <3>2, <4>1
      <4>2. CASE i \in 1..n
        <5>1. PICK j \in 1..Len(a) : a[j] = list[i]
          BY <2>1, <3>3, <4>2 DEF a
        <5>2. j \in 1..Len(b) /\ b[j] = list[i]
          BY <3>2, <5>1
        <5> QED
          BY <5>2
      <4> QED
        BY <4>1, <4>2
    <3> QED
      BY <3>2, <3>3 DEF b
  <2> QED
    BY <2>4, <2>5
<1>8. Nat \subseteq Good
  <2> HIDE DEF Good
  <2> QED
    BY <1>6, <1>7, Induction
<1> QED
  BY <1>3, <1>4, <1>8
-------------------------------------------------------------------------------
(* The results, the states of a thread, and which threads have a request.    *)
Result ==
  [number : Numbers, status : {"error"}]
    \cup [number : Numbers, status : {"ok"}, of : Prs, version : Versions,
          index : [Kinds -> Snapshots \cup {NoIndex}]]

WorkerStates ==
  {Idle} \cup [pc : {"get", "fetch"}, pr : Prs]
         \cup [pc : {"put", "resolve", "save"}, pr : Prs, version : Versions]

IsBusy(w) == worker[w].pc # "idle"

Busy == {w \in Workers : IsBusy(w)}

(* The types, with those that TypeOK leaves open; an answer that is whole  *)
(* is a success, and of its number.                                        *)
TypeInv ==
  /\ CacheTypeOK /\ IndexTypeOK
  /\ phase \in Phases /\ mode \in Modes /\ list \in Lists \cup {<<>>} /\ runs \in 0..MaxRuns
  /\ results \in Seq(Result) /\ kept \in 0..Len(results)
  /\ pending \in Seq(Prs) /\ next \in 1..(Len(pending) + 1) /\ completed \in Nat
  /\ worker \in [Workers -> WorkerStates]
  /\ finished \in Seq(Result)
  /\ DOMAIN answers = Numbers
  /\ \A n \in Numbers : answers[n].file = "whole" =>
        /\ answers[n].result \in Result
        /\ answers[n].result.number = n
        /\ IsOk(answers[n].result)
  /\ output.file = "whole" => output.results \in Seq(Result)
  /\ events \in 0..MaxEvents

(* What a step of a thread does to its request: it goes on with it, ends   *)
(* it with a result, begins the next one, or has an answer to it at once.  *)
Moves(w, x) ==
  /\ IsBusy(w) /\ x \in WorkerStates /\ x.pc # "idle" /\ x.pr = worker[w].pr
  /\ worker' = [worker EXCEPT ![w] = x] /\ finished' = finished /\ next' = next

Ends(w, r) ==
  /\ IsBusy(w) /\ r \in Result /\ r.number = NumberOf(w)
  /\ worker' = [worker EXCEPT ![w] = Idle] /\ finished' = Append(finished, r) /\ next' = next

Begins(w) ==
  /\ ~ IsBusy(w) /\ next <= Len(pending) /\ next' = next + 1
  /\ worker' = [worker EXCEPT ![w] = [pc |-> "get", pr |-> pending[next]]]
  /\ finished' = finished

Answers(w, r) ==
  /\ ~ IsBusy(w) /\ next <= Len(pending) /\ next' = next + 1
  /\ worker' = worker
  /\ r \in Result /\ r.number = Number[pending[next]]
  /\ finished' = Append(finished, r)

(* The parts of a result, of an error and of a success.                      *)
LEMMA ResultNumber ==
  ASSUME NEW r \in Result
  PROVE  r.number \in Numbers
  BY DEF Result

LEMMA ErrorType ==
  ASSUME NEW n \in Numbers
  PROVE  Error(n) \in Result /\ Error(n).number = n /\ ~ IsOk(Error(n))
  BY DEF Error, Result, IsOk

LEMMA OkType ==
  ASSUME IndexTypeOK, NEW n \in Numbers, NEW pr \in Prs, NEW version \in Versions
  PROVE  /\ Ok(n, pr, version) \in Result /\ Ok(n, pr, version).number = n
         /\ IsOk(Ok(n, pr, version))
  BY DEF Ok, Result, IsOk, IndexTypeOK

(* A thread that is not idle has a request.                                *)
LEMMA BusyType ==
  ASSUME TypeInv, NEW w \in Workers
  PROVE  /\ ~ IsBusy(w) <=> worker[w] = Idle
         /\ IsBusy(w) => worker[w].pr \in Prs /\ NumberOf(w) \in Numbers
         /\ worker[w].pc \in {"put", "resolve", "save"} => worker[w].version \in Versions
<1>1. worker[w] \in WorkerStates
  BY DEF TypeInv
<1>2. Idle.pc = "idle"
  BY DEF Idle
<1>3. CASE worker[w] = Idle
  BY <1>2, <1>3 DEF IsBusy
<1>4. CASE worker[w] \in [pc : {"get", "fetch"}, pr : Prs]
  <2>1. worker[w].pc \in {"get", "fetch"} /\ worker[w].pr \in Prs
    BY <1>4
  <2> QED
    BY <1>2, <2>1 DEF IsBusy, NumberOf, Numbers
<1>5. CASE worker[w] \in [pc : {"put", "resolve", "save"}, pr : Prs, version : Versions]
  <2>1. /\ worker[w].pc \in {"put", "resolve", "save"} /\ worker[w].pr \in Prs
        /\ worker[w].version \in Versions
    BY <1>5
  <2> QED
    BY <1>2, <2>1 DEF IsBusy, NumberOf, Numbers
<1> QED
  BY <1>1, <1>3, <1>4, <1>5 DEF WorkerStates

(* What a thread is once it goes on, by the place it is at.                *)
LEMMA StateTypes ==
  ASSUME NEW pr \in Prs, NEW version \in Versions
  PROVE  /\ \A pc \in {"get", "fetch"} :
              /\ [pc |-> pc, pr |-> pr] \in WorkerStates
              /\ [pc |-> pc, pr |-> pr].pc = pc /\ [pc |-> pc, pr |-> pr].pr = pr
         /\ \A pc \in {"put", "resolve", "save"} :
              [pc |-> pc, pr |-> pr, version |-> version] \in WorkerStates
  BY DEF WorkerStates

(* A thread keeps its request, and its data, when it only goes to another  *)
(* place.                                                                  *)
LEMMA GoType ==
  ASSUME TypeInv, NEW w \in Workers, NEW pc,
         \/ worker[w].pc = "get" /\ pc = "fetch"
         \/ worker[w].pc \in {"put", "resolve"} /\ pc \in {"resolve", "save"}
  PROVE  LET x == [worker[w] EXCEPT !.pc = pc]
         IN /\ x \in WorkerStates /\ x.pc = pc /\ x.pr = worker[w].pr
            /\ worker[w].pc \in {"put", "resolve"} => x.version = worker[w].version
<1>1. worker[w] \in WorkerStates
  BY DEF TypeInv
<1>2. CASE worker[w].pc = "get" /\ pc = "fetch"
  <2>1. worker[w] \in [pc : {"get", "fetch"}, pr : Prs]
    BY <1>1, <1>2 DEF WorkerStates, Idle
  <2>2. [worker[w] EXCEPT !.pc = pc] \in [pc : {"get", "fetch"}, pr : Prs]
    BY <1>2, <2>1
  <2> QED
    BY <1>2, <2>1, <2>2 DEF WorkerStates
<1>3. CASE worker[w].pc \in {"put", "resolve"} /\ pc \in {"resolve", "save"}
  <2>1. worker[w] \in [pc : {"put", "resolve", "save"}, pr : Prs, version : Versions]
    BY <1>1, <1>3 DEF WorkerStates, Idle
  <2>2. [worker[w] EXCEPT !.pc = pc] \in [pc : {"put", "resolve", "save"}, pr : Prs, version : Versions]
    BY <1>3, <2>1
  <2> QED
    BY <1>3, <2>1, <2>2 DEF WorkerStates
<1> QED
  BY <1>2, <1>3

(* The version of an entry.                                                *)
LEMMA EntryType ==
  ASSUME CacheTypeOK, NEW pr \in Prs
  PROVE  /\ upstream[pr] \in Versions
         /\ IsUsable(api[pr]) => api[pr].version \in Versions
         /\ IsUsable(Get(mode, pr)) => Get(mode, pr) = api[pr] /\ mode # "refresh"
<1>1. api[pr] \in {Absent, Torn} \cup {Whole(s, v) : s \in {"ok", "error"}, v \in Versions}
  BY DEF CacheTypeOK
<1>2. IsUsable(api[pr]) => api[pr].version \in Versions
  BY <1>1 DEF IsUsable, Absent, Torn, Whole
<1>3. IsUsable(Get(mode, pr)) => Get(mode, pr) = api[pr] /\ mode # "refresh"
  BY DEF Get, IsUsable, Nothing, Missing
<1> QED
  BY <1>2, <1>3 DEF CacheTypeOK

(* Every step of a thread is one of the four.                                *)
LEMMA ThreadShape ==
  ASSUME TypeInv, NEW w \in Workers, Thread(w)
  PROVE  \/ \E x \in WorkerStates : Moves(w, x)
         \/ \E r \in Result : Ends(w, r)
         \/ Begins(w)
         \/ \E r \in Result : Answers(w, r)
<1> DEFINE pr0 == worker[w].pr
<1>1. CASE Take(w)
  <2> DEFINE pr == pending[next]
             answer == answers[Number[pr]]
  <2>1. /\ worker[w].pc = "idle" /\ next <= Len(pending) /\ next' = next + 1
        /\ worker[w] = Idle /\ ~ IsBusy(w)
    BY <1>1, BusyType DEF Take, IsBusy
  <2>2. pr \in Prs /\ Number[pr] \in Numbers
    BY <2>1 DEF TypeInv, Numbers
  <2>3. CASE mode # "refresh" /\ answer.file = "whole"
    <3>1. Finish(w, answer.result)
      BY <1>1, <2>3 DEF Take
    <3>2. worker' = worker
      BY <2>1, <3>1 DEF Finish, TypeInv
    <3>3. answer.result \in Result /\ answer.result.number = Number[pr]
      BY <2>2, <2>3 DEF TypeInv
    <3> QED
      BY <2>1, <3>1, <3>2, <3>3 DEF Answers, Finish
  <2>4. CASE ~ (mode # "refresh" /\ answer.file = "whole")
    <3>1. /\ worker' = [worker EXCEPT ![w] = [pc |-> "get", pr |-> pr]]
          /\ finished' = finished
      BY <1>1, <2>4 DEF Take
    <3> QED
      BY <2>1, <3>1 DEF Begins
  <2> QED
    BY <2>3, <2>4
<1>2. CASE ReadCache(w)
  <2>1. worker[w].pc = "get" /\ IsBusy(w) /\ next' = next /\ pr0 \in Prs /\ NumberOf(w) \in Numbers
    BY <1>2, BusyType DEF ReadCache, IsBusy
  <2>2. CASE Finish(w, Error(NumberOf(w)))
    BY <2>1, <2>2, ErrorType DEF Ends, Finish
  <2>3. CASE /\ IsUsable(Get(mode, pr0))
             /\ worker' = [worker EXCEPT ![w] = [pc |-> "resolve", pr |-> @.pr,
                                                 version |-> Get(mode, pr0).version]]
             /\ UNCHANGED finished
    <3> DEFINE x == [pc |-> "resolve", pr |-> pr0, version |-> Get(mode, pr0).version]
    <3>1. Get(mode, pr0).version \in Versions
      BY <2>1, <2>3, EntryType DEF TypeInv
    <3>2. x \in WorkerStates /\ x.pc = "resolve" /\ x.pr = pr0
      BY <2>1, <3>1, StateTypes
    <3>3. worker' = [worker EXCEPT ![w] = x]
      BY <2>3 DEF TypeInv
    <3> HIDE DEF x
    <3> QED
      BY <2>1, <2>3, <3>2, <3>3 DEF Moves
  <2>4. CASE Go(w, "fetch") /\ UNCHANGED finished
    <3> DEFINE x == [worker[w] EXCEPT !.pc = "fetch"]
    <3>1. x \in WorkerStates /\ x.pc = "fetch" /\ x.pr = pr0
      BY <2>1, GoType
    <3>2. worker' = [worker EXCEPT ![w] = x]
      BY <2>4 DEF Go, TypeInv
    <3> HIDE DEF x
    <3> QED
      BY <2>1, <2>4, <3>1, <3>2 DEF Moves
  <2> QED
    BY <1>2, <2>2, <2>3, <2>4 DEF ReadCache
<1>3. CASE Fetch(w)
  <2>1. /\ worker[w].pc = "fetch" /\ IsBusy(w) /\ next' = next /\ finished' = finished
        /\ pr0 \in Prs
    BY <1>3, BusyType DEF Fetch, IsBusy
  <2>2. upstream[pr0] \in Versions
    BY <2>1, EntryType DEF TypeInv
  <2>3. PICK pc \in {"resolve", "put"} :
          worker' = [worker EXCEPT ![w] = [pc |-> pc, pr |-> pr0, version |-> upstream[pr0]]]
    BY <1>3 DEF Fetch
  <2> DEFINE x == [pc |-> pc, pr |-> pr0, version |-> upstream[pr0]]
  <2>4. x \in WorkerStates /\ x.pc # "idle" /\ x.pr = pr0
    BY <2>1, <2>2, StateTypes
  <2>5. worker' = [worker EXCEPT ![w] = x]
    BY <2>3
  <2> HIDE DEF x
  <2> QED
    BY <2>1, <2>4, <2>5 DEF Moves
<1>4. CASE Put(w) \/ Resolve(w)
  <2>1. PICK pc \in {"resolve", "save"} : Go(w, pc)
    BY <1>4 DEF Put, Resolve
  <2>2. /\ worker[w].pc \in {"put", "resolve"} /\ IsBusy(w) /\ next' = next
        /\ finished' = finished
    BY <1>4 DEF Put, Resolve, IsBusy
  <2> DEFINE x == [worker[w] EXCEPT !.pc = pc]
  <2>3. x \in WorkerStates /\ x.pc = pc /\ x.pr = pr0
    BY <2>2, GoType
  <2>4. worker' = [worker EXCEPT ![w] = x]
    BY <2>1 DEF Go, TypeInv
  <2> HIDE DEF x
  <2> QED
    BY <2>2, <2>3, <2>4 DEF Moves
<1>5. CASE SaveAnswer(w)
  <2>1. /\ worker[w].pc = "save" /\ IsBusy(w) /\ next' = next
        /\ Finish(w, Ok(NumberOf(w), pr0, worker[w].version))
    BY <1>5 DEF SaveAnswer, IsBusy
  <2>2. NumberOf(w) \in Numbers /\ pr0 \in Prs /\ worker[w].version \in Versions
    BY <2>1, BusyType
  <2>3. IndexTypeOK
    BY DEF TypeInv
  <2> QED
    BY <2>1, <2>2, <2>3, OkType DEF Ends, Finish
<1>6. CASE Fail(w)
  <2>1. /\ IsBusy(w) /\ next' = next /\ Finish(w, Error(NumberOf(w)))
    BY <1>6 DEF Fail, IsBusy
  <2>2. NumberOf(w) \in Numbers
    BY <2>1, BusyType
  <2> QED
    BY <2>1, <2>2, ErrorType DEF Ends, Finish
<1> QED
  BY <1>1, <1>2, <1>3, <1>4, <1>5, <1>6 DEF Thread
-------------------------------------------------------------------------------
(* Where the batch has an SDK index, and where it has both.                *)
HasSdk == phase \notin {"none", "sdk", "sdk-load", "sdk-fill"}
HasBoth == phase \in {"resume", "pool", "saving", "final", "returned"}

(* A stored index is of a tree that had the change its key is of.          *)
StoredFresh ==
  \A k \in Keys :
    /\ stored["sdk"][k] \in Snapshots => stored["sdk"][k].sdk.top >= k[1]
    /\ stored["inverted"][k] \in Snapshots => stored["inverted"][k].xts.top >= k[2]

(* What the batch has seen at its start is not older than what there is,   *)
(* the key is of something between the two, and so is an index made later. *)
StartedInv ==
  /\ \A pr \in Prs : started.upstream[pr] \in Nat /\ upstream[pr] >= started.upstream[pr]
  /\ \A r \in Roots : started.tree[r] \in Nat /\ tree[r].top >= started.tree[r]
  /\ started.cached \subseteq Prs

IndexInv ==
  /\ StoredFresh
  /\ phase \in {"sdk-load", "sdk-fill"} =>
       key[1] >= started.tree["sdk"] /\ key[1] <= tree["sdk"].top
  /\ phase \in {"inverted-load", "inverted-fill"} =>
       key[2] >= started.tree["xts"] /\ key[2] <= tree["xts"].top
  /\ phase = "sdk-fill" => index["sdk"] \in Snapshots /\ index["sdk"].sdk.top >= key[1]
  /\ phase = "inverted-fill" => index["inverted"] \in Snapshots /\ index["inverted"].xts.top >= key[2]
  /\ HasSdk => index["sdk"] \in Snapshots /\ index["sdk"].sdk.top >= started.tree["sdk"]
  /\ HasBoth => index["inverted"] \in Snapshots /\ index["inverted"].xts.top >= started.tree["xts"]

(* The types of the indexes, after each operation on them.                 *)
LEMMA TreeType ==
  ASSUME IndexTypeOK
  PROVE  /\ tree \in Snapshots
         /\ \A r \in Roots : tree[r] \in States /\ tree[r].top \in 0..MaxChanges
                             /\ Signature(r) = tree[r].top
         /\ \A k \in Kinds : KeyOf(k) \in Keys
         /\ KeyOf("sdk")[1] = tree["sdk"].top
         /\ KeyOf("inverted")[2] = tree["xts"].top
<1>1. \A r \in Roots : tree[r] \in States
  BY DEF IndexTypeOK
<1>2. \A r \in Roots : tree[r].top \in 0..MaxChanges /\ Signature(r) = tree[r].top
  BY <1>1 DEF States, Signature
<1>3. tree \in Snapshots
  BY DEF IndexTypeOK, Roots, Snapshots
<1>4. \A k \in Kinds : KeyOf(k) \in Keys
  BY <1>2, MaxChangesAssumption DEF KeyOf, Keys, Kinds, Roots
<1> QED
  BY <1>1, <1>2, <1>3, <1>4 DEF KeyOf, Roots

(* The parts of an index.                                                    *)
LEMMA SnapshotType ==
  ASSUME NEW s \in Snapshots
  PROVE  s.sdk \in States /\ s.xts \in States /\ s.sdk.top \in 0..MaxChanges /\ s.xts.top \in 0..MaxChanges
  BY DEF Snapshots, States

(* An index that is built is of the tree as it is.                           *)
LEMMA BuiltType ==
  ASSUME IndexTypeOK, NEW kind \in Kinds, kind = "inverted" => index["sdk"] \in Snapshots
  PROVE  /\ Built(kind) \in Snapshots
         /\ kind = "sdk" => Built(kind).sdk.top = tree["sdk"].top
         /\ kind = "inverted" => Built(kind).xts.top = tree["xts"].top
<1>1. tree \in Snapshots
  BY TreeType
<1>2. CASE kind = "sdk"
  BY <1>1, <1>2 DEF Built, Snapshots
<1>3. CASE kind = "inverted"
  <2>1. index["sdk"].sdk \in States
    BY <1>3, SnapshotType
  <2>2. Built(kind) = [tree EXCEPT !.sdk = index["sdk"].sdk]
    BY <1>3 DEF Built
  <2> QED
    BY <1>1, <1>3, <2>1, <2>2 DEF Snapshots
<1> QED
  BY <1>2, <1>3 DEF Kinds

(* A file that is absent or torn is not an index.                            *)
LEMMA NotAnIndex == NoIndex \notin Snapshots /\ TornIndex \notin Snapshots
  BY DEF NoIndex, TornIndex, Snapshots

(* A sync only adds changes.                                                 *)
LEMMA SyncType ==
  ASSUME IndexTypeOK, NEW root \in Roots, Sync(root)
  PROVE  /\ tree' \in [Roots -> States]
         /\ \A r \in Roots : tree'[r].top >= tree[r].top
<1>1. PICK level \in {"top", "deep"} :
        tree[root][level] < MaxChanges /\ tree' = [tree EXCEPT ![root][level] = @ + 1]
  BY DEF Sync
<1>2. tree \in [Roots -> States] /\ tree[root] \in States /\ \A r \in Roots : tree[r].top \in 0..MaxChanges
  BY TreeType DEF IndexTypeOK
<1> DEFINE s == tree[root]
           t == [s EXCEPT ![level] = s[level] + 1]
<1>3. t \in States /\ t.top >= s.top
  <2>1. s \in States /\ s[level] < MaxChanges /\ MaxChanges \in Nat
    BY <1>1, <1>2, MaxChangesAssumption
  <2> HIDE DEF s
  <2>2. CASE level = "top"
    BY <2>1, <2>2 DEF States
  <2>3. CASE level = "deep"
    BY <2>1, <2>3 DEF States
  <2> QED
    BY <2>2, <2>3
<1>4. tree' = [tree EXCEPT ![root] = t]
  BY <1>1, <1>2
<1> HIDE DEF t
<1> QED
  BY <1>2, <1>3, <1>4

(* What a step does to the indexes, of those of the batch and of the world.*)
IndexStep ==
  \/ UNCHANGED indexVars
  \/ \E kind \in Kinds : \/ LookUp(kind) \/ LoadIndex(kind) \/ FillIndex(kind)
                         \/ BuildIndex(kind) /\ (kind = "inverted" => HasSdk)
  \/ \E root \in Roots : Sync(root)
  \/ ForgetIndexes /\ UNCHANGED <<tree, stored>>

(* The indexes keep their types.                                             *)
LEMMA IndexTypeStep ==
  ASSUME IndexTypeOK, IndexInv, IndexStep
  PROVE  IndexTypeOK'
<1> DEFINE Files == Snapshots \cup {NoIndex, TornIndex}
<1>0. /\ tree \in [Roots -> States] /\ stored \in [Kinds -> [Keys -> Files]]
      /\ index \in [Kinds -> Snapshots \cup {NoIndex}] /\ key \in Keys
  BY DEF IndexTypeOK
<1>1. CASE UNCHANGED indexVars
  BY <1>1 DEF indexVars, IndexTypeOK
<1>2. CASE \E kind \in Kinds : LookUp(kind)
  BY <1>0, <1>2, TreeType DEF LookUp, IndexTypeOK
<1>3. CASE \E kind \in Kinds : LoadIndex(kind)
  <2>1. PICK kind \in Kinds : LoadIndex(kind)
    BY <1>3
  <2>2. stored[kind][key] \in Snapshots \cup {NoIndex}
    BY <1>0, <2>1 DEF LoadIndex, IsStored
  <2>3. index' \in [Kinds -> Snapshots \cup {NoIndex}]
    BY <1>0, <2>1, <2>2 DEF LoadIndex
  <2> QED
    BY <1>0, <2>1, <2>3 DEF LoadIndex, IndexTypeOK
<1>4. CASE \E kind \in Kinds : FillIndex(kind)
  <2>1. PICK kind \in Kinds : FillIndex(kind)
    BY <1>4
  <2>2. index[kind] \in Files
    BY <1>0
  <2>3. stored' = [stored EXCEPT ![kind][key] = index[kind]]
    BY <2>1 DEF FillIndex
  <2> HIDE DEF Files
  <2>4. stored' \in [Kinds -> [Keys -> Files]]
    BY <1>0, <2>2, <2>3
  <2> QED
    BY <1>0, <2>1, <2>4 DEF FillIndex, IndexTypeOK, Files
<1>5. CASE \E kind \in Kinds : BuildIndex(kind) /\ (kind = "inverted" => HasSdk)
  <2>1. PICK kind \in Kinds : BuildIndex(kind) /\ (kind = "inverted" => HasSdk)
    BY <1>5
  <2>2. Built(kind) \in Snapshots
    BY <2>1, BuiltType DEF IndexInv
  <2>3. stored' = [stored EXCEPT ![kind][key] = TornIndex] /\ TornIndex \in Files
    BY <2>1 DEF BuildIndex
  <2>4. index' \in [Kinds -> Snapshots \cup {NoIndex}]
    BY <1>0, <2>1, <2>2 DEF BuildIndex
  <2> HIDE DEF Files
  <2>5. stored' \in [Kinds -> [Keys -> Files]]
    BY <1>0, <2>3
  <2> QED
    BY <1>0, <2>1, <2>4, <2>5 DEF BuildIndex, IndexTypeOK, Files
<1>6. CASE \E root \in Roots : Sync(root)
  BY <1>0, <1>6, SyncType DEF Sync, IndexTypeOK
<1>7. CASE ForgetIndexes /\ UNCHANGED <<tree, stored>>
  <2>1. <<0, 0>> \in Keys
    BY MaxChangesAssumption DEF Keys
  <2> QED
    BY <1>0, <1>7, <2>1 DEF ForgetIndexes, IndexTypeOK
<1> QED
  BY <1>1, <1>2, <1>3, <1>4, <1>5, <1>6, <1>7 DEF IndexStep

(* What a step does to the cache of raw data.                              *)
CacheStep ==
  \/ UNCHANGED cacheVars
  \/ \E pr \in Prs : \/ Push(pr) \/ Prefetch(pr)
                     \/ OpenEntry(pr) /\ UNCHANGED upstream
                     \/ \E version \in Versions : FillEntry(pr, version) /\ UNCHANGED upstream

(* The cache keeps its types.                                                *)
LEMMA CacheTypeStep ==
  ASSUME CacheTypeOK, CacheStep
  PROVE  CacheTypeOK' /\ \A pr \in Prs : upstream'[pr] >= upstream[pr]
<1> DEFINE Entries == {Absent, Torn} \cup {Whole(s, v) : s \in {"ok", "error"}, v \in Versions}
<1>0. /\ upstream \in [Prs -> Versions] /\ api \in [Prs -> Entries]
      /\ Versions \subseteq Nat /\ \A pr \in Prs : upstream[pr] \in Nat
      /\ Torn \in Entries
      /\ \A s \in {"ok", "error"}, v \in Versions : Whole(s, v) \in Entries
  BY MaxVersionAssumption DEF CacheTypeOK, Versions
<1> HIDE DEF Entries
<1>1. CASE UNCHANGED cacheVars
  BY <1>0, <1>1 DEF cacheVars, CacheTypeOK
<1>2. CASE \E pr \in Prs : Push(pr)
  <2>1. upstream' \in [Prs -> Versions] /\ \A pr \in Prs : upstream'[pr] >= upstream[pr]
    BY <1>0, <1>2, MaxVersionAssumption DEF Push, Versions
  <2> QED
    BY <1>0, <1>2, <2>1 DEF Push, CacheTypeOK, Entries
<1>3. CASE \E pr \in Prs : Prefetch(pr)
  <2>1. PICK pr \in Prs : Prefetch(pr)
    BY <1>3
  <2>2. PICK entry \in {Whole("ok", upstream[pr]), Whole("error", upstream[pr]), Torn} :
           api' = [api EXCEPT ![pr] = entry]
    BY <2>1 DEF Prefetch
  <2>3. upstream[pr] \in Versions
    BY <1>0
  <2>4. entry \in Entries
    BY <1>0, <2>2, <2>3
  <2> QED
    BY <1>0, <2>1, <2>2, <2>4 DEF Prefetch, CacheTypeOK, Entries
<1>4. CASE \E pr \in Prs : OpenEntry(pr) /\ UNCHANGED upstream
  BY <1>0, <1>4 DEF OpenEntry, CacheTypeOK, Entries
<1>5. CASE \E pr \in Prs, version \in Versions : FillEntry(pr, version) /\ UNCHANGED upstream
  <2>1. PICK pr \in Prs, version \in Versions : FillEntry(pr, version) /\ UNCHANGED upstream
    BY <1>5
  <2>2. Whole("ok", version) \in Entries
    BY <1>0
  <2> QED
    BY <1>0, <2>1, <2>2 DEF FillEntry, CacheTypeOK, Entries
<1> QED
  BY <1>1, <1>2, <1>3, <1>4, <1>5 DEF CacheStep
-------------------------------------------------------------------------------
(* Before the pool nothing is submitted; outside of it nothing is running; *)
(* after it all is done, and what has returned is what is saved.  Every    *)
(* request of the list has a result that was kept, or is pending.          *)
Early == phase \in {"none", "sdk", "sdk-load", "sdk-fill", "inverted", "inverted-load",
                    "inverted-fill", "resume"}

PhaseInv ==
  /\ Early => next = 1 /\ completed = 0
  /\ phase \in {"final", "returned"} => completed = Len(pending)
  /\ phase \notin {"pool", "saving"} => Busy = {} /\ finished = <<>>
  /\ phase = "returned" => output = [file |-> "whole", results |-> results]
  /\ ~ Early =>
       \A i \in 1..Len(list) :
          \/ \E j \in 1..kept : results[j].number = Number[list[i]]
          \/ \E j \in 1..Len(pending) : pending[j] = list[i]

(* Every request that was taken is with a thread, or its result is waiting *)
(* or collected: of each number, and all in all.                           *)
BusyOn(n) == {w \in Busy : NumberOf(w) = n}

TakenOf(n) == {i \in DOMAIN pending : i < next /\ Number[pending[i]] = n}

AccountInv ==
  /\ \A n \in Numbers :
       Cardinality(Places(results, kept, n)) + Cardinality(Places(finished, 0, n))
         + Cardinality(BusyOn(n)) = Cardinality(TakenOf(n))
  /\ completed + Len(finished) + Cardinality(Busy) = next - 1

(* The steps that look up, load, build and store the indexes.              *)
Indexing == LookUpIndex \/ UseStoredIndex \/ MakeIndex \/ StoreIndex

(* What the steps that make the indexes leave alone.                         *)
LEMMA IndexingShape ==
  ASSUME Indexing
  PROVE  /\ UNCHANGED <<mode, list, runs, results, kept, pending, next, completed, worker, finished,
                        answers, output, started, events>>
         /\ UNCHANGED cacheVars
         /\ phase \in {"sdk", "sdk-load", "sdk-fill", "inverted", "inverted-load", "inverted-fill"}
         /\ phase' \in {"sdk-load", "sdk-fill", "inverted", "inverted-load", "inverted-fill", "resume"}
         /\ IndexStep
<1>1. CASE LookUpIndex
  BY <1>1 DEF LookUpIndex, At, IndexStep, Kinds
<1>2. CASE UseStoredIndex
  BY <1>2 DEF UseStoredIndex, At, IndexStep, Kinds
<1>3. CASE MakeIndex
  BY <1>3 DEF MakeIndex, At, IndexStep, Kinds, HasSdk
<1>4. CASE StoreIndex
  BY <1>4 DEF StoreIndex, At, IndexStep, Kinds
<1> QED
  BY <1>1, <1>2, <1>3, <1>4 DEF Indexing

(* What a thread leaves alone, and what it may do to the files.            *)
LEMMA ThreadFrame ==
  ASSUME TypeInv, NEW w \in Workers, Thread(w)
  PROVE  /\ UNCHANGED <<phase, mode, list, runs, results, kept, pending, completed, output, started,
                        events, upstream>>
         /\ UNCHANGED indexVars
         /\ phase \in {"pool", "saving"}
         /\ CacheStep
<1>1. /\ UNCHANGED <<phase, mode, list, runs, results, kept, pending, completed, output, started,
                     events, upstream>>
      /\ UNCHANGED indexVars
      /\ phase \in {"pool", "saving"}
  BY DEF Thread, Take, ReadCache, Fetch, Put, Resolve, SaveAnswer, Fail, ThreadStep, Pooling
<1>2. api' = api => UNCHANGED cacheVars
  BY <1>1 DEF cacheVars
<1>3. CASE Fetch(w)
  <2>1. worker[w].pr \in Prs
    BY <1>3, BusyType DEF Fetch, IsBusy
  <2> QED
    BY <1>1, <1>2, <1>3, <2>1 DEF Fetch, CacheStep
<1>4. CASE Put(w)
  <2>1. worker[w].pr \in Prs /\ worker[w].version \in Versions
    BY <1>4, BusyType DEF Put, IsBusy
  <2> QED
    BY <1>1, <1>4, <2>1 DEF Put, CacheStep
<1>5. CASE Take(w) \/ ReadCache(w) \/ Resolve(w) \/ SaveAnswer(w) \/ Fail(w)
  <2>1. api' = api
    BY <1>5 DEF Take, ReadCache, Resolve, SaveAnswer, Fail
  <2> QED
    BY <1>1, <1>2, <2>1 DEF CacheStep
<1> QED
  BY <1>1, <1>3, <1>4, <1>5 DEF Thread

(* An answer that is whole after the step of a thread was so before, or is *)
(* what the thread saved.                                                  *)
LEMMA ThreadAnswers ==
  ASSUME TypeInv, NEW w \in Workers, Thread(w)
  PROVE  /\ DOMAIN answers' = Numbers
         /\ \A n \in Numbers : answers'[n].file = "whole" =>
              /\ answers'[n].result \in Result
              /\ answers'[n].result.number = n
              /\ IsOk(answers'[n].result)
<1>1. /\ DOMAIN answers = Numbers
      /\ \A n \in Numbers : answers[n].file = "whole" =>
           /\ answers[n].result \in Result
           /\ answers[n].result.number = n
           /\ IsOk(answers[n].result)
  BY DEF TypeInv
<1>2. Torn.file # "whole"
  BY DEF Torn
<1>3. CASE Resolve(w)
  <2>1. answers' = [answers EXCEPT ![NumberOf(w)] = Torn]
    BY <1>3 DEF Resolve
  <2> QED
    BY <1>1, <1>2, <2>1
<1>4. CASE SaveAnswer(w)
  <2> DEFINE m == NumberOf(w)
             r == Ok(m, worker[w].pr, worker[w].version)
             mine == [file |-> "whole", result |-> r]
  <2>1. m \in Numbers /\ worker[w].pr \in Prs /\ worker[w].version \in Versions
    BY <1>4, BusyType DEF SaveAnswer, IsBusy
  <2>2. r \in Result /\ r.number = m /\ IsOk(r)
    BY <2>1, OkType DEF TypeInv
  <2>3. PICK file \in {mine, Torn} : answers' = [answers EXCEPT ![m] = file]
    BY <1>4 DEF SaveAnswer
  <2>4. file.file = "whole" => file.result = r
    BY <1>2, <2>3
  <2> HIDE DEF m, r, mine
  <2> QED
    BY <1>1, <2>1, <2>2, <2>3, <2>4
<1>5. CASE Take(w) \/ ReadCache(w) \/ Fetch(w) \/ Put(w) \/ Fail(w)
  <2>1. answers' = answers
    BY <1>5 DEF Take, ReadCache, Fetch, Put, Fail
  <2> QED
    BY <1>1, <2>1
<1> QED
  BY <1>3, <1>4, <1>5 DEF Thread

(* The results of the batch before, when it has one success.               *)
LEMMA ExistingType ==
  ASSUME TypeInv
  PROVE  /\ Existing \in Seq(Result)
         /\ mode = "refresh" => Existing = <<>>
<1>1. <<>> \in Seq(Result)
  OBVIOUS
<1> QED
  BY <1>1 DEF Existing, TypeInv

(* The types hold in the beginning, and every step keeps them.               *)
LEMMA TypeInit == Init => TypeInv
<1> SUFFICES ASSUME Init PROVE TypeInv
  OBVIOUS
<1> USE DEF Init
<1>1. CacheTypeOK
  BY MaxVersionAssumption DEF CacheInit, CacheTypeOK, Versions
<1>2. IndexTypeOK
  BY MaxChangesAssumption DEF IndexInit, IndexTypeOK, States, Keys
<1>3. worker \in [Workers -> WorkerStates]
  BY DEF WorkerStates
<1>4. /\ \A n \in Numbers : answers[n].file # "whole"
      /\ output.file # "whole"
  BY DEF Absent
<1> QED
  BY <1>1, <1>2, <1>3, <1>4, ListAssumption DEF TypeInv, Phases, Modes

LEMMA TypeStep == TypeInv /\ IndexInv /\ PhaseInv /\ [Next]_vars => TypeInv'
<1> SUFFICES ASSUME TypeInv, IndexInv, PhaseInv, [Next]_vars PROVE TypeInv'
  OBVIOUS
<1>0. IndexTypeOK /\ CacheTypeOK
  BY DEF TypeInv
<1>1. ASSUME NEW m \in Modes, NEW prs \in Lists, Start(m, prs) PROVE TypeInv'
  <2>1. runs' \in 0..MaxRuns
    BY <1>1, ListAssumption DEF Start, TypeInv
  <2>2. IndexStep /\ CacheStep
    BY <1>1 DEF Start, IndexStep, CacheStep, cacheVars
  <2>3. IndexTypeOK' /\ CacheTypeOK'
    BY <1>0, <2>2, IndexTypeStep, CacheTypeStep
  <2>4. /\ phase' = "sdk" /\ mode' = m /\ list' = prs /\ results' = <<>> /\ kept' = 0
        /\ pending' = <<>> /\ next' = 1 /\ completed' = 0
        /\ UNCHANGED <<worker, finished, answers, output, events>>
    BY <1>1 DEF Start
  <2> QED
    BY <2>1, <2>3, <2>4 DEF TypeInv, Phases
<1>2. CASE Indexing
  <2>1. IndexTypeOK'
    BY <1>0, <1>2, IndexingShape, IndexTypeStep
  <2>2. CacheTypeOK'
    BY <1>0, <1>2, IndexingShape, CacheTypeStep DEF CacheStep
  <2>3. phase' \in Phases
    BY <1>2, IndexingShape DEF Phases
  <2> QED
    BY <1>2, <2>1, <2>2, <2>3, IndexingShape DEF TypeInv
<1>3. CASE Resume
  <2>1. list \in Seq(Prs)
    <3>1. <<>> \in Seq(Prs) /\ Lists \subseteq Seq(Prs)
      BY ListAssumption
    <3> QED
      BY <3>1 DEF TypeInv
  <2>2. pending' \in Seq(Prs)
    BY <1>3, <2>1, PendingIsTheRest DEF Resume
  <2>3. results' \in Seq(Result) /\ kept' \in 0..Len(results')
    BY <1>3, ExistingType DEF Resume
  <2>4. IndexTypeOK' /\ CacheTypeOK'
    BY <1>0, <1>3, IndexTypeStep, CacheTypeStep DEF Resume, IndexStep, CacheStep
  <2>5. next' = 1
    BY <1>3 DEF Resume, PhaseInv, Early
  <2>6. next' \in 1..(Len(pending') + 1)
    BY <2>2, <2>5
  <2> QED
    BY <1>3, <2>2, <2>3, <2>4, <2>6 DEF Resume, TypeInv, Phases
<1>4. CASE Collect
  <2>1. /\ finished # <<>> /\ finished \in Seq(Result) /\ results \in Seq(Result)
        /\ kept \in 0..Len(results)
        /\ results' = Append(results, Head(finished)) /\ finished' = Tail(finished) /\ kept' = kept
    BY <1>4 DEF Collect, AppendResult, TypeInv
  <2>2. finished' \in Seq(Result) /\ results' \in Seq(Result) /\ kept' \in 0..Len(results')
    BY <2>1
  <2>3. IndexTypeOK' /\ CacheTypeOK'
    BY <1>0, <1>4, IndexTypeStep, CacheTypeStep DEF Collect, IndexStep, CacheStep
  <2>4. output' \in {output, Torn} /\ phase' \in {"pool", "saving"}
    BY <1>4 DEF Collect
  <2>5. output'.file = "whole" => output'.results \in Seq(Result)
    BY <2>4 DEF TypeInv, Torn
  <2> QED
    BY <1>4, <2>2, <2>3, <2>4, <2>5 DEF Collect, TypeInv, Phases
<1>5. CASE Save \/ Return
  <2>1. output' = [file |-> "whole", results |-> results]
    BY <1>5 DEF Save, Return, FillOutput
  <2>2. IndexTypeOK' /\ CacheTypeOK'
    BY <1>0, <1>5, IndexTypeStep, CacheTypeStep DEF Save, Return, IndexStep, CacheStep
  <2> QED
    BY <1>5, <2>1, <2>2 DEF Save, Return, TypeInv, Phases
<1>6. CASE ClosePool
  <2>1. IndexTypeOK' /\ CacheTypeOK'
    BY <1>0, <1>6, IndexTypeStep, CacheTypeStep DEF ClosePool, IndexStep, CacheStep
  <2> QED
    BY <1>6, <2>1 DEF ClosePool, TypeInv, Phases, Torn
<1>7. ASSUME NEW w \in Workers, Thread(w) PROVE TypeInv'
  <2>1. /\ UNCHANGED <<phase, mode, list, runs, results, kept, pending, completed, output, started, events>>
        /\ IndexTypeOK' /\ CacheTypeOK'
    BY <1>0, <1>7, ThreadFrame, IndexTypeStep, CacheTypeStep DEF IndexStep
  <2>2. /\ next' \in 1..(Len(pending) + 1)
        /\ worker' \in [Workers -> WorkerStates]
        /\ finished' \in Seq(Result)
    <3>0. /\ next \in 1..(Len(pending) + 1) /\ Len(pending) \in Nat
          /\ worker \in [Workers -> WorkerStates]
          /\ finished \in Seq(Result) /\ Idle \in WorkerStates
      BY DEF TypeInv, WorkerStates
    <3>1. CASE \E x \in WorkerStates : Moves(w, x)
      BY <3>0, <3>1 DEF Moves
    <3>2. CASE \E r \in Result : Ends(w, r)
      BY <3>0, <3>2 DEF Ends
    <3>3. CASE Begins(w)
      <4>1. next' \in 1..(Len(pending) + 1) /\ pending[next] \in Prs
        BY <3>0, <3>3 DEF Begins, TypeInv
      <4>2. [pc |-> "get", pr |-> pending[next]] \in WorkerStates
        BY <4>1 DEF WorkerStates
      <4> QED
        BY <3>0, <3>3, <4>1, <4>2 DEF Begins
    <3>4. CASE \E r \in Result : Answers(w, r)
      BY <3>0, <3>4 DEF Answers
    <3> QED
      BY <1>7, <3>1, <3>2, <3>3, <3>4, ThreadShape
  <2> QED
    BY <1>7, <2>1, <2>2, ThreadAnswers DEF TypeInv
<1>8. CASE Kill
  <2>1. IndexStep /\ CacheStep
    BY <1>8 DEF Kill, IndexStep, CacheStep
  <2>2. IndexTypeOK' /\ CacheTypeOK'
    BY <1>0, <2>1, IndexTypeStep, CacheTypeStep
  <2>3. worker' \in [Workers -> WorkerStates]
    BY <1>8 DEF Kill, WorkerStates
  <2>4. /\ phase' = "none" /\ mode' = "read-write" /\ list' = <<>> /\ results' = <<>> /\ kept' = 0
        /\ pending' = <<>> /\ next' = 1 /\ completed' = 0 /\ finished' = <<>>
        /\ UNCHANGED <<runs, answers, output, events>>
    BY <1>8 DEF Kill
  <2> QED
    BY <2>2, <2>3, <2>4 DEF TypeInv, Phases, Modes
<1>9. CASE World
  <2>1. IndexStep /\ CacheStep
    BY <1>9 DEF World, IndexStep, CacheStep
  <2>2. IndexTypeOK' /\ CacheTypeOK'
    BY <1>0, <2>1, IndexTypeStep, CacheTypeStep
  <2>3. events' \in 0..MaxEvents
    BY <1>9, ListAssumption DEF World, TypeInv
  <2> QED
    BY <1>9, <2>2, <2>3 DEF World, TypeInv
<1>10. CASE UNCHANGED vars
  <2>1. IndexTypeOK' /\ CacheTypeOK'
    BY <1>0, <1>10, IndexTypeStep, CacheTypeStep DEF vars, IndexStep, CacheStep
  <2> QED
    BY <1>10, <2>1 DEF vars, batchVars, TypeInv
<1> QED
  BY <1>1, <1>2, <1>3, <1>4, <1>5, <1>6, <1>7, <1>8, <1>9, <1>10 DEF Next, Main, Indexing
-------------------------------------------------------------------------------
(* The sets that are counted are finite.                                   *)
LEMMA BusyFinite ==
  /\ IsFiniteSet(Busy) /\ Cardinality(Busy) \in Nat
  /\ \A n : IsFiniteSet(BusyOn(n)) /\ Cardinality(BusyOn(n)) \in Nat
<1>1. Busy \in SUBSET Workers /\ IsFiniteSet(Workers)
  BY ListAssumption DEF Busy
<1>2. IsFiniteSet(Busy)
  BY <1>1, FS_Subset
<1>3. \A n : BusyOn(n) \in SUBSET Busy
  BY DEF BusyOn
<1> QED
  BY <1>2, <1>3, FS_Subset, FS_CardinalityType

(* The requests taken are finitely many.                                     *)
LEMMA TakenFinite ==
  ASSUME TypeInv, NEW n
  PROVE  IsFiniteSet(TakenOf(n)) /\ Cardinality(TakenOf(n)) \in Nat
<1>1. Len(pending) \in Nat /\ DOMAIN pending = 1..Len(pending)
  BY DEF TypeInv
<1>2. TakenOf(n) \in SUBSET (1..Len(pending)) /\ IsFiniteSet(1..Len(pending))
  BY <1>1, FS_Interval DEF TakenOf
<1> QED
  BY <1>2, FS_Subset, FS_CardinalityType

(* A request is taken.                                                     *)
LEMMA CountTaken ==
  ASSUME TypeInv, NEW n, next <= Len(pending), next' = next + 1, pending' = pending
  PROVE  Cardinality(TakenOf(n)') =
           Cardinality(TakenOf(n)) + (IF Number[pending[next]] = n THEN 1 ELSE 0)
<1>1. /\ Len(pending) \in Nat /\ DOMAIN pending = 1..Len(pending)
      /\ next \in 1..Len(pending)
  BY DEF TypeInv
<1>2. CASE Number[pending[next]] = n
  <2>1. TakenOf(n)' = TakenOf(n) \cup {next} /\ next \notin TakenOf(n)
    BY <1>1, <1>2 DEF TakenOf
  <2>2. Cardinality(TakenOf(n) \cup {next}) = Cardinality(TakenOf(n)) + 1
    BY <2>1, TakenFinite, CountIn
  <2> QED
    BY <1>2, <2>1, <2>2
<1>3. CASE Number[pending[next]] # n
  <2>1. TakenOf(n)' = TakenOf(n)
    BY <1>1, <1>3 DEF TakenOf
  <2> QED
    BY <1>3, <2>1, TakenFinite
<1> QED
  BY <1>2, <1>3

(* Before anything is taken all counts are zero.                           *)
LEMMA NothingTaken ==
  ASSUME results' \in Seq(Result), kept' = Len(results'), finished' = <<>>, Busy' = {},
         pending' \in Seq(Prs), next' = 1, completed' = 0
  PROVE  AccountInv'
<1>1. /\ \A n : Places(results', kept', n) = {}
      /\ \A n : Places(finished', 0, n) = {}
      /\ \A n : BusyOn(n)' = {} /\ TakenOf(n)' = {}
  BY DEF Places, BusyOn, TakenOf
<1>2. Cardinality({}) = 0
  BY FS_EmptySet
<1>3. ASSUME NEW n
      PROVE  Cardinality(Places(results', kept', n)) + Cardinality(Places(finished', 0, n))
               + Cardinality(BusyOn(n)') = Cardinality(TakenOf(n)')
  <2>1. /\ Cardinality(Places(results', kept', n)) = 0 /\ Cardinality(Places(finished', 0, n)) = 0
        /\ Cardinality(BusyOn(n)') = 0 /\ Cardinality(TakenOf(n)') = 0
    BY <1>1, <1>2, Zenon
  <2> QED
    BY <2>1
<1>4. completed' + Len(finished') + Cardinality(Busy') = next' - 1
  BY <1>2
<1> QED
  BY <1>3, <1>4 DEF AccountInv

(* Nothing is running, in the states around the pool.                      *)
LEMMA SameAccount ==
  ASSUME AccountInv, UNCHANGED <<results, kept, finished, worker, pending, next, completed>>
  PROVE  AccountInv'
  BY DEF AccountInv, BusyOn, Busy, IsBusy, NumberOf, TakenOf

(* A thread takes a request, or turns it into a result.                    *)
LEMMA AccountThread ==
  ASSUME TypeInv, AccountInv, NEW w \in Workers, Thread(w)
  PROVE  AccountInv'
<1>0. /\ worker \in [Workers -> WorkerStates]
      /\ finished \in Seq(Result) /\ Len(finished) \in Nat
      /\ completed \in Nat /\ next \in Nat
  BY DEF TypeInv
<1>1. /\ UNCHANGED <<results, kept, pending, completed>>
      /\ \A n : IsFiniteSet(Places(results, kept, n)) /\ Cardinality(Places(results, kept, n)) \in Nat
      /\ \A n : Cardinality(Places(finished, 0, n)) \in Nat
  BY ThreadFrame, PlacesFinite DEF TypeInv
<1>2. /\ IsFiniteSet(Busy) /\ Cardinality(Busy) \in Nat
      /\ \A n : IsFiniteSet(BusyOn(n)) /\ Cardinality(BusyOn(n)) \in Nat
  BY BusyFinite
<1>3. /\ completed + Len(finished) + Cardinality(Busy) = next - 1
      /\ \A n \in Numbers :
           Cardinality(Places(results, kept, n)) + Cardinality(Places(finished, 0, n))
             + Cardinality(BusyOn(n)) = Cardinality(TakenOf(n))
  BY DEF AccountInv
<1>4. Idle.pc = "idle"
  BY DEF Idle
<1>5. CASE \E x \in WorkerStates : Moves(w, x)
  <2>1. PICK x \in WorkerStates : Moves(w, x)
    BY <1>5
  <2>2. /\ \A v \in Workers \ {w} : worker'[v] = worker[v]
        /\ worker'[w] = x /\ x.pc # "idle" /\ x.pr = worker[w].pr /\ worker[w].pc # "idle"
    BY <1>0, <2>1 DEF Moves, IsBusy
  <2>3. Busy' = Busy
    BY <2>2 DEF Busy, IsBusy
  <2>4. \A v \in Workers : NumberOf(v)' = NumberOf(v)
    BY <2>2 DEF NumberOf
  <2>5. \A n : BusyOn(n)' = BusyOn(n)
    BY <2>3, <2>4 DEF BusyOn, Busy
  <2>6. finished' = finished /\ next' = next /\ \A n : TakenOf(n)' = TakenOf(n)
    BY <1>1, <2>1 DEF Moves, TakenOf
  <2> QED
    BY <1>1, <1>3, <2>3, <2>5, <2>6 DEF AccountInv
<1>6. CASE \E r \in Result : Ends(w, r)
  <2>1. PICK r \in Result : Ends(w, r)
    BY <1>6
  <2>2. /\ \A v \in Workers \ {w} : worker'[v] = worker[v]
        /\ worker'[w].pc = "idle" /\ worker[w].pc # "idle"
        /\ finished' = Append(finished, r) /\ r.number = NumberOf(w) /\ next' = next
    BY <1>0, <1>4, <2>1 DEF Ends, IsBusy
  <2>3. Busy' = Busy \ {w} /\ w \in Busy
    BY <2>2 DEF Busy, IsBusy
  <2>4. \A v \in Workers \ {w} : NumberOf(v)' = NumberOf(v)
    BY <2>2 DEF NumberOf
  <2>5. \A n : BusyOn(n)' = BusyOn(n) \ {w}
    BY <2>3, <2>4 DEF BusyOn, Busy
  <2>6. \A n : w \in BusyOn(n) <=> r.number = n
    BY <2>2, <2>3 DEF BusyOn
  <2>7. Cardinality(Busy) = Cardinality(Busy') + 1
    BY <1>2, <2>3, CountOut
  <2>8. Cardinality(Busy') \in Nat /\ \A n : Cardinality(BusyOn(n)') \in Nat
    BY <1>2, <2>3, <2>5, FS_RemoveElement, FS_CardinalityType
  <2>9. \A n : TakenOf(n)' = TakenOf(n)
    BY <1>1, <2>2 DEF TakenOf
  <2>10. completed' + Len(finished') + Cardinality(Busy') = next' - 1
    BY <1>0, <1>1, <1>3, <2>2, <2>7, <2>8
  <2>11. ASSUME NEW n \in Numbers
         PROVE  Cardinality(Places(results', kept', n)) + Cardinality(Places(finished', 0, n))
                  + Cardinality(BusyOn(n)') = Cardinality(TakenOf(n)')
    <3>1. Cardinality(Places(finished', 0, n)) =
            Cardinality(Places(finished, 0, n)) + (IF r.number = n THEN 1 ELSE 0)
      <4>1. 0 \in 0..Len(finished)
        BY <1>0
      <4> QED
        BY <1>0, <2>2, <4>1, CountAppend
    <3>2. CASE r.number = n
      <4>1. Cardinality(BusyOn(n)) = Cardinality(BusyOn(n)') + 1
        BY <1>2, <2>5, <2>6, <3>2, CountOut
      <4> QED
        BY <1>1, <1>2, <1>3, <2>8, <2>9, <3>1, <3>2, <4>1
    <3>3. CASE r.number # n
      <4>1. BusyOn(n)' = BusyOn(n)
        BY <2>5, <2>6, <3>3
      <4> QED
        BY <1>1, <1>2, <1>3, <2>9, <3>1, <3>3, <4>1
    <3> QED
      BY <3>2, <3>3
  <2> QED
    BY <2>10, <2>11 DEF AccountInv
<1>7. CASE Begins(w)
  <2> DEFINE m == Number[pending[next]]
  <2>1. /\ \A v \in Workers \ {w} : worker'[v] = worker[v]
        /\ worker'[w] = [pc |-> "get", pr |-> pending[next]] /\ worker[w].pc = "idle"
        /\ finished' = finished /\ next <= Len(pending) /\ next' = next + 1
    BY <1>0, <1>7 DEF Begins, IsBusy
  <2>2. Busy' = Busy \cup {w} /\ w \notin Busy
    BY <2>1 DEF Busy, IsBusy
  <2>3. NumberOf(w)' = m /\ \A v \in Workers \ {w} : NumberOf(v)' = NumberOf(v)
    BY <2>1 DEF NumberOf
  <2> HIDE DEF m
  <2>4. \A n : BusyOn(n)' = IF m = n THEN BusyOn(n) \cup {w} ELSE BusyOn(n)
    BY <2>2, <2>3 DEF BusyOn, Busy
  <2>5. \A n : w \notin BusyOn(n)
    BY <2>2 DEF BusyOn
  <2>6. Cardinality(Busy') = Cardinality(Busy) + 1
    BY <1>2, <2>2, CountIn
  <2>7. completed' + Len(finished') + Cardinality(Busy') = next' - 1
    BY <1>0, <1>1, <1>2, <1>3, <2>1, <2>6
  <2>8. ASSUME NEW n \in Numbers
        PROVE  Cardinality(Places(results', kept', n)) + Cardinality(Places(finished', 0, n))
                 + Cardinality(BusyOn(n)') = Cardinality(TakenOf(n)')
    <3>1. Cardinality(TakenOf(n)') = Cardinality(TakenOf(n)) + (IF m = n THEN 1 ELSE 0)
      BY <1>1, <2>1, CountTaken DEF m
    <3>2. Cardinality(BusyOn(n)') = Cardinality(BusyOn(n)) + (IF m = n THEN 1 ELSE 0)
      BY <1>2, <2>4, <2>5, CountIn
    <3> QED
      BY <1>1, <1>2, <1>3, <2>1, <3>1, <3>2
  <2> QED
    BY <2>7, <2>8 DEF AccountInv
<1>8. CASE \E r \in Result : Answers(w, r)
  <2>1. PICK r \in Result : Answers(w, r)
    BY <1>8
  <2>2. /\ worker' = worker /\ next <= Len(pending) /\ next' = next + 1
        /\ finished' = Append(finished, r) /\ r.number = Number[pending[next]]
    BY <2>1 DEF Answers
  <2>3. Busy' = Busy /\ \A n : BusyOn(n)' = BusyOn(n)
    BY <2>2 DEF Busy, BusyOn, IsBusy, NumberOf
  <2>4. completed' + Len(finished') + Cardinality(Busy') = next' - 1
    BY <1>0, <1>1, <1>2, <1>3, <2>2, <2>3
  <2>5. ASSUME NEW n \in Numbers
        PROVE  Cardinality(Places(results', kept', n)) + Cardinality(Places(finished', 0, n))
                 + Cardinality(BusyOn(n)') = Cardinality(TakenOf(n)')
    <3>1. Cardinality(Places(finished', 0, n)) =
            Cardinality(Places(finished, 0, n)) + (IF r.number = n THEN 1 ELSE 0)
      <4>1. 0 \in 0..Len(finished)
        BY <1>0
      <4> QED
        BY <1>0, <2>2, <4>1, CountAppend
    <3>2. Cardinality(TakenOf(n)') = Cardinality(TakenOf(n)) + (IF r.number = n THEN 1 ELSE 0)
      BY <1>1, <2>2, CountTaken
    <3> QED
      BY <1>1, <1>2, <1>3, <2>3, <3>1, <3>2
  <2> QED
    BY <2>4, <2>5 DEF AccountInv
<1> QED
  BY <1>5, <1>6, <1>7, <1>8, ThreadShape

(* The account holds in the beginning ...                                    *)
LEMMA AccountInit == Init => AccountInv
<1> SUFFICES ASSUME Init PROVE AccountInv
  OBVIOUS
<1>1. /\ Busy = {}
      /\ \A n : Places(results, kept, n) = {}
      /\ \A n : Places(finished, 0, n) = {}
      /\ \A n : BusyOn(n) = {} /\ TakenOf(n) = {}
      /\ Len(finished) = 0 /\ completed = 0 /\ next = 1
  BY DEF Init, Idle, Busy, IsBusy, Places, BusyOn, TakenOf
<1>2. Cardinality({}) = 0
  BY FS_EmptySet
<1>3. ASSUME NEW n
      PROVE  Cardinality(Places(results, kept, n)) + Cardinality(Places(finished, 0, n))
               + Cardinality(BusyOn(n)) = Cardinality(TakenOf(n))
  <2>1. /\ Cardinality(Places(results, kept, n)) = 0 /\ Cardinality(Places(finished, 0, n)) = 0
        /\ Cardinality(BusyOn(n)) = 0 /\ Cardinality(TakenOf(n)) = 0
    BY <1>1, <1>2, Zenon
  <2> QED
    BY <2>1
<1> QED
  BY <1>1, <1>2, <1>3 DEF AccountInv

(* ... and every step keeps it: collecting moves a result to the others.     *)
LEMMA AccountStep == TypeInv /\ PhaseInv /\ AccountInv /\ [Next]_vars => AccountInv'
<1> SUFFICES ASSUME TypeInv, PhaseInv, AccountInv, [Next]_vars PROVE AccountInv'
  OBVIOUS
<1>1. ASSUME NEW m \in Modes, NEW prs \in Lists, Start(m, prs) PROVE AccountInv'
  <2>1. Busy = {} /\ finished = <<>>
    BY <1>1 DEF Start, PhaseInv, Outside
  <2>2. Busy' = {}
    BY <1>1, <2>1 DEF Start, Busy, IsBusy
  <2>3. /\ results' = <<>> /\ kept' = 0 /\ pending' = <<>> /\ next' = 1 /\ completed' = 0
        /\ finished' = <<>>
    BY <1>1, <2>1 DEF Start
  <2> QED
    BY <2>2, <2>3, NothingTaken
<1>2. CASE Indexing
  BY <1>2, IndexingShape, SameAccount
<1>3. CASE Resume
  <2>1. Busy = {} /\ finished = <<>> /\ next = 1 /\ completed = 0
    BY <1>3 DEF Resume, PhaseInv, Early
  <2>2. Busy' = {}
    BY <1>3, <2>1 DEF Resume, Busy, IsBusy
  <2>3. list \in Seq(Prs)
    <3>1. <<>> \in Seq(Prs) /\ Lists \subseteq Seq(Prs)
      BY ListAssumption
    <3> QED
      BY <3>1 DEF TypeInv
  <2>4. pending' \in Seq(Prs)
    BY <1>3, <2>3, PendingIsTheRest DEF Resume
  <2>5. results' \in Seq(Result) /\ kept' = Len(results')
    BY <1>3, ExistingType DEF Resume
  <2>6. next' = 1 /\ completed' = 0 /\ finished' = <<>>
    BY <1>3, <2>1 DEF Resume
  <2> QED
    BY <2>2, <2>4, <2>5, <2>6, NothingTaken
<1>4. CASE Collect
  <2> DEFINE r == Head(finished)
  <2>1. /\ finished # <<>> /\ results' = Append(results, r) /\ finished' = Tail(finished)
        /\ completed' = completed + 1
        /\ UNCHANGED <<kept, pending, next, worker>>
    BY <1>4 DEF Collect, AppendResult
  <2>2. /\ finished \in Seq(Result) /\ results \in Seq(Result) /\ kept \in 0..Len(results)
        /\ completed \in Nat /\ next \in Nat
    BY DEF TypeInv
  <2>3. r \in Result /\ Len(Tail(finished)) = Len(finished) - 1 /\ Len(finished) \in Nat
        /\ Tail(finished) \in Seq(Result)
    BY <2>1, <2>2
  <2>4. /\ Busy' = Busy /\ \A n : BusyOn(n)' = BusyOn(n)
        /\ \A n : TakenOf(n)' = TakenOf(n)
    BY <2>1 DEF Busy, BusyOn, IsBusy, NumberOf, TakenOf
  <2>5. completed' + Len(finished') + Cardinality(Busy') = next' - 1
    BY <2>1, <2>2, <2>3, <2>4, BusyFinite DEF AccountInv
  <2>6. ASSUME NEW n \in Numbers
        PROVE  Cardinality(Places(results', kept', n)) + Cardinality(Places(finished', 0, n))
                 + Cardinality(BusyOn(n)') = Cardinality(TakenOf(n)')
    <3>1. Cardinality(Places(results', kept', n)) =
            Cardinality(Places(results, kept, n)) + (IF r.number = n THEN 1 ELSE 0)
      BY <2>1, <2>2, <2>3, CountAppend
    <3>2. Cardinality(Places(finished, 0, n)) =
            Cardinality(Places(finished', 0, n)) + (IF r.number = n THEN 1 ELSE 0)
      BY <2>1, <2>2, CountTail
    <3>3. /\ Cardinality(Places(results, kept, n)) \in Nat
          /\ Cardinality(Places(finished', 0, n)) \in Nat
      BY <2>1, <2>2, <2>3, PlacesFinite
    <3>4. /\ Cardinality(BusyOn(n)) \in Nat
          /\ Cardinality(Places(results, kept, n)) + Cardinality(Places(finished, 0, n))
               + Cardinality(BusyOn(n)) = Cardinality(TakenOf(n))
      BY BusyFinite DEF AccountInv
    <3> HIDE DEF r
    <3> QED
      BY <2>4, <3>1, <3>2, <3>3, <3>4
  <2> QED
    BY <2>5, <2>6 DEF AccountInv
<1>5. CASE Save \/ ClosePool \/ Return \/ World
  BY <1>5, SameAccount DEF Save, ClosePool, Return, World
<1>6. ASSUME NEW w \in Workers, Thread(w) PROVE AccountInv'
  BY <1>6, AccountThread
<1>7. CASE Kill
  <2>1. Busy' = {}
    BY <1>7 DEF Kill, Busy, IsBusy, Idle
  <2>2. /\ results' = <<>> /\ kept' = 0 /\ pending' = <<>> /\ next' = 1 /\ completed' = 0
        /\ finished' = <<>>
    BY <1>7 DEF Kill
  <2> QED
    BY <2>1, <2>2, NothingTaken
<1>8. CASE UNCHANGED vars
  BY <1>8, SameAccount DEF vars, batchVars
<1> QED
  BY <1>1, <1>2, <1>3, <1>4, <1>5, <1>6, <1>7, <1>8 DEF Next, Main, Indexing

(* Every phase is what PhaseInv says of it: in the beginning ...             *)
LEMMA PhaseInit == Init => PhaseInv
  BY DEF Init, PhaseInv, Early, Busy, IsBusy, Idle

(* ... and after each step; the pool is closed when nothing is open.         *)
LEMMA PhaseStep == TypeInv /\ PhaseInv /\ AccountInv /\ [Next]_vars => PhaseInv'
<1> SUFFICES ASSUME TypeInv, PhaseInv, AccountInv, [Next]_vars PROVE PhaseInv'
  OBVIOUS
<1>1. ASSUME NEW m \in Modes, NEW prs \in Lists, Start(m, prs) PROVE PhaseInv'
  <2>1. Busy = {} /\ finished = <<>>
    BY <1>1 DEF Start, PhaseInv, Outside
  <2>2. Busy' = {} /\ finished' = <<>>
    BY <1>1, <2>1 DEF Start, Busy, IsBusy
  <2> QED
    BY <1>1, <2>2 DEF Start, PhaseInv, Early
<1>2. CASE Indexing
  <2>1. Early /\ Early' /\ phase' \notin {"final", "returned"}
    BY <1>2, IndexingShape DEF Early
  <2>2. UNCHANGED <<next, completed, finished, worker>>
    BY <1>2, IndexingShape
  <2>3. Busy = {} /\ finished = <<>>
    BY <1>2, IndexingShape DEF PhaseInv
  <2>4. Busy' = {}
    BY <2>2, <2>3 DEF Busy, IsBusy
  <2> QED
    BY <2>1, <2>2, <2>3, <2>4 DEF PhaseInv
<1>3. CASE Resume
  <2>1. ~ Early' /\ phase' = "pool"
    BY <1>3 DEF Resume, Early
  <2>2. list \in Seq(Prs)
    <3>1. <<>> \in Seq(Prs) /\ Lists \subseteq Seq(Prs)
      BY ListAssumption
    <3> QED
      BY <3>1 DEF TypeInv
  <2>3. /\ results' = Existing /\ kept' = Len(Existing) /\ list' = list
        /\ pending' = PendingAfter(NumbersOf(Existing))
    BY <1>3 DEF Resume
  <2>4. ASSUME NEW i \in 1..Len(list)
        PROVE  \/ \E j \in 1..kept' : results'[j].number = Number[list[i]]
               \/ \E j \in 1..Len(pending') : pending'[j] = list[i]
    <3>1. CASE Number[list[i]] \in NumbersOf(Existing)
      <4>1. DOMAIN Existing = 1..Len(Existing)
        BY ExistingType
      <4> QED
        BY <2>3, <3>1, <4>1 DEF NumbersOf
    <3>2. CASE Number[list[i]] \notin NumbersOf(Existing)
      BY <2>2, <2>3, <3>2, PendingIsTheRest
    <3> QED
      BY <3>1, <3>2
  <2> QED
    BY <2>1, <2>3, <2>4 DEF PhaseInv
<1>4. CASE Collect
  <2>1. /\ phase = "pool" /\ phase' \in {"pool", "saving"}
        /\ results' = Append(results, Head(finished))
        /\ UNCHANGED <<kept, pending, list>>
    BY <1>4 DEF Collect, AppendResult
  <2>2. \A j \in 1..kept : results'[j] = results[j]
    <3>1. results \in Seq(Result) /\ kept \in 0..Len(results)
      BY DEF TypeInv
    <3> QED
      BY <2>1, <3>1
  <2>3. ~ Early /\ ~ Early'
    BY <2>1 DEF Early
  <2>4. ASSUME NEW i \in 1..Len(list)
        PROVE  \/ \E j \in 1..kept : results'[j].number = Number[list[i]]
               \/ \E j \in 1..Len(pending) : pending[j] = list[i]
    BY <2>2, <2>3 DEF PhaseInv
  <2> QED
    BY <2>1, <2>3, <2>4 DEF PhaseInv
<1>5. CASE Save
  BY <1>5 DEF Save, PhaseInv, Early
<1>6. CASE ClosePool
  <2>1. /\ completed = Len(pending) /\ completed \in Nat /\ next \in 1..(Len(pending) + 1)
        /\ finished \in Seq(Result) /\ Len(pending) \in Nat
    BY <1>6 DEF ClosePool, TypeInv
  <2>2. completed + Len(finished) + Cardinality(Busy) = next - 1
    BY DEF AccountInv
  <2>3. Cardinality(Busy) = 0 /\ Len(finished) = 0
    BY <2>1, <2>2, BusyFinite
  <2>4. Busy = {} /\ finished = <<>>
    <3>1. Cardinality(Busy) = 0 <=> Busy = {}
      BY BusyFinite, FS_EmptySet
    <3> QED
      BY <2>1, <2>3, <3>1
  <2>5. Busy' = {}
    BY <1>6, <2>4 DEF ClosePool, Busy, IsBusy
  <2> QED
    BY <1>6, <2>4, <2>5 DEF ClosePool, PhaseInv, Early
<1>7. CASE Return
  <2>1. Busy' = {}
    BY <1>7 DEF Return, PhaseInv, Busy, IsBusy
  <2> QED
    BY <1>7, <2>1 DEF Return, FillOutput, PhaseInv, Early
<1>8. ASSUME NEW w \in Workers, Thread(w) PROVE PhaseInv'
  <2>1. /\ UNCHANGED <<phase, list, results, kept, pending, completed, output>>
        /\ phase \in {"pool", "saving"}
    BY <1>8, ThreadFrame
  <2> QED
    BY <2>1 DEF PhaseInv, Early
<1>9. CASE Kill
  <2>1. Busy' = {}
    BY <1>9 DEF Kill, Busy, IsBusy, Idle
  <2> QED
    BY <1>9, <2>1 DEF Kill, PhaseInv, Early
<1>10. CASE World \/ UNCHANGED vars
  <2>1. UNCHANGED <<phase, list, results, kept, pending, next, completed, worker, finished, output>>
    BY <1>10 DEF World, vars, batchVars
  <2>2. Busy' = Busy /\ Early' = Early
    BY <2>1 DEF Busy, IsBusy, Early
  <2> QED
    BY <2>1, <2>2 DEF PhaseInv
<1> QED
  BY <1>1, <1>2, <1>3, <1>4, <1>5, <1>6, <1>7, <1>8, <1>9, <1>10 DEF Next, Main, Indexing
-------------------------------------------------------------------------------
(* In the beginning nothing was seen.                                        *)
LEMMA StartedInit == Init => StartedInv
  BY DEF Init, NothingKnown, CacheInit, IndexInit, StartedInv, Roots

(* Pushes and syncs only add versions and changes.                         *)
LEMMA StartedStep == TypeInv /\ IndexInv /\ StartedInv /\ [Next]_vars => StartedInv'
<1> SUFFICES ASSUME TypeInv, IndexInv, StartedInv, [Next]_vars PROVE StartedInv'
  OBVIOUS
<1>0. /\ IndexTypeOK /\ CacheTypeOK
      /\ \A pr \in Prs : upstream[pr] \in Nat
      /\ \A r \in Roots : tree[r].top \in Nat /\ Signature(r) = tree[r].top
  BY TreeType, MaxChangesAssumption, MaxVersionAssumption DEF TypeInv, CacheTypeOK, Versions
<1>1. ASSUME NEW m \in Modes, NEW prs \in Lists, Start(m, prs) PROVE StartedInv'
  <2>1. /\ started'.upstream = upstream
        /\ \A r \in Roots : started'.tree[r] = Signature(r)
        /\ started'.cached \subseteq Prs
        /\ UNCHANGED <<upstream, tree>>
    BY <1>1 DEF Start, cacheVars
  <2> QED
    BY <1>0, <2>1 DEF StartedInv
<1>2. CASE Kill
  <2>1. /\ \A pr \in Prs : started'.upstream[pr] = 0
        /\ \A r \in Roots : started'.tree[r] = 0
        /\ started'.cached = {}
        /\ UNCHANGED <<upstream, tree>>
    BY <1>2 DEF Kill, NothingKnown, cacheVars
  <2> QED
    BY <1>0, <2>1 DEF StartedInv
<1>3. CASE started' = started /\ CacheStep /\ IndexStep
  <2>1. \A pr \in Prs : upstream'[pr] \in Nat /\ upstream'[pr] >= upstream[pr]
    <3>1. CacheTypeOK' /\ \A pr \in Prs : upstream'[pr] >= upstream[pr]
      BY <1>0, <1>3, CacheTypeStep
    <3> QED
      BY <3>1, MaxVersionAssumption DEF CacheTypeOK, Versions
  <2>2. \A r \in Roots : tree'[r].top \in Nat /\ tree'[r].top >= tree[r].top
    <3>1. IndexTypeOK'
      BY <1>0, <1>3, IndexTypeStep
    <3>2. \A r \in Roots : tree'[r].top \in Nat
      BY <3>1, MaxChangesAssumption DEF IndexTypeOK, States
    <3>3. \A r \in Roots : tree'[r].top >= tree[r].top
      <4>1. CASE \E root \in Roots : Sync(root)
        BY <1>0, <4>1, SyncType
      <4>2. CASE tree' = tree
        BY <1>0, <4>2
      <4> QED
        BY <1>3, <4>1, <4>2
        DEF IndexStep, LookUp, LoadIndex, BuildIndex, FillIndex, ForgetIndexes, indexVars
    <3> QED
      BY <3>2, <3>3
  <2> QED
    BY <1>0, <1>3, <2>1, <2>2 DEF StartedInv
<1>4. CASE Indexing
  BY <1>3, <1>4, IndexingShape DEF CacheStep
<1>5. CASE Resume \/ Collect \/ Save \/ ClosePool \/ Return
  BY <1>3, <1>5 DEF Resume, Collect, Save, ClosePool, Return, CacheStep, IndexStep
<1>6. ASSUME NEW w \in Workers, Thread(w) PROVE StartedInv'
  BY <1>3, <1>6, ThreadFrame DEF IndexStep
<1>7. CASE World
  BY <1>3, <1>7 DEF World, CacheStep, IndexStep
<1>8. CASE UNCHANGED vars
  BY <1>3, <1>8 DEF vars, batchVars, CacheStep, IndexStep
<1> QED
  BY <1>1, <1>2, <1>4, <1>5, <1>6, <1>7, <1>8 DEF Next, Main, Indexing

(* An index that is stored stays of its key.                               *)
LEMMA StoredStep ==
  ASSUME IndexTypeOK, StoredFresh, NEW kind \in Kinds,
         UNCHANGED key,
         \/ stored' = [stored EXCEPT ![kind][key] = TornIndex]
         \/ /\ stored' = [stored EXCEPT ![kind][key] = index[kind]]
            /\ kind = "sdk" => index["sdk"].sdk.top >= key[1]
            /\ kind = "inverted" => index["inverted"].xts.top >= key[2]
  PROVE  StoredFresh'
<1> DEFINE Files == Snapshots \cup {NoIndex, TornIndex}
<1>1. stored \in [Kinds -> [Keys -> Files]] /\ key \in Keys
  BY DEF IndexTypeOK
<1>2. PICK file : /\ stored' = [stored EXCEPT ![kind][key] = file]
                  /\ file \in Snapshots /\ kind = "sdk" => file.sdk.top >= key[1]
                  /\ file \in Snapshots /\ kind = "inverted" => file.xts.top >= key[2]
  BY NotAnIndex
<1> HIDE DEF Files
<1>3. ASSUME NEW k2 \in Kinds, NEW k \in Keys
      PROVE  stored'[k2][k] = IF k2 = kind /\ k = key THEN file ELSE stored[k2][k]
  BY <1>1, <1>2
<1>4. "sdk" \in Kinds /\ "inverted" \in Kinds
  BY DEF Kinds
<1> SUFFICES ASSUME NEW k \in Keys
             PROVE  /\ stored'["sdk"][k] \in Snapshots => stored'["sdk"][k].sdk.top >= k[1]
                    /\ stored'["inverted"][k] \in Snapshots => stored'["inverted"][k].xts.top >= k[2]
  BY DEF StoredFresh
<1>5. /\ stored["sdk"][k] \in Snapshots => stored["sdk"][k].sdk.top >= k[1]
      /\ stored["inverted"][k] \in Snapshots => stored["inverted"][k].xts.top >= k[2]
  BY DEF StoredFresh
<1>6. /\ stored'["sdk"][k] = IF "sdk" = kind /\ k = key THEN file ELSE stored["sdk"][k]
      /\ stored'["inverted"][k] = IF "inverted" = kind /\ k = key THEN file ELSE stored["inverted"][k]
  BY <1>3, <1>4
<1> QED
  BY <1>2, <1>5, <1>6

(* In the beginning no index is stored.                                      *)
LEMMA IndexInvInit == Init => IndexInv
<1> SUFFICES ASSUME Init PROVE IndexInv
  OBVIOUS
<1>1. \A k \in Keys : stored["sdk"][k] = NoIndex /\ stored["inverted"][k] = NoIndex
  BY DEF Init, IndexInit, Kinds
<1>2. StoredFresh
  BY <1>1, NotAnIndex DEF StoredFresh
<1> QED
  BY <1>2 DEF Init, IndexInv, HasSdk, HasBoth

(* The steps that make the indexes: the key is taken from the trees as     *)
(* they are, which is at least what the batch started with.                *)
LEMMA IndexingInv ==
  ASSUME IndexTypeOK, StartedInv, IndexInv, Indexing
  PROVE  IndexInv'
<1>0. /\ \A r \in Roots : tree[r].top \in Nat /\ started.tree[r] \in Nat /\ tree[r].top >= started.tree[r]
      /\ "sdk" \in Roots /\ "xts" \in Roots /\ "sdk" \in Kinds /\ "inverted" \in Kinds
      /\ started' = started
      /\ index \in [Kinds -> Snapshots \cup {NoIndex}]
      /\ key \in Keys /\ key[1] \in Nat /\ key[2] \in Nat
  BY TreeType, IndexingShape, MaxChangesAssumption DEF StartedInv, Roots, Kinds, IndexTypeOK, Keys
<1> USE DEF IndexInv, HasSdk, HasBoth
<1>1. CASE LookUpIndex
  <2>1. CASE At("sdk", "sdk-load") /\ LookUp("sdk")
    <3>1. key' = KeyOf("sdk") /\ key'[1] = tree["sdk"].top /\ UNCHANGED <<tree, stored, index>>
      BY <2>1, TreeType DEF LookUp
    <3>2. phase' = "sdk-load"
      BY <2>1 DEF At
    <3>3. StoredFresh'
      BY <3>1 DEF StoredFresh
    <3> QED
      BY <1>0, <3>1, <3>2, <3>3
  <2>2. CASE At("inverted", "inverted-load") /\ LookUp("inverted")
    <3>1. key' = KeyOf("inverted") /\ key'[2] = tree["xts"].top /\ UNCHANGED <<tree, stored, index>>
      BY <2>2, TreeType DEF LookUp
    <3>2. phase = "inverted" /\ phase' = "inverted-load"
      BY <2>2 DEF At
    <3>3. StoredFresh'
      BY <3>1 DEF StoredFresh
    <3> QED
      BY <1>0, <3>1, <3>2, <3>3
  <2> QED
    BY <1>1, <2>1, <2>2 DEF LookUpIndex
<1>2. CASE UseStoredIndex
  <2>1. CASE At("sdk-load", "inverted") /\ LoadIndex("sdk")
    <3>1. /\ stored["sdk"][key] \in Snapshots
          /\ index'["sdk"] = stored["sdk"][key] /\ UNCHANGED <<tree, stored, key>>
      BY <1>0, <2>1 DEF LoadIndex, IsStored, IndexTypeOK
    <3>2. phase = "sdk-load" /\ phase' = "inverted"
      BY <2>1 DEF At
    <3>3. StoredFresh'
      BY <3>1 DEF StoredFresh
    <3>4. index'["sdk"].sdk.top >= key[1] /\ index'["sdk"].sdk.top \in Nat
      BY <1>0, <3>1, SnapshotType DEF StoredFresh
    <3>5. index'["sdk"].sdk.top >= started.tree["sdk"]
      BY <1>0, <3>2, <3>4
    <3> QED
      BY <1>0, <3>1, <3>2, <3>3, <3>5
  <2>2. CASE At("inverted-load", "resume") /\ LoadIndex("inverted")
    <3>1. /\ stored["inverted"][key] \in Snapshots
          /\ index'["inverted"] = stored["inverted"][key] /\ UNCHANGED <<tree, stored, key>>
          /\ index'["sdk"] = index["sdk"]
      BY <1>0, <2>2 DEF LoadIndex, IsStored, IndexTypeOK
    <3>2. phase = "inverted-load" /\ phase' = "resume"
      BY <2>2 DEF At
    <3>3. StoredFresh'
      BY <3>1 DEF StoredFresh
    <3>4. index'["inverted"].xts.top >= key[2] /\ index'["inverted"].xts.top \in Nat
      BY <1>0, <3>1, SnapshotType DEF StoredFresh
    <3>5. index'["inverted"].xts.top >= started.tree["xts"]
      BY <1>0, <3>2, <3>4
    <3> QED
      BY <1>0, <3>1, <3>2, <3>3, <3>5
  <2> QED
    BY <1>2, <2>1, <2>2 DEF UseStoredIndex
<1>3. CASE MakeIndex
  <2>1. CASE At("sdk-load", "sdk-fill") /\ BuildIndex("sdk")
    <3>1. /\ index'["sdk"] = Built("sdk") /\ UNCHANGED <<tree, key>>
          /\ stored' = [stored EXCEPT !["sdk"][key] = TornIndex]
      BY <1>0, <2>1 DEF BuildIndex
    <3>2. phase = "sdk-load" /\ phase' = "sdk-fill"
      BY <2>1 DEF At
    <3>3. StoredFresh'
      BY <1>0, <3>1, StoredStep
    <3>4. Built("sdk") \in Snapshots /\ Built("sdk").sdk.top = tree["sdk"].top
      BY <1>0, BuiltType
    <3> QED
      BY <1>0, <3>1, <3>2, <3>3, <3>4
  <2>2. CASE At("inverted-load", "inverted-fill") /\ BuildIndex("inverted")
    <3>1. /\ index'["inverted"] = Built("inverted") /\ UNCHANGED <<tree, key>>
          /\ index'["sdk"] = index["sdk"]
          /\ stored' = [stored EXCEPT !["inverted"][key] = TornIndex]
      BY <1>0, <2>2 DEF BuildIndex
    <3>2. phase = "inverted-load" /\ phase' = "inverted-fill"
      BY <2>2 DEF At
    <3>3. StoredFresh'
      BY <1>0, <3>1, StoredStep
    <3>4. Built("inverted") \in Snapshots /\ Built("inverted").xts.top = tree["xts"].top
      BY <1>0, <3>2, BuiltType
    <3> QED
      BY <1>0, <3>1, <3>2, <3>3, <3>4
  <2> QED
    BY <1>3, <2>1, <2>2 DEF MakeIndex
<1>4. CASE StoreIndex
  <2>1. CASE At("sdk-fill", "inverted") /\ FillIndex("sdk")
    <3>1. stored' = [stored EXCEPT !["sdk"][key] = index["sdk"]] /\ UNCHANGED <<tree, index, key>>
      BY <2>1 DEF FillIndex
    <3>2. phase = "sdk-fill" /\ phase' = "inverted"
      BY <2>1 DEF At
    <3>3. StoredFresh'
      BY <1>0, <3>1, <3>2, StoredStep
    <3>4. index["sdk"].sdk.top \in Nat
      BY <3>2, SnapshotType
    <3> QED
      BY <1>0, <3>1, <3>2, <3>3, <3>4
  <2>2. CASE At("inverted-fill", "resume") /\ FillIndex("inverted")
    <3>1. stored' = [stored EXCEPT !["inverted"][key] = index["inverted"]]
          /\ UNCHANGED <<tree, index, key>>
      BY <2>2 DEF FillIndex
    <3>2. phase = "inverted-fill" /\ phase' = "resume"
      BY <2>2 DEF At
    <3>3. StoredFresh'
      BY <1>0, <3>1, <3>2, StoredStep
    <3>4. index["inverted"].xts.top \in Nat
      BY <3>2, SnapshotType
    <3> QED
      BY <1>0, <3>1, <3>2, <3>3, <3>4
  <2> QED
    BY <1>4, <2>1, <2>2 DEF StoreIndex
<1> QED
  BY <1>1, <1>2, <1>3, <1>4 DEF Indexing

(* The indexes of a batch are at least as new as its start.                  *)
LEMMA IndexInvStep == TypeInv /\ StartedInv /\ IndexInv /\ [Next]_vars => IndexInv'
<1> SUFFICES ASSUME TypeInv, StartedInv, IndexInv, [Next]_vars PROVE IndexInv'
  OBVIOUS
<1>0. IndexTypeOK
  BY DEF TypeInv
<1>1. ASSUME NEW m \in Modes, NEW prs \in Lists, Start(m, prs) PROVE IndexInv'
  <2>1. phase' = "sdk" /\ stored' = stored
    BY <1>1 DEF Start
  <2>2. StoredFresh'
    BY <2>1 DEF IndexInv, StoredFresh
  <2> QED
    BY <2>1, <2>2 DEF IndexInv, HasSdk, HasBoth
<1>2. CASE Kill
  <2>1. phase' = "none" /\ stored' = stored
    BY <1>2 DEF Kill
  <2>2. StoredFresh'
    BY <2>1 DEF IndexInv, StoredFresh
  <2> QED
    BY <2>1, <2>2 DEF IndexInv, HasSdk, HasBoth
<1>3. CASE Indexing
  BY <1>0, <1>3, IndexingInv
<1>4. CASE /\ UNCHANGED <<indexVars, started>>
           /\ phase \in {"resume", "pool", "saving", "final", "returned"}
           /\ phase' \in {"resume", "pool", "saving", "final", "returned"}
  <2>1. StoredFresh'
    BY <1>4 DEF IndexInv, StoredFresh, indexVars
  <2> QED
    BY <1>4, <2>1 DEF IndexInv, HasSdk, HasBoth, indexVars
<1>5. CASE Resume \/ Collect \/ Save \/ ClosePool \/ Return
  BY <1>4, <1>5 DEF Resume, Collect, Save, ClosePool, Return
<1>6. ASSUME NEW w \in Workers, Thread(w) PROVE IndexInv'
  BY <1>4, <1>6, ThreadFrame
<1>7. CASE World \/ UNCHANGED vars
  <2>1. UNCHANGED <<stored, index, key, phase, started>>
    BY <1>7 DEF World, Sync, vars, indexVars, batchVars
  <2>2. StoredFresh'
    BY <2>1 DEF IndexInv, StoredFresh
  <2>3. /\ \A r \in Roots : tree'[r].top >= tree[r].top /\ tree'[r].top \in Nat /\ tree[r].top \in Nat
        /\ "sdk" \in Roots /\ "xts" \in Roots /\ key[1] \in Nat /\ key[2] \in Nat
    <3>1. CASE \E root \in Roots : Sync(root)
      <4>1. /\ tree' \in [Roots -> States]
            /\ \A r \in Roots : tree'[r].top >= tree[r].top
        BY <1>0, <3>1, SyncType
      <4> QED
        BY <1>0, <4>1, TreeType, MaxChangesAssumption DEF States, Roots, IndexTypeOK, Keys
    <3>2. CASE tree' = tree
      <4>1. \A r \in Roots : tree[r].top \in Nat
        BY <1>0, TreeType
      <4>2. \A r \in Roots : tree'[r].top = tree[r].top
        BY <3>2
      <4>3. key[1] \in Nat /\ key[2] \in Nat
        BY <1>0 DEF IndexTypeOK, Keys
      <4> QED
        BY <4>1, <4>2, <4>3 DEF Roots
    <3> QED
      BY <1>7, <3>1, <3>2 DEF World, vars, indexVars
  <2> QED
    BY <2>1, <2>2, <2>3 DEF IndexInv, HasSdk, HasBoth
<1> QED
  BY <1>1, <1>2, <1>3, <1>5, <1>6, <1>7 DEF Next, Main, Indexing
-------------------------------------------------------------------------------
(* In the mode refresh: every success, collected or not, is at least as    *)
(* new as what there was when the batch started, and so is the data that a *)
(* thread works on.                                                        *)
Fresh(r) ==
  /\ r.version >= started.upstream[r.of]
  /\ r.index["sdk"].sdk.top >= started.tree["sdk"]
  /\ r.index["inverted"].xts.top >= started.tree["xts"]

AllFresh(rs) == \A i \in 1..Len(rs) : IsOk(rs[i]) => Fresh(rs[i])

WorkersFresh ==
  \A w \in Workers : worker[w].pc \in {"put", "resolve", "save"} =>
     worker[w].version >= started.upstream[worker[w].pr]

FreshInv == mode = "refresh" => AllFresh(results) /\ AllFresh(finished) /\ WorkersFresh

(* The parts of a sequence that is appended to, or taken from.             *)
LEMMA Appended ==
  ASSUME NEW T, NEW s \in Seq(T), NEW e \in T
  PROVE  /\ Len(Append(s, e)) = Len(s) + 1 /\ Len(s) \in Nat
         /\ \A i \in 1..Len(Append(s, e)) :
              Append(s, e)[i] = IF i = Len(s) + 1 THEN e ELSE s[i]
  OBVIOUS

LEMMA Taken ==
  ASSUME NEW T, NEW s \in Seq(T), s # <<>>
  PROVE  /\ Len(s) \in Nat /\ Len(s) >= 1 /\ Len(Tail(s)) = Len(s) - 1
         /\ Head(s) = s[1]
         /\ \A i \in 1..Len(Tail(s)) : Tail(s)[i] = s[i + 1]
  OBVIOUS

(* One more success that is fresh, and what is left of them.               *)
LEMMA FreshAppended ==
  ASSUME NEW s \in Seq(Result), NEW r \in Result, AllFresh(s), IsOk(r) => Fresh(r)
  PROVE  AllFresh(Append(s, r))
<1>1. /\ Len(Append(s, r)) = Len(s) + 1 /\ Len(s) \in Nat
      /\ \A i \in 1..Len(Append(s, r)) : Append(s, r)[i] = IF i = Len(s) + 1 THEN r ELSE s[i]
  BY Appended
<1> QED
  BY <1>1 DEF AllFresh

LEMMA FreshTaken ==
  ASSUME NEW s \in Seq(Result), s # <<>>, AllFresh(s)
  PROVE  /\ IsOk(Head(s)) => Fresh(Head(s))
         /\ AllFresh(Tail(s))
<1>1. /\ Len(s) \in Nat /\ Len(s) >= 1 /\ Len(Tail(s)) = Len(s) - 1
      /\ Head(s) = s[1]
      /\ \A i \in 1..Len(Tail(s)) : Tail(s)[i] = s[i + 1]
  BY Taken
<1> QED
  BY <1>1 DEF AllFresh

(* What Fresh says is the same as long as the batch is.                    *)
LEMMA SameFresh ==
  ASSUME started' = started, NEW rs, AllFresh(rs)
  PROVE  \A i \in 1..Len(rs) : IsOk(rs[i]) => Fresh(rs[i])'
  BY DEF AllFresh, Fresh

(* One thread is elsewhere, the others are where they were.                *)
LEMMA WorkersFreshStep ==
  ASSUME TypeInv, WorkersFresh, UNCHANGED started, NEW w \in Workers, NEW x,
         worker' = [worker EXCEPT ![w] = x],
         x.pc \in {"put", "resolve", "save"} => x.version >= started.upstream[x.pr]
  PROVE  WorkersFresh'
<1>1. \A v \in Workers : worker'[v] = IF v = w THEN x ELSE worker[v]
  BY DEF TypeInv
<1> SUFFICES ASSUME NEW v \in Workers, worker'[v].pc \in {"put", "resolve", "save"}
             PROVE  worker'[v].version >= started.upstream[worker'[v].pr]
  BY DEF WorkersFresh
<1>2. CASE v = w
  BY <1>1, <1>2
<1>3. CASE v # w
  BY <1>1, <1>3 DEF WorkersFresh
<1> QED
  BY <1>2, <1>3

(* A thread in the mode refresh asks the host for the data and takes the   *)
(* indexes of this batch: nothing older reaches its result.                *)
LEMMA FreshThread ==
  ASSUME TypeInv, StartedInv, IndexInv, FreshInv, NEW w \in Workers, Thread(w)
  PROVE  FreshInv'
<1>0. UNCHANGED <<phase, mode, results, started, upstream>> /\ phase \in {"pool", "saving"}
  BY ThreadFrame
<1> SUFFICES ASSUME mode = "refresh" PROVE FreshInv'
  BY <1>0 DEF FreshInv
<1>1. /\ AllFresh(results) /\ AllFresh(finished) /\ WorkersFresh
      /\ finished \in Seq(Result) /\ worker \in [Workers -> WorkerStates]
  BY DEF FreshInv, TypeInv
<1>2. AllFresh(results)'
  BY <1>0, <1>1 DEF AllFresh, Fresh
<1>3. ASSUME NEW r \in Result, IsOk(r) => Fresh(r), Finish(w, r)
      PROVE  FreshInv'
  <2>1. AllFresh(Append(finished, r)) /\ finished' = Append(finished, r)
    BY <1>1, <1>3, FreshAppended DEF Finish
  <2>2. AllFresh(finished)'
    BY <1>0, <2>1 DEF AllFresh, Fresh
  <2>3. worker' = [worker EXCEPT ![w] = Idle] /\ Idle.pc = "idle"
    BY <1>3 DEF Finish, Idle
  <2>4. WorkersFresh'
    BY <1>0, <1>1, <2>3, WorkersFreshStep
  <2> QED
    BY <1>2, <2>2, <2>4 DEF FreshInv
<1>4. ASSUME NEW x, worker' = [worker EXCEPT ![w] = x], UNCHANGED finished,
             x.pc \in {"put", "resolve", "save"} => x.version >= started.upstream[x.pr]
      PROVE  FreshInv'
  <2>1. WorkersFresh'
    BY <1>0, <1>1, <1>4, WorkersFreshStep
  <2>2. AllFresh(finished)'
    BY <1>0, <1>1, <1>4 DEF AllFresh, Fresh
  <2> QED
    BY <1>2, <2>1, <2>2 DEF FreshInv
<1>5. CASE Take(w)
  <2> DEFINE x == [pc |-> "get", pr |-> pending[next]]
  <2>1. worker' = [worker EXCEPT ![w] = x] /\ UNCHANGED finished
    BY <1>5 DEF Take
  <2>2. x.pc = "get"
    OBVIOUS
  <2> HIDE DEF x
  <2> QED
    BY <1>4, <2>1, <2>2
<1>6. CASE ReadCache(w)
  <2>1. Get(mode, worker[w].pr) = Nothing /\ Nothing # Missing /\ ~ IsUsable(Nothing)
    BY DEF Get, Nothing, Missing, IsUsable
  <2>2. Go(w, "fetch") /\ UNCHANGED finished
    BY <1>6, <2>1 DEF ReadCache
  <2> DEFINE x == [worker[w] EXCEPT !.pc = "fetch"]
  <2>3. worker[w].pc = "get"
    BY <1>6 DEF ReadCache
  <2>4. x.pc = "fetch"
    BY <2>3, GoType
  <2>5. worker' = [worker EXCEPT ![w] = x]
    BY <1>1, <2>2 DEF Go
  <2> HIDE DEF x
  <2> QED
    BY <1>4, <2>2, <2>4, <2>5
<1>7. CASE Fetch(w)
  <2>1. PICK pc \in {"resolve", "put"} :
          worker' = [worker EXCEPT ![w] = [pc |-> pc, pr |-> worker[w].pr,
                                           version |-> upstream[worker[w].pr]]]
    BY <1>7 DEF Fetch
  <2>2. worker[w].pr \in Prs
    BY <1>7, BusyType DEF Fetch, IsBusy
  <2>3. upstream[worker[w].pr] >= started.upstream[worker[w].pr]
    BY <2>2 DEF StartedInv
  <2> DEFINE x == [pc |-> pc, pr |-> worker[w].pr, version |-> upstream[worker[w].pr]]
  <2>4. x.version = upstream[worker[w].pr] /\ x.pr = worker[w].pr
    OBVIOUS
  <2>5. worker' = [worker EXCEPT ![w] = x] /\ UNCHANGED finished
    BY <1>7, <2>1 DEF Fetch
  <2> HIDE DEF x
  <2> QED
    BY <1>4, <2>3, <2>4, <2>5
<1>8. CASE Put(w) \/ Resolve(w)
  <2>1. PICK pc \in {"resolve", "save"} : Go(w, pc)
    BY <1>8 DEF Put, Resolve
  <2>2. worker[w].pc \in {"put", "resolve"} /\ UNCHANGED finished
    BY <1>8 DEF Put, Resolve
  <2> DEFINE x == [worker[w] EXCEPT !.pc = pc]
  <2>3. x.pr = worker[w].pr /\ x.version = worker[w].version
    BY <2>2, GoType
  <2>4. worker' = [worker EXCEPT ![w] = x]
    BY <1>1, <2>1 DEF Go
  <2>5. worker[w].version >= started.upstream[worker[w].pr]
    BY <1>1, <2>2 DEF WorkersFresh
  <2> HIDE DEF x
  <2> QED
    BY <1>4, <2>2, <2>3, <2>4, <2>5
<1>9. CASE SaveAnswer(w)
  <2> DEFINE r == Ok(NumberOf(w), worker[w].pr, worker[w].version)
  <2>1. worker[w].pc = "save" /\ Finish(w, r)
    BY <1>9 DEF SaveAnswer
  <2>2. NumberOf(w) \in Numbers /\ worker[w].pr \in Prs /\ worker[w].version \in Versions
    BY <2>1, BusyType DEF IsBusy
  <2>3. r \in Result /\ r.of = worker[w].pr /\ r.version = worker[w].version /\ r.index = index
    BY <2>2, OkType DEF TypeInv, Ok
  <2>4. worker[w].version >= started.upstream[worker[w].pr]
    BY <1>1, <2>1 DEF WorkersFresh
  <2>5. index["sdk"].sdk.top >= started.tree["sdk"] /\ index["inverted"].xts.top >= started.tree["xts"]
    BY <1>0 DEF IndexInv, HasSdk, HasBoth
  <2> HIDE DEF r
  <2>6. Fresh(r)
    BY <2>3, <2>4, <2>5 DEF Fresh
  <2> QED
    BY <1>3, <2>1, <2>3, <2>6
<1>10. CASE Fail(w)
  <2>1. Finish(w, Error(NumberOf(w))) /\ NumberOf(w) \in Numbers
    BY <1>10, BusyType DEF Fail, IsBusy
  <2> QED
    BY <1>3, <2>1, ErrorType
<1> QED
  BY <1>5, <1>6, <1>7, <1>8, <1>9, <1>10 DEF Thread

(* In the beginning there is no result.                                      *)
LEMMA FreshInit == Init => FreshInv
  BY DEF Init, FreshInv

(* A refresh stays fresh: it keeps no result of a batch before.              *)
LEMMA FreshStep ==
  TypeInv /\ PhaseInv /\ StartedInv /\ IndexInv /\ FreshInv /\ [Next]_vars => FreshInv'
<1> SUFFICES ASSUME TypeInv, PhaseInv, StartedInv, IndexInv, FreshInv, [Next]_vars PROVE FreshInv'
  OBVIOUS
<1>1. ASSUME Busy = {}, UNCHANGED worker PROVE WorkersFresh'
  BY <1>1 DEF Busy, IsBusy, WorkersFresh
<1>2. ASSUME NEW m \in Modes, NEW prs \in Lists, Start(m, prs) PROVE FreshInv'
  <2>1. Busy = {} /\ finished' = <<>> /\ results' = <<>> /\ UNCHANGED worker
    BY <1>2 DEF Start, PhaseInv, Outside
  <2> QED
    BY <1>1, <2>1 DEF FreshInv, AllFresh
<1>3. CASE UNCHANGED <<mode, results, finished, worker, started>>
  BY <1>3 DEF FreshInv, AllFresh, Fresh, WorkersFresh
<1>4. CASE Resume
  <2>1. Busy = {} /\ finished' = <<>> /\ UNCHANGED <<worker, mode>>
    BY <1>4 DEF Resume, PhaseInv
  <2>2. mode = "refresh" => results' = <<>>
    BY <1>4 DEF Resume, Existing
  <2> QED
    BY <1>1, <2>1, <2>2 DEF FreshInv, AllFresh
<1>5. CASE Collect
  <2> SUFFICES ASSUME mode = "refresh" PROVE FreshInv'
    BY <1>5 DEF Collect, FreshInv
  <2>1. /\ results' = Append(results, Head(finished)) /\ finished' = Tail(finished) /\ finished # <<>>
        /\ UNCHANGED <<mode, worker, started>>
    BY <1>5 DEF Collect, AppendResult
  <2>2. /\ results \in Seq(Result) /\ finished \in Seq(Result) /\ Head(finished) \in Result
        /\ AllFresh(results) /\ AllFresh(finished) /\ WorkersFresh
    BY <2>1 DEF TypeInv, FreshInv
  <2>3. AllFresh(Append(results, Head(finished))) /\ AllFresh(Tail(finished))
    BY <2>1, <2>2, FreshTaken, FreshAppended
  <2>4. AllFresh(results)' /\ AllFresh(finished)'
    BY <2>1, <2>3 DEF AllFresh, Fresh
  <2> QED
    BY <2>1, <2>2, <2>4 DEF FreshInv, WorkersFresh
<1>6. CASE Kill
  BY <1>6 DEF Kill, FreshInv
<1>7. CASE Indexing \/ Save \/ ClosePool \/ Return \/ World \/ UNCHANGED vars
  <2>1. UNCHANGED <<mode, results, finished, worker, started>>
    BY <1>7, IndexingShape DEF Save, ClosePool, Return, World, vars, batchVars
  <2> QED
    BY <1>3, <2>1
<1>8. ASSUME NEW w \in Workers, Thread(w) PROVE FreshInv'
  BY <1>8, FreshThread
<1> QED
  BY <1>2, <1>4, <1>5, <1>6, <1>7, <1>8 DEF Next, Main, Indexing
-------------------------------------------------------------------------------
(* Outside of refresh: what was in the cache when the batch started is     *)
(* there still, and its pull request is not with a thread that would fetch *)
(* it; what was answered is so still, none of its requests is with a       *)
(* thread, and each of its results is a success.                           *)
CachedKept ==
  /\ \A pr \in started.cached : IsUsable(api[pr])
  /\ \A w \in Workers : worker[w].pc \in {"fetch", "put"} => worker[w].pr \notin started.cached

AnsweredKept ==
  /\ started.answered \subseteq Numbers
  /\ \A n \in started.answered : answers[n].file = "whole"
  /\ \A w \in Workers : IsBusy(w) => NumberOf(w) \notin started.answered

AnsweredOk(rs, k) ==
  \A i \in 1..Len(rs) : i > k /\ rs[i].number \in started.answered => IsOk(rs[i])

SavedInv ==
  mode # "refresh" =>
    CachedKept /\ AnsweredKept /\ AnsweredOk(finished, 0) /\ AnsweredOk(results, kept)

(* One more result of a number that is open, or that is a success, and     *)
(* what is left of them.                                                   *)
LEMMA OkAppended ==
  ASSUME NEW s \in Seq(Result), NEW k, NEW r \in Result, AnsweredOk(s, k),
         r.number \in started.answered => IsOk(r)
  PROVE  AnsweredOk(Append(s, r), k)
<1>1. /\ Len(Append(s, r)) = Len(s) + 1 /\ Len(s) \in Nat
      /\ \A i \in 1..Len(Append(s, r)) : Append(s, r)[i] = IF i = Len(s) + 1 THEN r ELSE s[i]
  BY Appended
<1> QED
  BY <1>1 DEF AnsweredOk

LEMMA OkTaken ==
  ASSUME NEW s \in Seq(Result), s # <<>>, AnsweredOk(s, 0)
  PROVE  /\ Head(s).number \in started.answered => IsOk(Head(s))
         /\ AnsweredOk(Tail(s), 0)
<1>1. /\ Len(s) \in Nat /\ Len(s) >= 1 /\ Len(Tail(s)) = Len(s) - 1
      /\ Head(s) = s[1]
      /\ \A i \in 1..Len(Tail(s)) : Tail(s)[i] = s[i + 1]
  BY Taken
<1> QED
  BY <1>1 DEF AnsweredOk

(* A thread writes the data only of pull requests that were not in the     *)
(* cache, and turns to the host only for those.                            *)
LEMMA CachedThread ==
  ASSUME TypeInv, StartedInv, CachedKept, mode # "refresh", NEW w \in Workers, Thread(w)
  PROVE  CachedKept'
<1>0. UNCHANGED <<mode, started>>
  BY ThreadFrame
<1>1. /\ started.cached \subseteq Prs
      /\ worker \in [Workers -> WorkerStates]
      /\ DOMAIN api = Prs
  BY DEF StartedInv, TypeInv, CacheTypeOK
<1>2. ASSUME NEW x, worker' = [worker EXCEPT ![w] = x],
             x.pc \in {"fetch", "put"} => x.pr \notin started.cached
      PROVE  \A v \in Workers : worker'[v].pc \in {"fetch", "put"} => worker'[v].pr \notin started'.cached
  <2> SUFFICES ASSUME NEW v \in Workers, worker'[v].pc \in {"fetch", "put"}
               PROVE  worker'[v].pr \notin started.cached
    BY <1>0
  <2>1. worker'[v] = IF v = w THEN x ELSE worker[v]
    BY <1>1, <1>2
  <2> QED
    BY <1>2, <2>1 DEF CachedKept
<1>3. api' = api => \A pr \in started'.cached : IsUsable(api'[pr])
  BY <1>0 DEF CachedKept
<1>4. CASE worker[w].pc \in {"fetch", "put"}
  <2>1. worker[w].pr \notin started.cached /\ worker[w].pr \in Prs
    BY <1>4, BusyType DEF CachedKept, IsBusy
  <2>2. \E e : api' = [api EXCEPT ![worker[w].pr] = e] \/ api' = api
    BY <1>4 DEF Thread, Take, ReadCache, Fetch, Put, Resolve, SaveAnswer, Fail, OpenEntry, FillEntry
  <2>3. \A pr \in started.cached : api'[pr] = api[pr]
    BY <1>1, <2>1, <2>2
  <2>4. \A pr \in started'.cached : IsUsable(api'[pr])
    BY <1>0, <2>3 DEF CachedKept
  <2>5. \E x : /\ worker' = [worker EXCEPT ![w] = x]
               /\ x.pc \in {"fetch", "put"} => x.pr = worker[w].pr
    <3>1. CASE \E r \in Result : Ends(w, r)
      BY <3>1 DEF Ends, Idle
    <3>2. CASE \E x \in WorkerStates : Moves(w, x)
      BY <3>2 DEF Moves
    <3> QED
      BY <1>4, <3>1, <3>2, ThreadShape DEF Begins, Answers, IsBusy
  <2> QED
    BY <1>2, <2>1, <2>4, <2>5 DEF CachedKept
<1>5. CASE ReadCache(w)
  <2>1. worker[w].pc = "get" /\ api' = api
    BY <1>5 DEF ReadCache
  <2>2. CASE Finish(w, Error(NumberOf(w)))
    <3>1. worker' = [worker EXCEPT ![w] = Idle] /\ Idle.pc = "idle"
      BY <2>2 DEF Finish, Idle
    <3> QED
      BY <1>2, <1>3, <2>1, <3>1 DEF CachedKept
  <2>3. CASE worker' = [worker EXCEPT ![w] = [pc |-> "resolve", pr |-> @.pr,
                                              version |-> Get(mode, worker[w].pr).version]]
    <3> DEFINE x == [pc |-> "resolve", pr |-> worker[w].pr, version |-> Get(mode, worker[w].pr).version]
    <3>1. worker' = [worker EXCEPT ![w] = x] /\ x.pc = "resolve"
      BY <1>1, <2>3
    <3> HIDE DEF x
    <3> QED
      BY <1>2, <1>3, <2>1, <3>1 DEF CachedKept
  <2>4. CASE Go(w, "fetch") /\ ~ IsUsable(Get(mode, worker[w].pr))
    <3> DEFINE x == [worker[w] EXCEPT !.pc = "fetch"]
    <3>1. x.pr = worker[w].pr
      BY <2>1, GoType
    <3>2. worker' = [worker EXCEPT ![w] = x]
      BY <1>1, <2>4 DEF Go
    <3>3. worker[w].pr \notin started.cached
      BY <2>4 DEF CachedKept, Get, IsUsable
    <3> HIDE DEF x
    <3> QED
      BY <1>2, <1>3, <2>1, <3>1, <3>2, <3>3 DEF CachedKept
  <2> QED
    BY <1>5, <2>2, <2>3, <2>4 DEF ReadCache
<1>6. CASE Take(w)
  <2>1. api' = api /\ worker[w].pc = "idle" /\ worker[w] = Idle
    BY <1>6, BusyType DEF Take, IsBusy
  <2>2. CASE Begins(w)
    <3> DEFINE x == [pc |-> "get", pr |-> pending[next]]
    <3>1. worker' = [worker EXCEPT ![w] = x] /\ x.pc = "get"
      BY <2>2 DEF Begins
    <3> HIDE DEF x
    <3> QED
      BY <1>2, <1>3, <2>1, <3>1 DEF CachedKept
  <2>3. CASE \E r \in Result : Answers(w, r)
    <3>1. worker' = worker
      BY <2>3 DEF Answers
    <3> QED
      BY <1>0, <2>1, <3>1 DEF CachedKept
  <2> QED
    BY <2>1, <2>2, <2>3, ThreadShape DEF Moves, Ends, IsBusy
<1>7. CASE worker[w].pc \in {"resolve", "save"}
  <2>1. api' = api
    BY <1>7 DEF Thread, Take, ReadCache, Fetch, Put, Resolve, SaveAnswer, Fail
  <2>2. \E x : worker' = [worker EXCEPT ![w] = x] /\ x.pc \notin {"fetch", "put"}
    <3>1. CASE Resolve(w)
      <4>1. [worker[w] EXCEPT !.pc = "save"].pc = "save"
        BY <1>7, <3>1, GoType DEF Resolve
      <4> QED
        BY <3>1, <4>1 DEF Resolve, Go
    <3>2. CASE SaveAnswer(w) \/ Fail(w)
      BY <3>2 DEF SaveAnswer, Fail, Finish, Idle
    <3> QED
      BY <1>7, <3>1, <3>2 DEF Thread, Take, ReadCache, Fetch, Put
  <2> QED
    BY <1>2, <1>3, <2>1, <2>2 DEF CachedKept
<1> QED
  BY <1>4, <1>5, <1>6, <1>7 DEF Thread, Fetch, Put, Resolve, SaveAnswer, Fail

(* A thread turns to the network and the resolver only for requests that   *)
(* are open, and only their answers are torn or replaced.                  *)
LEMMA AnsweredThread ==
  ASSUME TypeInv, AnsweredKept, AnsweredOk(finished, 0), mode # "refresh",
         NEW w \in Workers, Thread(w)
  PROVE  AnsweredKept' /\ AnsweredOk(finished, 0)'
<1>0. UNCHANGED started
  BY ThreadFrame
<1>1. /\ started.answered \subseteq Numbers
      /\ worker \in [Workers -> WorkerStates]
      /\ finished \in Seq(Result)
      /\ DOMAIN answers = Numbers
  BY DEF AnsweredKept, TypeInv
<1>2. \A n \in started'.answered : answers'[n].file = "whole"
  <2>1. CASE UNCHANGED answers
    BY <1>0, <2>1 DEF AnsweredKept
  <2>2. CASE Resolve(w) \/ SaveAnswer(w)
    <3>1. \E file : answers' = [answers EXCEPT ![NumberOf(w)] = file]
      BY <2>2 DEF Resolve, SaveAnswer
    <3>2. NumberOf(w) \notin started.answered
      BY <2>2 DEF Resolve, SaveAnswer, AnsweredKept, IsBusy
    <3>3. \A n \in started.answered : answers'[n] = answers[n]
      BY <1>1, <3>1, <3>2
    <3> QED
      BY <1>0, <3>3 DEF AnsweredKept
  <2> QED
    BY <2>1, <2>2 DEF Thread, Take, ReadCache, Fetch, Put, Fail
<1>3. ASSUME NEW x, worker' = [worker EXCEPT ![w] = x],
             x.pc # "idle" => Number[x.pr] \notin started.answered
      PROVE  AnsweredKept'
  <2> SUFFICES ASSUME NEW v \in Workers, worker'[v].pc # "idle"
               PROVE  Number[worker'[v].pr] \notin started.answered
    BY <1>0, <1>1, <1>2 DEF AnsweredKept, IsBusy, NumberOf
  <2>1. worker'[v] = IF v = w THEN x ELSE worker[v]
    BY <1>1, <1>3
  <2> QED
    BY <1>3, <2>1 DEF AnsweredKept, IsBusy, NumberOf
<1>4. UNCHANGED finished => AnsweredOk(finished, 0)'
  BY <1>0 DEF AnsweredOk
<1>5. ASSUME NEW r \in Result, r.number \in started.answered => IsOk(r),
             finished' = Append(finished, r)
      PROVE  AnsweredOk(finished, 0)'
  <2>1. AnsweredOk(Append(finished, r), 0)
    BY <1>1, <1>5, OkAppended
  <2> QED
    BY <1>0, <1>5, <2>1 DEF AnsweredOk
<1>6. CASE Take(w)
  <2> DEFINE pr == pending[next]
             answer == answers[Number[pr]]
  <2>1. worker[w].pc = "idle" /\ worker[w] = Idle /\ next <= Len(pending)
    BY <1>6, BusyType DEF Take, IsBusy
  <2>2. pr \in Prs /\ Number[pr] \in Numbers
    BY <2>1 DEF TypeInv, Numbers
  <2>3. CASE answer.file = "whole"
    <3>1. worker' = [worker EXCEPT ![w] = Idle] /\ finished' = Append(finished, answer.result)
      BY <1>6, <2>3 DEF Take, Finish
    <3>2. answer.result \in Result /\ IsOk(answer.result)
      BY <2>2, <2>3 DEF TypeInv
    <3>3. Idle.pc = "idle"
      BY DEF Idle
    <3> QED
      BY <1>3, <1>5, <3>1, <3>2, <3>3
  <2>4. CASE answer.file # "whole"
    <3> DEFINE x == [pc |-> "get", pr |-> pr]
    <3>1. worker' = [worker EXCEPT ![w] = x] /\ UNCHANGED finished /\ x.pr = pr
      BY <1>6, <2>4 DEF Take
    <3>2. Number[pr] \notin started.answered
      BY <2>4 DEF AnsweredKept
    <3> HIDE DEF x
    <3> QED
      BY <1>3, <1>4, <3>1, <3>2
  <2> QED
    BY <2>3, <2>4
<1>7. CASE ~ Take(w)
  <2>1. IsBusy(w)
    BY <1>7 DEF Thread, ReadCache, Fetch, Put, Resolve, SaveAnswer, Fail, IsBusy
  <2>2. Number[worker[w].pr] \notin started.answered
    BY <2>1 DEF AnsweredKept, NumberOf
  <2>3. CASE \E x \in WorkerStates : Moves(w, x)
    <3>1. PICK x \in WorkerStates : Moves(w, x)
      BY <2>3
    <3>2. worker' = [worker EXCEPT ![w] = x] /\ x.pr = worker[w].pr /\ UNCHANGED finished
      BY <3>1 DEF Moves
    <3> QED
      BY <1>3, <1>4, <2>2, <3>2
  <2>4. CASE \E r \in Result : Ends(w, r)
    <3>1. PICK r \in Result : Ends(w, r)
      BY <2>4
    <3>2. /\ worker' = [worker EXCEPT ![w] = Idle] /\ finished' = Append(finished, r)
          /\ r.number = Number[worker[w].pr] /\ Idle.pc = "idle"
      BY <3>1 DEF Ends, NumberOf, Idle
    <3> QED
      BY <1>3, <1>5, <2>2, <3>2
  <2> QED
    BY <2>1, <2>3, <2>4, ThreadShape DEF Begins, Answers
<1> QED
  BY <1>6, <1>7

(* In the beginning nothing is saved.                                        *)
LEMMA SavedInit == Init => SavedInv
  BY DEF Init, NothingKnown, SavedInv, CachedKept, AnsweredKept, AnsweredOk, IsBusy, Idle

(* What is saved stays, and is used.                                         *)
LEMMA SavedStep ==
  TypeInv /\ PhaseInv /\ StartedInv /\ SavedInv /\ [Next]_vars => SavedInv'
<1> SUFFICES ASSUME TypeInv, PhaseInv, StartedInv, SavedInv, [Next]_vars PROVE SavedInv'
  OBVIOUS
<1>1. Busy = {} => \A w \in Workers : worker[w].pc = "idle"
  BY DEF Busy, IsBusy
<1>2. ASSUME NEW m \in Modes, NEW prs \in Lists, Start(m, prs) PROVE SavedInv'
  <2>1. /\ finished' = <<>> /\ results' = <<>> /\ UNCHANGED <<worker, answers, api>>
        /\ \A w \in Workers : worker[w].pc = "idle"
    BY <1>1, <1>2 DEF Start, PhaseInv, Outside, cacheVars
  <2>2. /\ started'.cached = {pr \in Prs : IsUsable(api[pr])}
        /\ started'.answered = {n \in Numbers : answers[n].file = "whole"}
    BY <1>2 DEF Start
  <2> QED
    BY <2>1, <2>2 DEF SavedInv, CachedKept, AnsweredKept, AnsweredOk, IsBusy
<1>3. CASE UNCHANGED <<mode, results, kept, finished, worker, started, answers, api>>
  BY <1>3 DEF SavedInv, CachedKept, AnsweredKept, AnsweredOk, IsBusy, NumberOf
<1>4. CASE Resume
  <2>1. /\ results' = Existing /\ kept' = Len(Existing)
        /\ UNCHANGED <<mode, finished, worker, started, answers, api>>
    BY <1>4 DEF Resume, cacheVars
  <2>2. Len(Existing) \in Nat
    BY ExistingType
  <2>3. mode # "refresh" => AnsweredOk(results, kept)'
    BY <2>1, <2>2 DEF AnsweredOk
  <2> QED
    BY <2>1, <2>3 DEF SavedInv, CachedKept, AnsweredKept, AnsweredOk, IsBusy, NumberOf
<1>5. CASE Collect
  <2> SUFFICES ASSUME mode # "refresh" PROVE SavedInv'
    BY <1>5 DEF Collect, SavedInv
  <2>1. /\ results' = Append(results, Head(finished)) /\ finished' = Tail(finished) /\ finished # <<>>
        /\ UNCHANGED <<mode, kept, worker, started, answers, api>>
    BY <1>5 DEF Collect, AppendResult, cacheVars
  <2>2. /\ results \in Seq(Result) /\ finished \in Seq(Result) /\ Head(finished) \in Result
        /\ CachedKept /\ AnsweredKept /\ AnsweredOk(finished, 0) /\ AnsweredOk(results, kept)
    BY <2>1 DEF TypeInv, SavedInv
  <2>3. AnsweredOk(Append(results, Head(finished)), kept) /\ AnsweredOk(Tail(finished), 0)
    BY <2>1, <2>2, OkTaken, OkAppended
  <2>4. AnsweredOk(results, kept)' /\ AnsweredOk(finished, 0)'
    BY <2>1, <2>3 DEF AnsweredOk
  <2> QED
    BY <2>1, <2>2, <2>4 DEF SavedInv, CachedKept, AnsweredKept, IsBusy, NumberOf
<1>6. CASE Kill
  <2>1. /\ finished' = <<>> /\ results' = <<>> /\ started' = NothingKnown
        /\ worker' = [w \in Workers |-> Idle]
    BY <1>6 DEF Kill
  <2> QED
    BY <2>1 DEF NothingKnown, SavedInv, CachedKept, AnsweredKept, AnsweredOk, IsBusy, Idle
<1>7. CASE World
  <2>1. UNCHANGED <<mode, results, kept, finished, worker, started, answers>>
    BY <1>7 DEF World
  <2>2. CASE api' = api
    BY <1>3, <2>1, <2>2
  <2>3. CASE \E pr \in Prs : Prefetch(pr)
    <3>1. PICK pr \in Prs : Prefetch(pr)
      BY <2>3
    <3>2. \E e : api' = [api EXCEPT ![pr] = e]
      BY <3>1 DEF Prefetch
    <3>3. started.cached \subseteq Prs /\ DOMAIN api = Prs
      BY DEF StartedInv, TypeInv, CacheTypeOK
    <3>4. mode # "refresh" => \A p \in started.cached : p # pr /\ api'[p] = api[p]
      BY <3>1, <3>2, <3>3 DEF Prefetch, SavedInv, CachedKept
    <3> QED
      BY <2>1, <3>4 DEF SavedInv, CachedKept, AnsweredKept, AnsweredOk, IsBusy, NumberOf
  <2> QED
    BY <1>7, <2>2, <2>3 DEF World, Push, cacheVars
<1>8. CASE Indexing \/ Save \/ ClosePool \/ Return \/ UNCHANGED vars
  <2>1. UNCHANGED <<mode, results, kept, finished, worker, started, answers, api>>
    BY <1>8, IndexingShape DEF Save, ClosePool, Return, vars, batchVars, cacheVars
  <2> QED
    BY <1>3, <2>1
<1>9. ASSUME NEW w \in Workers, Thread(w) PROVE SavedInv'
  <2>1. UNCHANGED <<mode, started, results, kept>>
    BY <1>9, ThreadFrame
  <2> SUFFICES ASSUME mode # "refresh" PROVE SavedInv'
    BY <2>1 DEF SavedInv
  <2>2. CachedKept /\ AnsweredKept /\ AnsweredOk(finished, 0) /\ AnsweredOk(results, kept)
    BY DEF SavedInv
  <2>3. CachedKept' /\ AnsweredKept' /\ AnsweredOk(finished, 0)'
    BY <1>9, <2>2, CachedThread, AnsweredThread
  <2>4. AnsweredOk(results, kept)'
    BY <2>1, <2>2 DEF AnsweredOk
  <2> QED
    BY <2>3, <2>4 DEF SavedInv
<1> QED
  BY <1>2, <1>4, <1>5, <1>6, <1>7, <1>8, <1>9 DEF Next, Main, Indexing
-----------------------------------------------------------------------------
(* The inductive invariant.                                                  *)
Inv == TypeInv /\ PhaseInv /\ AccountInv /\ StartedInv /\ IndexInv /\ FreshInv /\ SavedInv

(* The seven parts hold together in every state that a batch reaches.        *)
THEOREM InductiveInvariant == Spec => []Inv
<1>1. Init => Inv
  BY TypeInit, PhaseInit, AccountInit, StartedInit, IndexInvInit, FreshInit, SavedInit DEF Inv
<1>2. Inv /\ [Next]_vars => Inv'
  BY TypeStep, PhaseStep, AccountStep, StartedStep, IndexInvStep, FreshStep, SavedStep DEF Inv
<1> QED
  BY <1>1, <1>2, PTL DEF Spec

(* Outside of refresh a batch does not ask the host again for a pull request
   whose data was in the cache, and never turns a result that was saved into an
   error: whatever fails, whichever thread is first, and whenever a batch before
   was killed (pr_api_cache.get, _load_cached_result, the resume of
   cmd_validate_batch). *)
THEOREM SavedWork == Spec => []SavedWorkIsUsed
<1>1. Inv => SavedWorkIsUsed
  <2> SUFFICES ASSUME Inv, mode # "refresh" PROVE SavedWorkIsUsed
    BY DEF SavedWorkIsUsed
  <2>1. Len(results) \in Nat /\ DOMAIN results = 1..Len(results)
    BY DEF Inv, TypeInv
  <2> QED
    BY <2>1 DEF Inv, SavedInv, CachedKept, AnsweredOk, New, SavedWorkIsUsed
<1> QED
  BY <1>1, InductiveInvariant, PTL

(* In the mode refresh every success is of data that is at least what the host
   had when the batch started, and of indexes of sources that had at least every
   change visible then (pr_cache.py, get; cached_sdk_index, cached_inverted_index). *)
THEOREM Freshness == Spec => []RefreshIsFresh
<1>1. Inv => RefreshIsFresh
  <2> SUFFICES ASSUME Inv, mode = "refresh" PROVE RefreshIsFresh
    BY DEF RefreshIsFresh
  <2>1. Len(results) \in Nat /\ DOMAIN results = 1..Len(results)
    BY DEF Inv, TypeInv
  <2> QED
    BY <2>1 DEF Inv, FreshInv, AllFresh, Fresh, RefreshIsFresh
<1> QED
  BY <1>1, InductiveInvariant, PTL

(* A batch that returned has saved one result for each request it ran, and the
   list has a result for each of its pull requests, in every order of the threads
   and after every kill of a batch before (cmd_validate_batch, _process_one). *)
THEOREM RequestsAnswered == Spec => []EveryRequestIsAnswered
<1>1. Inv => TypeOK
  <2> SUFFICES ASSUME Inv PROVE TypeOK
    OBVIOUS
  <2>1. TypeInv
    BY DEF Inv
  <2>2. \A i \in DOMAIN results : results[i].number \in Numbers
    BY <2>1, ResultNumber DEF TypeInv
  <2>3. completed \in 0..Len(pending)
    <3>1. /\ completed + Len(finished) + Cardinality(Busy) = next - 1
          /\ Cardinality(Busy) \in Nat /\ Len(finished) \in Nat
          /\ next \in 1..(Len(pending) + 1) /\ completed \in Nat /\ Len(pending) \in Nat
      BY <2>1, BusyFinite DEF Inv, AccountInv, TypeInv
    <3> QED
      BY <3>1
  <2> QED
    BY <2>1, <2>2, <2>3 DEF TypeInv, TypeOK
<1>2. ASSUME Inv, phase = "returned"
      PROVE  \A n \in Numbers : Cardinality(NewOf(n)) = Cardinality(Asked(n))
  <2>1. /\ Busy = {} /\ finished = <<>> /\ completed = Len(pending)
        /\ TypeInv /\ AccountInv
    BY <1>2 DEF Inv, PhaseInv
  <2>2. Cardinality({}) = 0
    BY FS_EmptySet
  <2>3. Cardinality(Busy) = 0 /\ Len(finished) = 0
    BY <2>1, <2>2, Zenon
  <2>4. next = Len(pending) + 1
    BY <2>1, <2>3 DEF AccountInv, TypeInv
  <2> TAKE n \in Numbers
  <2>5. BusyOn(n) = {} /\ Places(finished, 0, n) = {}
    BY <2>1 DEF BusyOn, Places
  <2>6. Places(results, kept, n) = NewOf(n)
    BY <2>1 DEF Places, NewOf, New, TypeInv
  <2>7. TakenOf(n) = Asked(n)
    BY <2>1, <2>4 DEF TakenOf, Asked, TypeInv
  <2>8. Cardinality(BusyOn(n)) = 0 /\ Cardinality(Places(finished, 0, n)) = 0
    BY <2>2, <2>5, Zenon
  <2>9. Cardinality(NewOf(n)) + Cardinality(Places(finished, 0, n)) + Cardinality(BusyOn(n))
          = Cardinality(Asked(n))
    BY <2>1, <2>6, <2>7 DEF AccountInv
  <2>10. Cardinality(NewOf(n)) \in Nat
    BY <2>1, <2>6, PlacesFinite DEF TypeInv
  <2> QED
    BY <2>8, <2>9, <2>10
<1>3. ASSUME Inv, phase = "returned"
      PROVE  \A pr \in Range(list) : Number[pr] \in NumbersOf(results)
  <2>1. TypeInv /\ PhaseInv
    BY <1>3 DEF Inv
  <2>0. list \in Seq(Prs)
    <3>1. CASE list \in Lists
      BY <3>1, ListAssumption
    <3>2. CASE list = <<>>
      BY <3>2
    <3> QED
      BY <2>1, <3>1, <3>2 DEF TypeInv
  <2> TAKE pr \in Range(list)
  <2>2. PICK i \in 1..Len(list) : list[i] = pr
    BY <2>0 DEF Range
  <2>3. \/ \E j \in 1..kept : results[j].number = Number[list[i]]
        \/ \E j \in 1..Len(pending) : pending[j] = list[i]
    BY <1>3, <2>1, <2>2 DEF PhaseInv, Early
  <2>4. DOMAIN results = 1..Len(results) /\ kept \in 0..Len(results) /\ Len(results) \in Nat
    BY <2>1 DEF TypeInv
  <2>5. CASE \E j \in 1..kept : results[j].number = Number[list[i]]
    BY <2>2, <2>4, <2>5 DEF NumbersOf
  <2>6. CASE \E j \in 1..Len(pending) : pending[j] = list[i]
    <3>1. PICK j \in 1..Len(pending) : pending[j] = pr
      BY <2>2, <2>6
    <3>2. j \in Asked(Number[pr]) /\ Number[pr] \in Numbers
      BY <2>1, <3>1 DEF Asked, Numbers, TypeInv
    <3>3. Asked(Number[pr]) \in SUBSET (1..Len(pending)) /\ Len(pending) \in Nat
      BY <2>1 DEF Asked, TypeInv
    <3>4. IsFiniteSet(Asked(Number[pr]))
      <4>1. IsFiniteSet(1..Len(pending))
        BY <3>3, FS_Interval
      <4> QED
        BY <3>3, <4>1, FS_Subset
    <3>5. Cardinality(Asked(Number[pr])) # 0
      BY <3>2, <3>4, FS_EmptySet
    <3>6. Cardinality(NewOf(Number[pr])) # 0
      BY <1>2, <1>3, <3>2, <3>5
    <3>7. NewOf(Number[pr]) # {}
      BY <3>6, FS_EmptySet, Zenon
    <3> QED
      BY <3>7 DEF NewOf, New, NumbersOf
  <2> QED
    BY <2>3, <2>5, <2>6
<1>4. Inv => EveryRequestIsAnswered
  BY <1>1, <1>2, <1>3 DEF Inv, PhaseInv, EveryRequestIsAnswered
<1> QED
  BY <1>4, InductiveInvariant, PTL
================================================================================
