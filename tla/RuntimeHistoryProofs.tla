------------------------- MODULE RuntimeHistoryProofs -------------------------
(***************************************************************************)
(* Proofs about RuntimeHistory for any number of processes, users, targets *)
(* and samples: what an update says of its samples is true, a user whose   *)
(* history no other user may replace finds the log of his own runs, and    *)
(* where nobody can replace a history that he cannot read the file is the  *)
(* abstract log of SampleLog.                                              *)
(***************************************************************************)
EXTENDS RuntimeHistory, SequenceTheorems, WellFoundedInduction, TLAPS

(* Nobody replaces what he cannot read: there is one user only, or the     *)
(* root is sticky and its owner runs nothing.  Without it the refinement   *)
(* fails (RuntimeHistory_shared).                                          *)
OwnHistory == \A p, q \in Proc :
  UserOf[p] = UserOf[q] \/ (Sticky /\ UserOf[p] # RootOwner)

(* No other user replaces the history of the reader: the root is sticky and*)
(* none of the others owns it, or there are no others.                     *)
ReaderIsSafe == \A p \in Proc : UserOf[p] = Reader \/ (Sticky /\ UserOf[p] # RootOwner)

(* The samples of some runs, and the histories of such samples.            *)
SamplesOf(runs) ==
  [run : runs, status : {"passed", "failed", "timeout", "skipped", "blocked", "unavailable"}]

Histories(runs) == [Target -> Seq(SamplesOf(runs))]

(* The types, with whose samples a history holds: the file those of        *)
(* recorded runs, the copy of a process that has loaded it its own too.    *)
TypeInv ==
  /\ pc \in [Proc -> {"collect", "acquire"} \cup Inside \cup Ended]
  /\ owner \in Proc \cup {Nobody}
  /\ file \in [user : User \cup {Nobody}, hist : Histories(recorded)]
  /\ copy \in [Proc -> Histories(Proc)]
  /\ \A p \in Proc : pc[p] \in {"write", "replace"} => copy[p] \in Histories(recorded \cup {p})
  /\ tmp \subseteq Proc
  /\ recorded \subseteq Proc

(* A process is in the update exactly while it has the lock.  It is        *)
(* recorded from its replacement on, and leaves its temporary file only    *)
(* when it is killed.                                                      *)
PlaceInv ==
  /\ \A p \in Proc : pc[p] \in Inside <=> owner = p
  /\ \A p \in Proc : pc[p] \notin {"release", "done", "dead"} => p \notin recorded
  /\ \A p \in Proc : pc[p] = "release" => p \in recorded
  /\ \A p \in Proc : pc[p] = "done" => p \in recorded \/ Observations(p) = {}
  /\ \A p \in tmp : pc[p] \in {"replace", "dead"}

(* What a process reads of the file.                                       *)
Found(p) == IF Readable(p) THEN file.hist ELSE Empty

(* A file of nobody's has no samples yet.  Between its load and its        *)
(* replacement, the copy of a process is what it still would find in the   *)
(* file, with its own samples.                                             *)
CopyInv ==
  /\ file.user \in {UserOf[p] : p \in Proc} \cup {Nobody}
  /\ file.user = Nobody => file.hist = Empty
  /\ \A p \in Proc : pc[p] \in {"write", "replace"} => copy[p] = Learn(Found(p), p)
-----------------------------------------------------------------------------
(* Induction, of a set of numbers: what holds for 0 and goes on holds for all. *)
LEMMA Induction ==
  ASSUME NEW S, 0 \in S, \A n \in Nat : n \in S => n + 1 \in S
  PROVE  Nat \subseteq S
<1> SUFFICES ASSUME Nat \ S # {} PROVE FALSE
  OBVIOUS
<1> DEFINE R == {pair \in Nat \X Nat : pair[1] < pair[2]}
<1>1. IsWellFoundedOn(R, Nat)
  BY NatLessThanWellFounded, Zenon DEF OpToRel
<1>2. PICK n \in Nat \ S : \A m \in Nat \ S : ~ (<<m, n>> \in R)
  <2>1. Nat \ S \subseteq Nat
    OBVIOUS
  <2> HIDE DEF R
  <2> QED
    BY <1>1, <2>1, WFMin, Zenon
<1>3. n # 0 /\ n - 1 \in Nat /\ n - 1 < n
  OBVIOUS
<1>4. n - 1 \in S
  BY <1>2, <1>3
<1> QED
  BY <1>3, <1>4

(* upto[n] is what p has observed of t in the first n results of its report. *)
Collects(upto, l, p, t, m) ==
  \A n \in 0..m :
    upto[n] = IF n = 0 THEN <<>>
              ELSE IF n \in Observations(p) /\ l[n].target = t
              THEN Append(upto[n - 1], [run |-> p, status |-> l[n].status])
              ELSE upto[n - 1]

(* Such a function is found for every length, and it gives samples of p.   *)
LEMMA UptoExists ==
  ASSUME NEW l \in Seq(Result), NEW p \in Proc, NEW t
  PROVE  \E upto \in [0..Len(l) -> Seq(SamplesOf({p}))] : Collects(upto, l, p, t, Len(l))
<1> DEFINE S == SamplesOf({p})
           Good == {m \in Nat : m <= Len(l) => \E f \in [0..m -> Seq(S)] : Collects(f, l, p, t, m)}
<1>0. Len(l) \in Nat
  OBVIOUS
<1> HIDE DEF S
<1>1. 0 \in Good
  <2> DEFINE f == [n \in 0..0 |-> <<>>]
  <2>1. f \in [0..0 -> Seq(S)] /\ Collects(f, l, p, t, 0)
    BY DEF Collects
  <2> HIDE DEF f
  <2> QED
    BY <2>1
<1>2. ASSUME NEW m \in Nat, m \in Good PROVE m + 1 \in Good
  <2> SUFFICES ASSUME m + 1 <= Len(l)
               PROVE  \E f \in [0..(m + 1) -> Seq(S)] : Collects(f, l, p, t, m + 1)
    OBVIOUS
  <2>1. Len(l) \in Nat /\ m <= Len(l) /\ m + 1 \in 1..Len(l)
    BY <1>0
  <2>2. PICK f \in [0..m -> Seq(S)] : Collects(f, l, p, t, m)
    BY <1>2, <2>1
  <2> DEFINE x == [run |-> p, status |-> l[m + 1].status]
             last == IF m + 1 \in Observations(p) /\ l[m + 1].target = t
                     THEN Append(f[m], x) ELSE f[m]
             g == [n \in 0..(m + 1) |-> IF n = m + 1 THEN last ELSE f[n]]
  <2>3. l[m + 1] \in Result /\ f[m] \in Seq(S)
    BY <1>0, <2>1, <2>2
  <2>4. x \in S
    BY <2>3 DEF Result, SamplesOf, S
  <2> HIDE DEF x
  <2>5. last \in Seq(S)
    BY <2>3, <2>4
  <2> HIDE DEF last
  <2>6. g \in [0..(m + 1) -> Seq(S)]
    BY <2>2, <2>5
  <2>7. g[m + 1] = last /\ \A n \in 0..m : g[n] = f[n]
    OBVIOUS
  <2> HIDE DEF g
  <2>8. ASSUME NEW n \in 0..(m + 1)
        PROVE  g[n] = IF n = 0 THEN <<>>
                      ELSE IF n \in Observations(p) /\ l[n].target = t
                      THEN Append(g[n - 1], [run |-> p, status |-> l[n].status])
                      ELSE g[n - 1]
    <3>1. CASE n = m + 1
      BY <2>7, <3>1 DEF last, x
    <3>2. CASE n \in 1..m
      <4>1. n \in 0..m /\ n - 1 \in 0..m /\ n # 0
        BY <3>2
      <4>2. f[n] = IF n \in Observations(p) /\ l[n].target = t
                   THEN Append(f[n - 1], [run |-> p, status |-> l[n].status])
                   ELSE f[n - 1]
        BY <2>2, <4>1 DEF Collects
      <4>3. g[n] = f[n] /\ g[n - 1] = f[n - 1]
        BY <2>7, <4>1
      <4> QED
        BY <4>1, <4>2, <4>3
    <3>3. CASE n = 0
      <4>1. 0 \in 0..m
        OBVIOUS
      <4>2. f[0] = IF 0 = 0 THEN <<>>
                   ELSE IF 0 \in Observations(p) /\ l[0].target = t
                   THEN Append(f[0 - 1], [run |-> p, status |-> l[0].status])
                   ELSE f[0 - 1]
        BY <2>2, <4>1, Zenon DEF Collects
      <4> QED
        BY <2>7, <3>3, <4>1, <4>2
    <3> QED
      BY <3>1, <3>2, <3>3
  <2> QED
    BY <2>6, <2>8 DEF Collects
<1>3. Nat \subseteq Good
  <2> HIDE DEF Good
  <2> QED
    BY <1>1, <1>2, Induction
<1>4. \E f \in [0..Len(l) -> Seq(S)] : Collects(f, l, p, t, Len(l))
  BY <1>0, <1>3
<1> QED
  BY <1>4 DEF S

(* The samples of a run for a target are samples of that run.              *)
LEMMA BatchType ==
  ASSUME NEW p \in Proc, NEW t
  PROVE  Batch(p, t) \in Seq(SamplesOf({p}))
<1> DEFINE S == SamplesOf({p})
           Eq(g) == g = [n \in 0..Len(Report[p]) |->
                          IF n = 0 THEN <<>>
                          ELSE IF n \in Observations(p) /\ Report[p][n].target = t
                          THEN Append(g[n - 1], [run |-> p, status |-> Report[p][n].status])
                          ELSE g[n - 1]]
           upto == CHOOSE g : Eq(g)
<1> HIDE DEF S
<1>0. Report[p] \in Seq(Result) /\ Len(Report[p]) \in Nat
  BY ConstantAssumption
<1>1. \E g : Eq(g)
  <2>1. PICK g \in [0..Len(Report[p]) -> Seq(S)] : Collects(g, Report[p], p, t, Len(Report[p]))
    BY <1>0, UptoExists DEF S
  <2>2. Eq(g)
    BY <2>1 DEF Collects
  <2> QED
    BY <2>2
<1>2. Eq(upto)
  BY <1>1
<1>3. Batch(p, t) = upto[Len(Report[p])]
  BY DEF Batch
<1> HIDE DEF upto
<1> DEFINE Good == {n \in Nat : n <= Len(Report[p]) => upto[n] \in Seq(S)}
<1>4. 0 \in Good
  <2>1. upto[0] = <<>> /\ <<>> \in Seq(S)
    BY <1>0, <1>2
  <2> QED
    BY <2>1
<1>5. ASSUME NEW n \in Nat, n \in Good PROVE n + 1 \in Good
  <2> SUFFICES ASSUME n + 1 <= Len(Report[p]) PROVE upto[n + 1] \in Seq(S)
    OBVIOUS
  <2>1. n + 1 \in 1..Len(Report[p]) /\ n + 1 \in 0..Len(Report[p]) /\ n + 1 # 0 /\ (n + 1) - 1 = n
        /\ upto[n] \in Seq(S)
    BY <1>0, <1>5
  <2> DEFINE x == [run |-> p, status |-> Report[p][n + 1].status]
  <2>2. Report[p][n + 1] \in Result
    BY <1>0, <2>1
  <2>3. x \in S
    BY <2>2 DEF Result, SamplesOf, S
  <2>4. upto[n + 1] \in {upto[n], Append(upto[n], x)}
    BY <1>2, <2>1
  <2> HIDE DEF x
  <2>5. Append(upto[n], x) \in Seq(S)
    BY <2>1, <2>3
  <2> QED
    BY <2>1, <2>4, <2>5
<1>6. Nat \subseteq Good
  <2> HIDE DEF Good
  <2> QED
    BY <1>4, <1>5, Induction
<1>7. Batch(p, t) \in Seq(S)
  BY <1>0, <1>3, <1>6
<1> QED
  BY <1>7 DEF S

(* The newest samples are samples of the same runs.                        *)
LEMMA NewestType ==
  ASSUME NEW S, NEW s \in Seq(S)
  PROVE  Newest(s) \in Seq(S)
<1> DEFINE m == IF Len(s) > MaxSamples THEN Len(s) - MaxSamples + 1 ELSE 1
<1>1. Len(s) \in Nat /\ m \in Int /\ m >= 1
  BY ConstantAssumption
<1> HIDE DEF m
<1>2. \A i \in m..Len(s) : s[i] \in S
  BY <1>1
<1>3. SubSeq(s, m, Len(s)) \in Seq(S)
  BY <1>1, <1>2, SubSeqProperties
<1> QED
  BY <1>3 DEF Newest, m

(* More runs, more samples.                                                *)
LEMMA MoreSamples ==
  ASSUME NEW runs, NEW more, runs \subseteq more
  PROVE  /\ Seq(SamplesOf(runs)) \subseteq Seq(SamplesOf(more))
         /\ Histories(runs) \subseteq Histories(more)
<1>1. SamplesOf(runs) \subseteq SamplesOf(more)
  BY DEF SamplesOf
<1>2. Seq(SamplesOf(runs)) \subseteq Seq(SamplesOf(more))
  BY <1>1
<1> QED
  BY <1>2 DEF Histories

(* What a process learns are the samples of the history and its own.       *)
LEMMA LearnType ==
  ASSUME NEW runs, NEW h \in Histories(runs), NEW p \in Proc
  PROVE  Learn(h, p) \in Histories(runs \cup {p})
<1> DEFINE S == SamplesOf(runs \cup {p})
<1>1. ASSUME NEW t \in Target PROVE Newest(h[t] \o Batch(p, t)) \in Seq(S)
  <2>1. h[t] \in Seq(SamplesOf(runs)) /\ Batch(p, t) \in Seq(SamplesOf({p}))
    BY BatchType DEF Histories
  <2>2. h[t] \in Seq(S) /\ Batch(p, t) \in Seq(S)
    BY <2>1, MoreSamples
  <2> HIDE DEF S
  <2>3. h[t] \o Batch(p, t) \in Seq(S)
    BY <2>2
  <2> QED
    BY <2>3, NewestType
<1> QED
  BY <1>1 DEF Learn, Histories
-----------------------------------------------------------------------------
(* Types, locks and places hold in the beginning, and every step keeps     *)
(* them.                                                                   *)
LEMMA InitTypes == Init => TypeInv /\ PlaceInv /\ CopyInv
<1> SUFFICES ASSUME Init PROVE TypeInv /\ PlaceInv /\ CopyInv
  OBVIOUS
<1>1. \A runs : Empty \in Histories(runs)
  BY DEF Empty, Histories
<1>2. TypeInv
  BY <1>1 DEF Init, TypeInv
<1>3. PlaceInv
  BY ConstantAssumption DEF Init, PlaceInv, Inside
<1>4. CopyInv
  BY DEF Init, CopyInv
<1> QED
  BY <1>2, <1>3, <1>4

LEMMA TypeStep ==
  ASSUME TypeInv, PlaceInv, [Next]_vars
  PROVE  TypeInv'
<1>0. /\ pc \in [Proc -> {"collect", "acquire"} \cup Inside \cup Ended]
      /\ file.hist \in Histories(recorded) /\ file.user \in User \cup {Nobody}
      /\ Empty \in Histories(recorded)
      /\ copy \in [Proc -> Histories(Proc)]
      /\ recorded \subseteq Proc
  BY DEF TypeInv, Empty, Histories
<1>1. ASSUME UNCHANGED <<file, copy, recorded>>, tmp' \subseteq Proc, owner' \in Proc \cup {Nobody},
             NEW p \in Proc,
             NEW label \in {"acquire", "load", "release"} \cup Ended, Goto(p, label)
      PROVE  TypeInv'
  <2>1. pc' \in [Proc -> {"collect", "acquire"} \cup Inside \cup Ended]
    BY <1>0, <1>1 DEF Goto, Inside, Ended
  <2>2. \A q \in Proc : pc'[q] \in {"write", "replace"} => pc[q] \in {"write", "replace"}
    BY <1>0, <1>1 DEF Goto, Ended
  <2> QED
    BY <1>1, <2>1, <2>2 DEF TypeInv
<1>2. ASSUME NEW p \in Proc, Collect(p) \/ Acquire(p) \/ GiveUp(p) \/ ReplaceFails(p)
                               \/ Release(p) \/ Die(p)
      PROVE  TypeInv'
  <2>1. /\ UNCHANGED <<file, copy, recorded>> /\ tmp' \subseteq Proc /\ owner' \in Proc \cup {Nobody}
        /\ \E label \in {"acquire", "load", "release"} \cup Ended : Goto(p, label)
    BY <1>2 DEF Collect, Acquire, GiveUp, ReplaceFails, Release, Die, TypeInv, Ended
  <2> QED
    BY <1>1, <2>1
<1>3. ASSUME NEW p \in Proc, Load(p)
      PROVE  TypeInv'
  <2> DEFINE new == Learn(IF Readable(p) THEN file.hist ELSE Empty, p)
  <2>1. /\ pc[p] = "load" /\ copy' = [copy EXCEPT ![p] = new] /\ pc' = [pc EXCEPT ![p] = "write"]
        /\ UNCHANGED <<owner, file, tmp, recorded>>
    BY <1>3 DEF Load, Goto
  <2>2. new \in Histories(recorded \cup {p})
    BY <1>0, LearnType
  <2>3. new \in Histories(Proc)
    BY <1>0, <2>2, MoreSamples
  <2> HIDE DEF new
  <2>4. \A q \in Proc : /\ pc'[q] = IF q = p THEN "write" ELSE pc[q]
                        /\ copy'[q] = IF q = p THEN new ELSE copy[q]
    BY <1>0, <2>1
  <2>5. \A q \in Proc : pc'[q] \in {"write", "replace"} => copy'[q] \in Histories(recorded \cup {q})
    BY <2>2, <2>4 DEF TypeInv
  <2>6. copy' \in [Proc -> Histories(Proc)] /\ pc' \in [Proc -> {"collect", "acquire"} \cup Inside \cup Ended]
    BY <1>0, <2>1, <2>3 DEF Inside
  <2> QED
    BY <2>1, <2>5, <2>6 DEF TypeInv
<1>4. ASSUME NEW p \in Proc, WriteTemporary(p)
      PROVE  TypeInv'
  <2>1. /\ pc[p] = "write" /\ pc' = [pc EXCEPT ![p] = "replace"] /\ tmp' = tmp \cup {p}
        /\ UNCHANGED <<owner, file, copy, recorded>>
    BY <1>4 DEF WriteTemporary, Goto
  <2>2. \A q \in Proc : pc'[q] \in {"write", "replace"} => pc[q] \in {"write", "replace"}
    BY <1>0, <2>1
  <2>3. pc' \in [Proc -> {"collect", "acquire"} \cup Inside \cup Ended]
    BY <1>0, <2>1 DEF Inside
  <2> QED
    BY <2>1, <2>2, <2>3 DEF TypeInv
<1>5. ASSUME NEW p \in Proc, Replace(p)
      PROVE  TypeInv'
  <2>1. /\ pc[p] = "replace" /\ pc' = [pc EXCEPT ![p] = "release"] /\ tmp' = tmp \ {p}
        /\ file' = [user |-> UserOf[p], hist |-> copy[p]] /\ recorded' = recorded \cup {p}
        /\ UNCHANGED <<owner, copy>>
    BY <1>5 DEF Replace, Goto
  <2>2. copy[p] \in Histories(recorded') /\ UserOf[p] \in User
    BY <2>1, ConstantAssumption DEF TypeInv
  <2>3. file' \in [user : User \cup {Nobody}, hist : Histories(recorded')]
    BY <2>1, <2>2
  <2>4. ASSUME NEW q \in Proc, pc'[q] \in {"write", "replace"}
        PROVE  copy'[q] \in Histories(recorded' \cup {q})
    <3>1. pc[q] \in {"write", "replace"}
      BY <1>0, <2>1, <2>4
    <3>2. copy[q] \in Histories(recorded \cup {q})
      BY <3>1 DEF TypeInv
    <3> QED
      BY <2>1, <3>2, MoreSamples
  <2>5. pc' \in [Proc -> {"collect", "acquire"} \cup Inside \cup Ended]
    BY <1>0, <2>1 DEF Inside
  <2> QED
    BY <2>1, <2>3, <2>4, <2>5 DEF TypeInv
<1>6. CASE UNCHANGED vars
  BY <1>6 DEF vars, TypeInv
<1> QED
  BY <1>2, <1>3, <1>4, <1>5, <1>6 DEF Next, Step

(* The lock keeps the processes apart, and no process is recorded that has *)
(* not replaced the file.                                                  *)
LEMMA PlaceStep ==
  ASSUME TypeInv, PlaceInv, [Next]_vars
  PROVE  PlaceInv'
<1>0. /\ pc \in [Proc -> {"collect", "acquire"} \cup Inside \cup Ended]
      /\ Nobody \notin Proc /\ tmp \subseteq Proc
  BY ConstantAssumption DEF TypeInv
<1>1. ASSUME NEW p \in Proc, Step(p) \/ Die(p)
      PROVE  PlaceInv'
  <2>1. PICK label : pc' = [pc EXCEPT ![p] = label]
    BY <1>1 DEF Step, Collect, Acquire, GiveUp, Load, WriteTemporary, Replace, ReplaceFails, Release,
                Die, Goto
  <2>2. \A q \in Proc : pc'[q] = IF q = p THEN label ELSE pc[q]
    BY <1>0, <2>1
  <2>3. label = pc'[p]
    BY <2>2
  <2> USE <1>0, <2>2, <2>3 DEF PlaceInv
  <2>4. CASE Collect(p) \/ GiveUp(p)
    BY <2>4 DEF Collect, GiveUp, Goto, Inside
  <2>5. CASE Acquire(p)
    BY <2>5 DEF Acquire, Goto, Inside
  <2>6. CASE Load(p) \/ WriteTemporary(p)
    BY <2>6 DEF Load, WriteTemporary, Goto, Inside
  <2>7. CASE Replace(p)
    BY <2>7 DEF Replace, Goto, Inside
  <2>8. CASE ReplaceFails(p) \/ Release(p)
    BY <2>8 DEF ReplaceFails, Release, Goto, Inside
  <2>9. CASE Die(p)
    BY <2>9 DEF Die, Goto, Inside, Ended
  <2> QED
    BY <1>1, <2>4, <2>5, <2>6, <2>7, <2>8, <2>9 DEF Step
<1>2. CASE UNCHANGED vars
  BY <1>2 DEF vars, PlaceInv
<1> QED
  BY <1>1, <1>2 DEF Next

(* The file does not change while a process works on its copy: another one *)
(* that replaced it would have the lock.                                   *)
LEMMA CopyStep ==
  ASSUME TypeInv, PlaceInv, CopyInv, [Next]_vars
  PROVE  CopyInv'
<1>0. /\ pc \in [Proc -> {"collect", "acquire"} \cup Inside \cup Ended]
      /\ copy \in [Proc -> Histories(Proc)]
  BY DEF TypeInv
<1>1. ASSUME NEW p \in Proc, Step(p) \/ Die(p), ~ Load(p), ~ Replace(p)
      PROVE  CopyInv'
  <2>1. UNCHANGED <<file, copy>>
    BY <1>1 DEF Step, Collect, Acquire, GiveUp, WriteTemporary, ReplaceFails, Release, Die
  <2>2. \A q \in Proc : pc'[q] \in {"write", "replace"} => pc[q] \in {"write", "replace"}
    BY <1>0, <1>1 DEF Step, Collect, Acquire, GiveUp, WriteTemporary, ReplaceFails, Release, Die, Goto
  <2> QED
    BY <2>1, <2>2 DEF CopyInv, Found, Readable
<1>2. ASSUME NEW p \in Proc, Load(p)
      PROVE  CopyInv'
  <2> DEFINE new == Learn(Found(p), p)
  <2>1. /\ copy' = [copy EXCEPT ![p] = new] /\ pc' = [pc EXCEPT ![p] = "write"] /\ UNCHANGED file
    BY <1>2 DEF Load, Goto, Found
  <2>2. new = Learn(Found(p), p)
    OBVIOUS
  <2> HIDE DEF new
  <2>3. \A q \in Proc : /\ pc'[q] = IF q = p THEN "write" ELSE pc[q]
                        /\ copy'[q] = IF q = p THEN new ELSE copy[q]
    BY <1>0, <2>1
  <2> QED
    BY <2>1, <2>2, <2>3 DEF CopyInv, Found, Readable
<1>3. ASSUME NEW p \in Proc, Replace(p)
      PROVE  CopyInv'
  <2>1. /\ pc[p] = "replace" /\ pc' = [pc EXCEPT ![p] = "release"]
        /\ file' = [user |-> UserOf[p], hist |-> copy[p]]
    BY <1>3 DEF Replace, Goto
  <2>2. \A q \in Proc : pc'[q] \notin {"write", "replace"}
    BY <1>0, <2>1 DEF PlaceInv, Inside
  <2>3. UserOf[p] # Nobody
    BY ConstantAssumption
  <2> QED
    BY <2>1, <2>2, <2>3 DEF CopyInv
<1>4. CASE UNCHANGED vars
  BY <1>4 DEF vars, CopyInv, Found, Readable
<1> QED
  BY <1>1, <1>2, <1>3, <1>4 DEF Next

(* The inductive invariant of the history and its processes.               *)
THEOREM Invariance == Spec => [](TypeInv /\ PlaceInv /\ CopyInv)
<1>1. TypeInv /\ PlaceInv /\ CopyInv /\ [Next]_vars => (TypeInv /\ PlaceInv /\ CopyInv)'
  BY TypeStep, PlaceStep, CopyStep
<1> QED
  BY <1>1, InitTypes, PTL DEF Spec
-----------------------------------------------------------------------------
(* An update that has ended says truly whether the samples of its run are  *)
(* in the file, and leaves no lock or temporary file of its own, for any   *)
(* users, whatever is killed and whichever replacement is refused.         *)
THEOREM UpdateIsOK == Spec => []UpdateOK
<1>1. TypeInv /\ PlaceInv => UpdateOK
  <2> SUFFICES ASSUME TypeInv, PlaceInv PROVE UpdateOK
    OBVIOUS
  <2>1. SamplesOf(Proc) = Sample
    BY DEF SamplesOf, Sample
  <2>2. file.hist \in Histories(recorded) /\ file.hist \in Histories(Proc)
    BY MoreSamples DEF TypeInv
  <2>3. TypeOK
    BY <2>1, <2>2 DEF TypeInv, TypeOK, Histories
  <2>4. ReturnMeansRecorded
    <3>1. ASSUME NEW p \in Proc, pc[p] \in {"gave up", "raised"},
                 NEW t \in Target, NEW i \in DOMAIN file.hist[t]
          PROVE  file.hist[t][i].run # p
      <4>1. p \notin recorded
        BY <3>1 DEF PlaceInv
      <4>2. file.hist[t] \in Seq(SamplesOf(recorded))
        BY <2>2 DEF Histories
      <4>3. file.hist[t][i] \in SamplesOf(recorded)
        BY <4>2
      <4> QED
        BY <4>1, <4>3 DEF SamplesOf
    <3> QED
      BY <3>1 DEF PlaceInv, ReturnMeansRecorded
  <2>5. CleanExit
    BY DEF PlaceInv, CleanExit, Inside, Ended
  <2> QED
    BY <2>3, <2>4, <2>5 DEF UpdateOK
<1> QED
  BY <1>1, Invariance, PTL

(* A replacement puts what the process found in the file, with its own     *)
(* samples, in its place, and it is not recorded before.                   *)
LEMMA ReplacementFacts ==
  ASSUME TypeInv, PlaceInv, CopyInv, NEW p \in Proc, Replace(p)
  PROVE  /\ file' = [user |-> UserOf[p], hist |-> Learn(Found(p), p)]
         /\ Sticky => Readable(p) \/ UserOf[p] = RootOwner
         /\ p \notin recorded
         /\ recorded' = recorded \cup {p}
  BY DEF Replace, MayReplace, PlaceInv, CopyInv

(* Nothing else touches the file.                                          *)
LEMMA OnlyReplacements ==
  ASSUME [Next]_vars, ~ UNCHANGED <<file, recorded>>
  PROVE  \E p \in Proc : Replace(p)
  BY DEF Next, Step, vars, Collect, Acquire, GiveUp, Load, WriteTemporary, ReplaceFails, Release, Die

(* What README.md:25 comes to for a user whose history no other user may   *)
(* replace, as the owner of a sticky root is one, or anybody when that     *)
(* owner runs nothing: the history that he finds is the log of his own     *)
(* runs, whoever else writes the file, runs at the same time or is killed. *)
THEOREM ReaderHasALog ==
  ASSUME ReaderIsSafe
  PROVE  Spec => ReaderKeepsLog
<1>1. Init => Own!Init
  BY DEF Init, Own!Init, Empty, View
<1>2. TypeInv /\ PlaceInv /\ CopyInv /\ [Next]_vars => [Own!Next]_(Own!vars)
  <2> SUFFICES ASSUME TypeInv, PlaceInv, CopyInv, [Next]_vars,
                      ~ UNCHANGED <<View, recorded \cap OwnRuns>>
               PROVE  Own!Next
    BY DEF Own!vars
  <2>1. PICK p \in Proc : Replace(p)
    BY OnlyReplacements DEF View
  <2>2. /\ file'.user = UserOf[p] /\ file'.hist = Learn(Found(p), p)
        /\ Sticky => Readable(p) \/ UserOf[p] = RootOwner
        /\ p \notin recorded /\ recorded' = recorded \cup {p}
    BY <2>1, ReplacementFacts
  <2>3. Reader # Nobody /\ UserOf[p] # Nobody
    BY ConstantAssumption
  <2>4. UserOf[p] = Reader
    <3> SUFFICES ASSUME UserOf[p] # Reader PROVE FALSE
      OBVIOUS
    <3>1. file.user \in {Nobody, UserOf[p]}
      BY <2>2 DEF ReaderIsSafe, Readable
    <3>2. View = Empty /\ View' = Empty
      BY <2>2, <2>3, <3>1 DEF View, CopyInv
    <3>3. recorded' \cap OwnRuns = recorded \cap OwnRuns /\ OwnRuns' = OwnRuns
      BY <2>2 DEF OwnRuns
    <3> QED
      BY <3>2, <3>3
  <2>5. View' = Learn(View, p)
    BY <2>2, <2>3, <2>4 DEF View, Found, Readable
  <2>6. Learn(View, p) = Own!Learn(View, p)
    BY DEF Learn, Own!Learn, Newest, Own!Newest
  <2>7. /\ p \in OwnRuns /\ p \notin recorded \cap OwnRuns
        /\ (recorded \cap OwnRuns)' = (recorded \cap OwnRuns) \cup {p}
    BY <2>2, <2>4 DEF OwnRuns
  <2> QED
    BY <2>5, <2>6, <2>7 DEF Own!Next, Own!Record
<1> QED
  BY <1>1, <1>2, Invariance, PTL DEF Spec, ReaderKeepsLog, Own!Spec

(* README.md:25, a shared history: for a single user, or under a sticky    *)
(* root whose owner runs nothing, each process replaces the file by the    *)
(* samples of all recorded runs before it plus its own, all of them or     *)
(* none, whatever runs at the same time and wherever it is killed.         *)
THEOREM ImplementsLog ==
  ASSUME OwnHistory
  PROVE  Spec => ImplementsSampleLog
<1>1. Init => Log!Init
  BY DEF Init, Log!Init, Empty
<1>2. TypeInv /\ PlaceInv /\ CopyInv /\ [Next]_vars => [Log!Next]_(Log!vars)
  <2> SUFFICES ASSUME TypeInv, PlaceInv, CopyInv, [Next]_vars,
                      ~ UNCHANGED <<file.hist, recorded>>
               PROVE  Log!Next
    BY DEF Log!vars
  <2>1. PICK p \in Proc : Replace(p)
    BY OnlyReplacements
  <2>2. /\ file'.hist = Learn(Found(p), p)
        /\ Sticky => Readable(p) \/ UserOf[p] = RootOwner
        /\ p \notin recorded /\ recorded' = recorded \cup {p}
    BY <2>1, ReplacementFacts
  <2>3. Found(p) = file.hist
    BY <2>2 DEF Found, OwnHistory, CopyInv, Readable
  <2>4. Learn(file.hist, p) = Log!Learn(file.hist, p)
    BY DEF Learn, Log!Learn, Newest, Log!Newest
  <2> QED
    BY <2>2, <2>3, <2>4 DEF Log!Next, Log!Record
<1> QED
  BY <1>1, <1>2, Invariance, PTL DEF Spec, ImplementsSampleLog, Log!Spec
=============================================================================
