--------------------------- MODULE MCComparingRuns ---------------------------
(* Small instances of SelectorRun and of comparisons. *)
EXTENDS ComparingRuns

CONSTANTS p1, p2, p3

\* Two labelled runs in directories of their own, and p3 without a label, which starts
\* from the latest saved report.
Apart == [p \in Run |-> IF p = p1 THEN {1} ELSE IF p = p2 THEN {2} ELSE {}]

MCTests == 1..3
MCModuleOf == <<"button", "button", "slider">>
MCTokensOf == ("button" :> {"button", "advanced"}) @@ ("slider" :> {"slider"})

-----------------------------------------------------------------------------
\* Cases: two tests in every pair of outcomes, the third fails everywhere.
Silent == [hits |-> {}, print |-> "", size |-> 0]
Died(n) == [hits |-> {"CRASH", "ASSERTION"}, print |-> "died", size |-> n]
Raw == {<<"run", "true">>, <<"run", "false">>, <<"disable", "">>, <<"error", "">>, <<"", "">>}
Case(t, raw, message, ms) ==
  [test |-> t, status |-> raw[1], result |-> raw[2], message |-> message, ms |-> ms]

Content(kind, cases) ==
  [kind |-> kind, suffix |-> kind # "directory", special |-> FALSE, xml |-> "whole", start |-> 0,
   named |-> 0, cases |-> cases, errors |-> <<>>, devices |-> {"d1"}]
Missing == [Content("missing", <<>>) EXCEPT !.xml = "none"]
Failed(t, n) == Case(t, <<"run", "false">>, Died(n), 500)

\* One or two cases of test 1, none or one of test 2.
BaseCases ==
  {<<Case(1, r, Silent, 100)>> : r \in Raw}
    \cup {<<Case(1, r, Silent, 100), Case(2, s, Died(9), 2000), Failed(3, 9)>> : r, s \in Raw}
TargetCases ==
  {<<Case(1, r, Died(7), 2000), Case(2, s, Silent, 100), Failed(3, 5)>> : r, s \in Raw}
    \cup {<<Case(2, r, Silent, 2000), Case(2, s, Silent, 100)>> : r, s \in Raw}

At(c, ini, name) == [c EXCEPT !.start = ini, !.named = name]

\* Path 4 is the directory that holds the others: one run when a result directory is
\* among them, else to be searched.
Holding(s) ==
  LET results == SelectSeq(s, LAMBDA c : c.kind = "directory")
  IN IF results = <<>> THEN [Content("folder", <<>>) EXCEPT !.xml = "none"]
     ELSE [results[1] EXCEPT !.kind = "folder"]
Disk(a, b, c) ==
  LET s == <<a, b, c>>
  IN [files |-> Append(s, Holding(s)), store |-> {},
      folder |-> SelectSeq(<<1, 2, 3>>, LAMBDA p : s[p].kind \in {"archive", "torn"})]
Pairs ==
  {Disk(Content("archive", a), At(Content("directory", b), 1, 1), Missing) :
     a \in BaseCases, b \in TargetCases}

\* The same three runs with and without times and faults.
Row(r, s) == <<Case(1, r, Silent, 100), Case(2, s, Silent, 100)>>
Pass == <<"run", "true">>
Fail == <<"run", "false">>
Lines ==
  {Disk(At(Content("archive", Row(r, Pass)), i[1], n[1]), At(Content("archive", Row(s, Fail)), i[2], n[2]),
        At(Content("archive", Row(t, <<"disable", "">>)), i[3], n[3])) :
     r, s, t \in Raw,
     i \in {<<3, 1, 2>>, <<0, 0, 5>>, <<0, 0, 0>>}, n \in {<<2, 3, 1>>, <<0, 2, 1>>}}
Faults ==
  {Missing, Content("torn", <<>>), [Content("archive", <<>>) EXCEPT !.xml = "none"],
   [Content("archive", Row(Pass, Fail)) EXCEPT !.xml = "broken"],
   [Content("archive", Row(Pass, Fail)) EXCEPT !.special = TRUE],
   [Content("archive", Row(Pass, Fail)) EXCEPT !.errors = "button" :> {"TIMEOUT"}]}
Faulty ==
  {Disk(a, At(Content("archive", Row(Pass, Pass)), 2, 2), b) : a, b \in Faults}

\* Selector runs with labels: the newest has no results any more, or has not completed.
\* Of two with one time the last in the order of the manifests' paths counts.
Manifest(label, completed, paths, time, name) ==
  [label |-> label, completed |-> completed, paths |-> paths, time |-> time, name |-> name]
Part(t, r) == Content("directory", <<Case(t, r, Silent, 100)>>)
Stored ==
  {[files |-> <<Part(1, r), Part(u, Pass), Missing, Missing>>, folder |-> <<>>,
    store |-> {Manifest("old", TRUE, <<1>>, 1, 1), Manifest("old", FALSE, <<2>>, 2, 2),
               Manifest("new", TRUE, <<2>>, 3, 3), Manifest("new", TRUE, <<1, 2>>, 3, 4),
               Manifest("new", TRUE, <<3>>, 4, 5), Manifest("lost", TRUE, <<3>>, 5, 6)}] :
     r \in Raw, u \in {1, 2}}

MCWorlds == Pairs \cup Lines \cup Faulty \cup Stored

-----------------------------------------------------------------------------
Given0 == [path |-> 0, label |-> ""]
Label(l) == [path |-> 0, label |-> l]
Plain ==
  [base |-> Given0, target |-> Given0, timeline |-> <<>>, paths |-> <<>>, strict |-> FALSE,
   outputs |-> {}, types |-> TRUE, selector |-> "readable", predictions |-> <<>>, limit |-> 0]
Predictions == <<<<{"button"}, {"slider", "common"}>>, <<{"advanced", "slider"}>>, <<{"image"}>>>>

MCCommands ==
  {[Plain EXCEPT !.paths = <<1, 2>>, !.predictions = Predictions],
   [Plain EXCEPT !.paths = <<1, 1>>],
   [Plain EXCEPT !.paths = <<2, 1>>, !.selector = "unreadable"],
   [Plain EXCEPT !.base = FromPath(1), !.target = FromPath(2), !.outputs = {"json", "html"}],
   [Plain EXCEPT !.base = Label("old"), !.target = Label("new")],
   [Plain EXCEPT !.base = Label("lost"), !.target = FromPath(1)],
   [Plain EXCEPT !.base = Label("old")],
   [Plain EXCEPT !.timeline = <<3, 1, 2>>],
   [Plain EXCEPT !.paths = <<3, 2, 1>>, !.outputs = {"html"}],
   [Plain EXCEPT !.paths = <<1, 2, 3>>, !.strict = TRUE],
   [Plain EXCEPT !.paths = <<3>>]}
   \cup {[Plain EXCEPT !.paths = <<4>>, !.limit = n, !.strict = (n = 1)] : n \in 0..2}
=============================================================================
