------------------------------ MODULE Selecting ------------------------------
(* The ways to the tests of a change: the report, which scores every project; the
   symbols or the lines asked of the API graph and the universal impact of the
   changed files, each an opt-in block of the command (cli.py), the latter by way of
   one resolver for each file; and the resolver of pull requests that the batches
   call (batch_validate.py).  Before any of them a run of the command reads its indexes.
   They share operators and nothing else; a behaviour takes one of them.      *)
EXTENDS GraphFile, UniversalPipeline, BatchQuality, SelectionReport, TopicResolver,
        ProjectIndex, SourceToApi

VARIABLE way    \* the way still to take, "asked" when a query is under way

selectingVars ==
  <<way, graphVars, universalVars, vars, reportVars, topicVars, indexVars, makingVars,
    lookupVars>>

NothingMade ==
  request = NoRequestMade /\ made = EmptyGraph /\ making = "none" /\ gaps = {} /\ apiAnswer = <<>>

NoGraphQuery ==
  graph = NoGraph /\ asked = <<>> /\ answers = <<>> /\ hunk = "none" /\ overall = "possible"

NoUniversalQuery ==
  changed = <<>> /\ perFile = <<>> /\ candidates = <<>> /\ report = NoReport /\ LimiterInit

NoRequest == files = [n \in 1..NFiles |-> CHOOSE p \in Profiles : TRUE] /\ Init

NoReportYet ==
  projects = <<>> /\ pending = <<>> /\ options = {} /\ results = <<>> /\ planned = {}

NoTopics ==
  /\ engineFile = Classified([rules |-> {}, tokens |-> {}]) /\ sdk = NoSdk /\ tree = NoXts
  /\ topicIds = <<>> /\ sdkTopics = <<>> /\ usage = {} /\ scan = NotScanned
  /\ resolution = Unanswered

NoIndexes ==
  /\ clock = 0 /\ edits = [t \in Trees |-> 0] /\ stamps = [t \in Trees |-> 0]
  /\ cacheFile = NotThere /\ metaFile = NotThere /\ lineageFile = NotThere
  /\ step = "idle" /\ cached = FALSE /\ calls = 0 /\ indexed = <<>> /\ lazy = FALSE
  /\ signature = <<>> /\ inputs = <<>> /\ lineageMap = EmptyMap /\ quiet = FALSE /\ raced = FALSE

NoLookup ==
  /\ registry = <<>> /\ engineFiles = <<>> /\ testUses = {} /\ changedPath = <<>>
  /\ mapped = <<>> /\ consumers = <<>> /\ lookupStep = "file"

SelectingInit ==
  \/ /\ NoIndexes /\ NothingMade /\ NoLookup
     /\ \/ way = "graph" /\ GraphInit /\ NoUniversalQuery /\ NoRequest /\ NoReportYet /\ NoTopics
        \/ way = "universal" /\ UniversalInit /\ NoGraphQuery /\ NoRequest /\ NoReportYet /\ NoTopics
        \/ way = "request" /\ Init /\ NoGraphQuery /\ NoUniversalQuery /\ NoReportYet /\ NoTopics
        \/ way = "report" /\ ReportInit /\ NoGraphQuery /\ NoUniversalQuery /\ NoRequest /\ NoTopics
        \/ way = "topics" /\ TopicInit /\ NoGraphQuery /\ NoUniversalQuery /\ NoRequest /\ NoReportYet
  \/ /\ way = "indexes" /\ IndexesInit /\ NothingMade /\ NoLookup
     /\ NoGraphQuery /\ NoUniversalQuery /\ NoRequest /\ NoReportYet /\ NoTopics
  \/ /\ way = "making" /\ MakingInit /\ NoIndexes /\ NoLookup
     /\ NoGraphQuery /\ NoUniversalQuery /\ NoRequest /\ NoReportYet /\ NoTopics
  \/ /\ way = "lookup" /\ LookupInit /\ NoIndexes /\ NothingMade
     /\ NoGraphQuery /\ NoUniversalQuery /\ NoRequest /\ NoReportYet /\ NoTopics

Ask ==
  /\ way = "graph" /\ way' = "asked"
  /\ AskSymbols \/ AskLines \/ AskFile
  /\ UNCHANGED <<universalVars, vars, reportVars, topicVars, indexVars, makingVars, lookupVars>>

Answer ==
  /\ way = "asked"
  /\ Lookup \/ SumUp
  /\ UNCHANGED <<way, universalVars, vars, reportVars, topicVars, indexVars, makingVars, lookupVars>>

Universal ==
  /\ way = "universal"
  /\ UniversalNext
  /\ UNCHANGED <<way, graphVars, vars, reportVars, topicVars, indexVars, makingVars, lookupVars>>

Request ==
  /\ way = "request"
  /\ Next
  /\ UNCHANGED <<way, graphVars, universalVars, reportVars, topicVars, indexVars, makingVars, lookupVars>>

Report ==
  /\ way = "report"
  /\ ReportNext
  /\ UNCHANGED <<way, graphVars, universalVars, vars, topicVars, indexVars, makingVars, lookupVars>>

Topics ==
  /\ way = "topics"
  /\ TopicNext
  /\ UNCHANGED <<way, graphVars, universalVars, vars, reportVars, indexVars, makingVars, lookupVars>>

Indexes ==
  /\ way = "indexes"
  /\ IndexesNext
  /\ UNCHANGED <<way, graphVars, universalVars, vars, reportVars, topicVars, makingVars, lookupVars>>

\* A graph is made, read and asked.
Make ==
  /\ way = "making" /\ MakingNext
  /\ UNCHANGED <<way, universalVars, vars, reportVars, topicVars, indexVars, lookupVars>>

AskMade ==
  /\ way = "making" /\ making = "loaded" /\ way' = "asked"
  /\ AskSymbols \/ AskFile
  /\ request' = NoRequestMade /\ made' = EmptyGraph /\ making' = "none" /\ gaps' = {}
  /\ UNCHANGED <<apiAnswer, universalVars, vars, reportVars, topicVars, indexVars, lookupVars>>

Look ==
  /\ way = "lookup"
  /\ LookupNext
  /\ UNCHANGED <<way, graphVars, universalVars, vars, reportVars, topicVars, indexVars, makingVars>>

SelectingNext == Make \/ AskMade \/ Ask \/ Answer \/ Universal \/ Request \/ Report \/ Topics \/ Indexes
                 \/ Look

\* No fairness: a query answers what it answers.
SelectingSpec == SelectingInit /\ [][SelectingNext]_selectingVars

-------------------------------------------------------------------------------
\* A query for a change finds the best evidence there is, in the graphs that the tool
\* makes as in any other, and those are sound.
EvidenceIsSound == BestEvidenceIsSelected /\ GraphsAreSound

\* What a resolver answers for a file is found by its scan, and is what the pipeline
\* takes it for: the bucket of the file, from whether it has a route and a name and
\* from the first mention of each name in each test source.
TopicsAreFound ==
  /\ UsesAreFound
  /\ resolution # Unanswered =>
       resolution.bucket =
         TopicBucket([routed |-> topicIds # <<>>,
                      named |-> \E k \in DOMAIN sdkTopics : sdkTopics[k].names # {}],
           [e \in usage |-> [mentions |-> <<IF e.kind = "import_only" THEN "import" ELSE "use">>]])

\* The indexes serve the report: the map of lineage agrees with itself and with the index
\* of the SDK, no query for a surface loses a project that has a test file of it, and the registries give
\* a method its own API and every project that uses it.
IndexesServeTheReport ==
  /\ LineageIsCoherent /\ LookupsAreSound
  /\ \A p \in DOMAIN indexed : \A file \in Indexed(p).files :
       FileSurface(file) = "utility" \/ VariantMatches([variant |-> Variants[p]], FileSurface(file))

\* What is cut off has lost its place to what stays under the same cap, and comes after it:
\* in the universal impact by its strength, in the ranking of a request by its score, and
\* there the strongest evidence is never cut off.
LimitsKeepTheBest == CapsKeepTheBest /\ StrongestSurvive
===============================================================================
