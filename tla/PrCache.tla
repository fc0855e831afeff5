------------------------------- MODULE PrCache -------------------------------
(* The cache of raw pull request data (pr_cache.py, PrApiCache): one JSON file
   per URL, written in place, so that a process that stops while it writes
   leaves a torn file.  A second writer is scripts/cache_pr_list.py, which fills
   the cache ahead of a batch and also records requests that failed.

   The data of a pull request is abstracted to a version: the host's current
   one is upstream[pr].                                                       *)
EXTENDS Naturals

CONSTANTS
  Prs,           \* the pull requests, one per URL
  MaxVersion     \* bound: versions of a pull request

ASSUME MaxVersionAssumption == MaxVersion \in Nat

VARIABLES
  upstream,      \* upstream[pr]: the version the git host would send now
  api            \* api[pr]: the file <host>/<owner>/<repo>/PR_<n>.json

cacheVars == <<upstream, api>>

Versions == 0..MaxVersion
Modes == {"read-write", "read-only", "refresh"}

Absent == [file |-> "absent"]
Torn == [file |-> "torn"]
Whole(status, version) == [file |-> "whole", status |-> status, version |-> version]

CacheTypeOK ==
  /\ upstream \in [Prs -> Versions]
  /\ api \in [Prs -> {Absent, Torn}
                       \cup {Whole(s, v) : s \in {"ok", "error"}, v \in Versions}]

CacheInit ==
  /\ upstream = [pr \in Prs |-> 0]
  /\ api = [pr \in Prs |-> Absent]

\* PrApiCache.get: the file, nothing, or MissingPrCacheError.  A file that does
\* not parse counts as a missing one (one cut inside a character, which is not caught, is
\* left out).
Nothing == [file |-> "nothing"]
Missing == [file |-> "missing"]

(* Variant: the mode is not asked. *)
GetInAnyMode(mode, pr) ==
  IF api[pr].file = "whole" THEN api[pr]
  ELSE IF mode = "read-only" THEN Missing ELSE Nothing

(* Variant: only the mode read-write looks into the cache. *)
GetWhenWritable(mode, pr) ==
  IF mode = "read-write" /\ api[pr].file = "whole" THEN api[pr] ELSE Nothing

Get(mode, pr) ==
  IF mode = "refresh" THEN Nothing
  ELSE IF api[pr].file = "whole" THEN api[pr]
  ELSE IF mode = "read-only" THEN Missing ELSE Nothing

\* cached_pr is not None and cached_pr.fetch_status == "ok"
IsUsable(entry) == entry.file = "whole" /\ entry.status = "ok"

\* PrApiCache.put: write_text truncates the file and then fills it.
OpenEntry(pr) == api' = [api EXCEPT ![pr] = Torn]
FillEntry(pr, version) == api' = [api EXCEPT ![pr] = Whole("ok", version)]

\* The author pushes: the host has a new version.
Push(pr) ==
  /\ upstream[pr] < MaxVersion
  /\ upstream' = [upstream EXCEPT ![pr] = @ + 1]
  /\ UNCHANGED api

\* scripts/cache_pr_list.py, _process_one: a complete entry is kept, any other
\* is replaced by what the request gave, also when it gave an error.
Prefetch(pr) ==
  /\ ~ IsUsable(api[pr])
  /\ \E entry \in {Whole("ok", upstream[pr]), Whole("error", upstream[pr]), Torn} :
        api' = [api EXCEPT ![pr] = entry]
  /\ UNCHANGED upstream
===============================================================================
