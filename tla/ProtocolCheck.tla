----------------------------- MODULE ProtocolCheck -----------------------------
(***************************************************************************)
(* cmd/protocolcheck/main.go: one run of the program that compares the     *)
(* Bedrock version gophertunnel speaks with the one production reports,    *)
(* and the job of .github/workflows/protocol-check.yml around it.          *)
(*                                                                         *)
(* The program tells its answer in three ways at once (exit code, step     *)
(* outputs, annotations) and any write of the outputs may fail halfway.    *)
(* The job runs it with `go run`, stops at a step that fails and, as every *)
(* `if` without a status function is, guards its last step by success().   *)
(*                                                                         *)
(* A definition marked FAULT is the one after it with a mistake in it,     *)
(* which a property below must notice.                                     *)
(***************************************************************************)
EXTENDS Naturals

CONSTANTS
  Releases,     (* Bedrock versions                                         *)
  Modules,      (* gophertunnel versions                                    *)
  Empty         (* the empty string: an argument not given, no build info   *)

ASSUME CheckAssumption == Empty \notin Releases /\ Empty \notin Modules

VARIABLES
  byHand,       (* not run by the workflow                                  *)
  production,   (* -production-version                                      *)
  library,      (* protocol.CurrentVersion                                  *)
  vendored,     (* vendoredVersion()                                        *)
  newest,       (* what go list finds upstream                              *)
  upstream,     (* -upstream-version                                        *)
  output,       (* GITHUB_OUTPUT: unset, or a file                          *)
  job,          (* where the job is                                         *)
  result,       (* what decide returned                                     *)
  written,      (* keys in the output file                                  *)
  warned,       (* the ::warning annotation was printed                     *)
  exit,         (* exit code of the program                                 *)
  failed,       (* a step of the job has failed                             *)
  bump          (* the step that opens the bump pull request                *)

inputVars == <<byHand, production, library, vendored, newest, output>>
checkVars == <<inputVars, upstream, job, result, written, warned, exit, failed, bump>>

Statuses == {"match", "behind", "blocked-on-upstream"}
NoExit   == 99

(* The pairs handed to emit.                                               *)
Keys(status) ==
  {"status", "changed", "library_version", "production_version"}
    \cup (IF status = "match" THEN {} ELSE {"vendored_version", "upstream_version"})

decide(lib, prod, vend, up) ==
  IF lib = prod THEN "match"
  ELSE IF up # Empty /\ vend # Empty /\ up = vend THEN "blocked-on-upstream"
  ELSE "behind"

CheckInit ==
  /\ byHand \in BOOLEAN
  /\ production \in Releases \cup (IF byHand THEN {Empty} ELSE {})
  /\ library \in Releases
  /\ vendored \in Modules \cup {Empty}
  /\ newest \in Modules
  /\ output = IF byHand THEN "unset" ELSE "file"
  /\ upstream = Empty
  /\ job = IF byHand THEN "flags" ELSE "list"
  /\ result = "match"
  /\ written = {}
  /\ warned = FALSE
  /\ exit = NoExit
  /\ failed = FALSE
  /\ bump = "pending"

-------------------------------------------------------------------------------
(***************************************************************************)
(* The steps of the job around the program.                                *)
(***************************************************************************)

(* go list finds the newest release, or fails and the job with it.         *)
ResolveUpstream ==
  /\ job = "list"
  /\ \/ /\ upstream' = newest
        /\ job' = "main"
        /\ UNCHANGED failed
     \/ /\ failed' = TRUE
        /\ job' = "steps"
        /\ UNCHANGED upstream
  /\ UNCHANGED <<inputVars, result, written, warned, exit, bump>>

(* A run by hand: -upstream-version is optional.                           *)
Flags ==
  /\ job = "flags"
  /\ upstream' \in {newest, Empty}
  /\ job' = "main"
  /\ UNCHANGED <<inputVars, result, written, warned, exit, failed, bump>>

(* The program exits with code c; go run turns any code but 0 into 1.      *)
Exits(c) ==
  /\ exit' = c
  /\ failed' = (c # 0)
  /\ job' = "steps"

(* The last step runs after steps that all succeeded, if its own condition *)
(* on the outputs holds.                                                   *)
JobEnds ==
  /\ job = "steps"
  /\ job' = "over"
  /\ bump' = IF ~byHand /\ ~failed /\ "status" \in written /\ result = "behind"
             THEN "run" ELSE "skipped"
  /\ UNCHANGED <<inputVars, upstream, result, written, warned, exit, failed>>

Over ==
  /\ job = "over"
  /\ UNCHANGED checkVars

-------------------------------------------------------------------------------
(***************************************************************************)
(* main.                                                                   *)
(***************************************************************************)

Usage ==
  /\ job = "main"
  /\ production = Empty
  /\ Exits(2)
  /\ UNCHANGED <<inputVars, upstream, result, written, warned, bump>>

(* decide, and the start of emit: nothing to do outside Actions.           *)
Decide ==
  /\ job = "main"
  /\ production # Empty
  /\ result' = decide(library, production, vendored, upstream)
  /\ job' = IF output = "unset" THEN "act" ELSE "open"
  /\ UNCHANGED <<inputVars, upstream, written, warned, exit, failed, bump>>

(* FAULT: the failure is logged and the program goes on.                   *)
EmitOrDieLogs ==
  /\ job' = "act"
  /\ UNCHANGED <<exit, failed>>

(* emitOrDie on an error from emit.                                        *)
EmitOrDie == Exits(2)

EmitOpen ==
  /\ job = "open"
  /\ \/ job' = "write" /\ UNCHANGED <<exit, failed>>
     \/ EmitOrDie
  /\ UNCHANGED <<inputVars, upstream, result, written, warned, bump>>

(* One pair, in the order a Go map happens to have.  The close after a     *)
(* write that failed may fail too; the write error wins.                   *)
EmitWrite ==
  /\ job = "write"
  /\ \E k \in Keys(result) \ written :
       \/ written' = written \cup {k} /\ UNCHANGED <<job, exit, failed>>
       \/ UNCHANGED written /\ EmitOrDie
  /\ UNCHANGED <<inputVars, upstream, result, warned, bump>>

(* FAULT: the bare defer f.Close() that main.go had before.                *)
EmitCloseUnchecked ==
  /\ job = "write"
  /\ written = Keys(result)
  /\ written' \in SUBSET written
  /\ job' = "act"
  /\ UNCHANGED <<inputVars, upstream, result, warned, exit, failed, bump>>

(* The deferred close: what it fails to write may be lost.                 *)
EmitClose ==
  /\ job = "write"
  /\ written = Keys(result)
  /\ \/ job' = "act" /\ UNCHANGED <<written, exit, failed>>
     \/ written' \in SUBSET written /\ EmitOrDie
  /\ UNCHANGED <<inputVars, upstream, result, warned, bump>>

(* FAULT: a gap nobody can close yet is passed over without a warning.     *)
ActQuietly ==
  /\ job = "act"
  /\ Exits(IF result = "behind" THEN 1 ELSE 0)
  /\ UNCHANGED <<inputVars, upstream, result, written, warned, bump>>

(* What main does with the answer once it is reported.                     *)
Act ==
  /\ job = "act"
  /\ warned' = (result = "blocked-on-upstream")
  /\ Exits(IF result = "behind" THEN 1 ELSE 0)
  /\ UNCHANGED <<inputVars, upstream, result, written, bump>>

-------------------------------------------------------------------------------
CheckNext ==
  \/ ResolveUpstream \/ Flags \/ JobEnds \/ Over
  \/ Usage \/ Decide \/ EmitOpen \/ EmitWrite \/ EmitClose \/ Act

CheckSpec == CheckInit /\ [][CheckNext]_checkVars

-------------------------------------------------------------------------------
(***************************************************************************)
(* Safety.                                                                 *)
(***************************************************************************)

(* An answer is never half an answer: the program exits 0 or 1 under       *)
(* Actions only when every output of its verdict is in the file; a next    *)
(* step reads no empty status as "no change".                              *)
AnswerIsWhole ==
  exit \in {0, 1} /\ output = "file" => written = Keys(result)

(* A run nobody needs to look at, exit 0 and no warning, is one whose      *)
(* versions matched.                                                       *)
QuietMeansMatch == exit = 0 /\ ~warned => library = production

===============================================================================
