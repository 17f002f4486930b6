------------------------------ MODULE TokenCache ------------------------------
(***************************************************************************)
(* The token cache of internal/mcauth/token.go: TokenSource at startup,    *)
(* Token during the sessions, tokenFileName, loadToken and saveToken, for  *)
(* the processes that share a cache directory: those of several accounts,  *)
(* and two of one account for a while when a rollout overlaps.             *)
(*                                                                         *)
(* A token is the number under which the identity provider issued it.  A   *)
(* file's content is a token whose bytes are on the disk or still in       *)
(* memory; a power cut destroys what is in memory, and may undo renames    *)
(* the file system has not written out yet.  A process may be killed       *)
(* between any two steps.  A user name is the sequence of its characters,  *)
(* over a small alphabet, as config.Load passes it on: not empty, and with *)
(* no space at either end.                                                 *)
(*                                                                         *)
(* A definition marked FAULT is the one after it with a mistake in it,     *)
(* which a property below must notice.                                     *)
(***************************************************************************)
EXTENDS Integers, Sequences

CONSTANTS
  Procs,        (* the processes                                            *)
  Threads,      (* the goroutines of all processes that call Token          *)
  Owner,        (* Owner[t]: the process of thread t                        *)
  Main,         (* Main[p]: the thread of p that calls TokenSource first    *)
  Crews,        (* user names the processes are given: functions of Procs   *)
  SlugLimit,    (* tokenSlugLimit                                           *)
  Sum,          (* Sum[n]: the first four bytes of the SHA-256 of name n;   *)
                (* nothing says that two names differ in them               *)
  Nobody,       (* the holder of a free mutex                               *)
  NoFile,       (* there is no such file                                    *)
  Torn,         (* a file that does not decode                              *)
  MaxTokens,    (* bound: tokens issued                                     *)
  MaxFaults     (* bound: failed calls, kills and power cuts                *)

ASSUME CacheAssumption ==
  /\ Owner \in [Threads -> Procs]
  /\ Main \in [Procs -> Threads]
  /\ \A p \in Procs : Owner[Main[p]] = p
  /\ \A crew \in Crews : DOMAIN crew = Procs
  /\ SlugLimit \in Nat
  /\ Nobody \notin Threads
  /\ MaxTokens \in Nat
  /\ MaxFaults \in Nat

ASSUME SumAssumption == \A crew \in Crews : \A p \in Procs : crew[p] \in DOMAIN Sum

Tokens   == 1..MaxTokens
Contents == [token : Tokens, synced : BOOLEAN]

(* The characters a slug may hold, and what becomes of the capitals.       *)
Plain == {"a", "b", "0", "-", "_"}
Lower == [A |-> "a", B |-> "b"]

Fold(c) == IF c \in Plain THEN c ELSE IF c \in DOMAIN Lower THEN Lower[c] ELSE "-"

Slug(username) ==
  LET cut == IF Len(username) < SlugLimit THEN Len(username) ELSE SlugLimit
  IN  [i \in 1..cut |-> Fold(username[i])]

(* FAULT: the hash is left out.                                            *)
tokenFileNameSlugOnly(username) == [slug |-> Slug(username), sum |-> <<>>]

(* The cache file of an account.  Names that slug alike share it only if   *)
(* their hashes begin alike as well.                                       *)
tokenFileName(username) == [slug |-> Slug(username), sum |-> Sum[username]]

FileNames == {tokenFileName(crew[p]) : crew \in Crews, p \in Procs}

ASSUME FileAssumption == NoFile \notin Contents /\ Torn \notin Contents /\ NoFile # Torn

VARIABLES
  user,      (* MC_USERNAME of each process                                 *)
  pc,        (* where each thread is                                        *)
  tok,       (* the token each thread holds; 0 is none                      *)
  inner,     (* the token in each process's oauth2 token source             *)
  mu,        (* cachingTokenSource.mu of each process                       *)
  tmp,       (* the temporary file of each thread's saveToken               *)
  file,      (* the cache files                                             *)
  onDisk,    (* what each of them may be after a power cut                  *)
  issued,    (* the user names tokens have been issued to, in that order    *)
  faults,    (* how much has gone wrong                                     *)
  \* History variable: no action reads it.
  overlapped (* two processes on one cache file have been alive at one time *)

threadVars == <<pc, tok>>
diskVars   == <<file, onDisk>>
vars == <<user, threadVars, inner, mu, tmp, diskVars, issued, faults, overlapped>>

Saving == {"create", "write", "sync", "rename"}
Path(p) == tokenFileName(user[p])

Init ==
  /\ user \in Crews
  /\ pc = [t \in Threads |-> "off"]
  /\ tok = [t \in Threads |-> 0]
  /\ inner = [p \in Procs |-> 0]
  /\ mu = [p \in Procs |-> Nobody]
  /\ tmp = [t \in Threads |-> NoFile]
  /\ file = [n \in FileNames |-> NoFile]
  /\ onDisk = [n \in FileNames |-> {NoFile}]
  /\ issued = <<>>
  /\ faults = 0
  /\ overlapped = FALSE

Fault ==
  /\ faults < MaxFaults
  /\ faults' = faults + 1

At(t, from, to) ==
  /\ pc[t] = from
  /\ pc' = [pc EXCEPT ![t] = to]

(* The identity provider issues a token to an account.                     *)
Issue(username) ==
  /\ Len(issued) < MaxTokens
  /\ issued' = Append(issued, username)

(* Thread t is the one that runs TokenSource, before the sessions.         *)
Starting(t) == inner[Owner[t]] = 0

-------------------------------------------------------------------------------
(***************************************************************************)
(* TokenSource: startup.                                                   *)
(***************************************************************************)

(* The process starts.                                                     *)
Start(p) ==
  /\ \A t \in Threads : Owner[t] = p => pc[t] = "off"
  /\ pc' = [pc EXCEPT ![Main[p]] = "load"]
  /\ overlapped' = 
       (overlapped \/ \E t \in Threads : pc[t] # "off" /\ Path(Owner[t]) = Path(p))
  /\ UNCHANGED <<user, tok, inner, mu, tmp, diskVars, issued, faults>>

(* loadToken: a token, no file, or one that does not decode, which ends    *)
(* the process.                                                            *)
Load(t) ==
  LET p == Owner[t]
      cached == file[Path(p)]
  IN
  /\ pc[t] = "load"
  /\ IF cached = NoFile
       THEN /\ pc' = [pc EXCEPT ![t] = "login"]
            /\ UNCHANGED inner
     ELSE IF cached = Torn
       THEN /\ pc' = [pc EXCEPT ![t] = "exited"]
            /\ UNCHANGED inner
       ELSE /\ pc' = [u \in Threads |-> IF Owner[u] = p THEN "idle" ELSE pc[u]]
            /\ inner' = [inner EXCEPT ![p] = cached.token]
  /\ UNCHANGED <<user, tok, mu, tmp, diskVars, issued, faults, overlapped>>

(* The file is there or not, and cannot be read: no reason to ask for a    *)
(* device code, so this ends the process as well.                          *)
LoadFails(t) ==
  /\ Fault
  /\ At(t, "load", "exited")
  /\ UNCHANGED <<user, tok, inner, mu, tmp, diskVars, issued, overlapped>>

(* requestLiveToken: somebody enters the device code for the account, and  *)
(* the token is saved before it is used.                                   *)
Login(t) ==
  /\ At(t, "login", "create")
  /\ Issue(user[Owner[t]])
  /\ tok' = [tok EXCEPT ![t] = Len(issued')]
  /\ UNCHANGED <<user, inner, mu, tmp, diskVars, faults, overlapped>>

(* Nobody has entered the code yet.                                        *)
LoginWaits(t) ==
  /\ pc[t] = "login"
  /\ UNCHANGED vars

(* The code expires, or the process context ends.                          *)
LoginFails(t) ==
  /\ Fault
  /\ At(t, "login", "exited")
  /\ UNCHANGED <<user, tok, inner, mu, tmp, diskVars, issued, overlapped>>

-------------------------------------------------------------------------------
(***************************************************************************)
(* Token: called for every dial, and by gophertunnel's refresh goroutine.  *)
(***************************************************************************)

Call(t) ==
  /\ At(t, "idle", "lock")
  /\ UNCHANGED <<user, tok, inner, mu, tmp, diskVars, issued, faults, overlapped>>

(* FAULT: the mutex is not taken.                                          *)
LockForgotten(t) ==
  /\ At(t, "lock", "ask")
  /\ UNCHANGED <<user, tok, inner, mu, tmp, diskVars, issued, faults, overlapped>>

Lock(t) ==
  /\ mu[Owner[t]] = Nobody
  /\ At(t, "lock", "ask")
  /\ mu' = [mu EXCEPT ![Owner[t]] = t]
  /\ UNCHANGED <<user, tok, inner, tmp, diskVars, issued, faults, overlapped>>

(* inner.Token: the token held if it is still valid, or a refreshed one,   *)
(* which is for the account the token held is for.                         *)
Ask(t) ==
  LET p == Owner[t] IN
  /\ At(t, "ask", "create")
  /\ \/ UNCHANGED <<inner, issued>>
     \/ /\ Issue(issued[inner[p]])
        /\ inner' = [inner EXCEPT ![p] = Len(issued')]
  /\ tok' = [tok EXCEPT ![t] = inner'[p]]
  /\ UNCHANGED <<user, mu, tmp, diskVars, faults, overlapped>>

(* FAULT: the mutex is not given back on the way out.                      *)
AskFailsLocked(t) ==
  /\ Fault
  /\ At(t, "ask", "idle")
  /\ UNCHANGED <<user, tok, inner, mu, tmp, diskVars, issued, overlapped>>

(* A refresh fails; Token returns the error to the dial.                   *)
AskFails(t) ==
  /\ Fault
  /\ At(t, "ask", "unlock")
  /\ UNCHANGED <<user, tok, inner, mu, tmp, diskVars, issued, overlapped>>

(* The deferred unlock.                                                    *)
Unlock(t) ==
  /\ At(t, "unlock", "idle")
  /\ tok' = [tok EXCEPT ![t] = 0]
  /\ mu' = [mu EXCEPT ![Owner[t]] = Nobody]
  /\ UNCHANGED <<user, inner, tmp, diskVars, issued, faults, overlapped>>

-------------------------------------------------------------------------------
(***************************************************************************)
(* saveToken.                                                              *)
(***************************************************************************)

(* os.CreateTemp: a new file of the thread's own.                          *)
Create(t) ==
  /\ At(t, "create", "write")
  /\ tmp' = [tmp EXCEPT ![t] = Torn]
  /\ UNCHANGED <<user, tok, inner, mu, diskVars, issued, faults, overlapped>>

(* Chmod and Write.                                                        *)
Write(t) ==
  /\ At(t, "write", "sync")
  /\ tmp' = [tmp EXCEPT ![t] = [token |-> tok[t], synced |-> FALSE]]
  /\ UNCHANGED <<user, tok, inner, mu, diskVars, issued, faults, overlapped>>

(* FAULT: the file is closed without being flushed.                        *)
SyncForgotten(t) ==
  /\ At(t, "sync", "rename")
  /\ UNCHANGED <<user, tok, inner, mu, tmp, diskVars, issued, faults, overlapped>>

(* Sync and Close.                                                         *)
Sync(t) ==
  /\ At(t, "sync", "rename")
  /\ tmp' = [tmp EXCEPT ![t].synced = TRUE]
  /\ UNCHANGED <<user, tok, inner, mu, diskVars, issued, faults, overlapped>>

(* After a save: Token goes on to unlock; TokenSource, whose save must     *)
(* succeed, starts the sessions or ends the process.                       *)
AfterSave(t, saved) ==
  LET p == Owner[t] IN
  IF ~Starting(t)
  THEN /\ pc' = [pc EXCEPT ![t] = "unlock"]
       /\ UNCHANGED <<tok, inner>>
  ELSE /\ tok' = [tok EXCEPT ![t] = 0]
       /\ IF saved
          THEN /\ pc' = [u \in Threads |-> IF Owner[u] = p THEN "idle" ELSE pc[u]]
               /\ inner' = [inner EXCEPT ![p] = tok[t]]
          ELSE /\ pc' = [pc EXCEPT ![t] = "exited"]
               /\ UNCHANGED inner

(* os.Rename puts the temporary file in the place of the cache file.       *)
Rename(t) ==
  /\ pc[t] = "rename"
  /\ file' = [file EXCEPT ![Path(Owner[t])] = tmp[t]]
  /\ onDisk' = [onDisk EXCEPT ![Path(Owner[t])] = @ \cup {tmp[t]}]
  /\ tmp' = [tmp EXCEPT ![t] = NoFile]
  /\ AfterSave(t, TRUE)
  /\ UNCHANGED <<user, mu, issued, faults, overlapped>>

(* Any step of saveToken fails; the deferred calls remove the file.        *)
SaveFails(t) ==
  /\ pc[t] \in Saving
  /\ Fault
  /\ tmp' = [tmp EXCEPT ![t] = NoFile]
  /\ AfterSave(t, FALSE)
  /\ UNCHANGED <<user, mu, diskVars, issued, overlapped>>

-------------------------------------------------------------------------------
(***************************************************************************)
(* Around the processes.                                                   *)
(***************************************************************************)

(* The threads of the processes ps are gone, and what they held in memory. *)
(* A temporary file one of them leaves behind is never looked at again.    *)
Die(ps) ==
  LET gone == {t \in Threads : Owner[t] \in ps} IN
  /\ pc' = [t \in Threads |-> IF t \in gone THEN "off" ELSE pc[t]]
  /\ tok' = [t \in Threads |-> IF t \in gone THEN 0 ELSE tok[t]]
  /\ inner' = [p \in Procs |-> IF p \in ps THEN 0 ELSE inner[p]]
  /\ mu' = [p \in Procs |-> IF p \in ps THEN Nobody ELSE mu[p]]
  /\ tmp' = [t \in Threads |-> IF t \in gone THEN NoFile ELSE tmp[t]]
  /\ UNCHANGED overlapped

(* The process is killed, or its pod is.                                   *)
Kill(p) ==
  /\ Fault
  /\ \E t \in Threads : Owner[t] = p /\ pc[t] \notin {"off", "exited"}
  /\ Die({p})
  /\ UNCHANGED <<user, diskVars, issued>>

(* auth_failed: the process has exited, and Kubernetes starts another.     *)
Exit(p) ==
  /\ \E t \in Threads : Owner[t] = p /\ pc[t] = "exited"
  /\ Die({p})
  /\ UNCHANGED <<user, diskVars, issued, faults>>

(* The file system writes its directory out.                               *)
Flush ==
  /\ onDisk' = [n \in FileNames |-> {file[n]}]
  /\ onDisk' # onDisk
  /\ UNCHANGED <<user, threadVars, inner, mu, tmp, file, issued, faults, overlapped>>

(* What file n may be after a power cut.                                   *)
Survivors(n) ==
  {IF f \in {NoFile, Torn} \/ f.synced THEN f ELSE Torn : f \in onDisk[n]}

(* The machine stops.  A rename not written out may be lost, bytes not     *)
(* synced are.                                                             *)
PowerCut ==
  /\ Fault
  /\ file' \in {f \in [FileNames -> UNION {Survivors(n) : n \in FileNames}] :
                   \A n \in FileNames : f[n] \in Survivors(n)}
  /\ onDisk' = [n \in FileNames |-> {file'[n]}]
  /\ Die(Procs)
  /\ UNCHANGED <<user, issued>>

-------------------------------------------------------------------------------
(* The steps a thread inside TokenSource or Token takes on its own.        *)
ThreadStep(t) ==
  \/ Load(t) \/ LoadFails(t) \/ Ask(t) \/ AskFails(t) \/ Unlock(t)
  \/ Create(t) \/ Write(t) \/ Sync(t) \/ Rename(t) \/ SaveFails(t)

Next ==
  \/ \E t \in Threads :
       ThreadStep(t) \/ Login(t) \/ LoginWaits(t) \/ LoginFails(t) \/ Call(t) \/ Lock(t)
  \/ \E p \in Procs : Start(p) \/ Kill(p) \/ Exit(p)
  \/ Flush
  \/ PowerCut

Spec == Init /\ [][Next]_vars

(* A thread runs, its calls end, and a sync.Mutex does not starve a        *)
(* waiter.  Nothing says that Token is ever called or a code entered.      *)
Fairness ==
  /\ \A t \in Threads : WF_vars(ThreadStep(t)) /\ SF_vars(Lock(t))

FairSpec == Spec /\ Fairness

-------------------------------------------------------------------------------
(***************************************************************************)
(* Safety.                                                                 *)
(***************************************************************************)

(* saveToken is atomic: whoever reads the cache file, in whatever process  *)
(* and after whatever crash, finds no file or a whole token.               *)
NeverTorn == \A n \in FileNames : file[n] # Torn

(* Accounts that share a cache directory do not clobber each other's       *)
(* tokens (the comment on TokenSource): a process has the token of another *)
(* account only if both the slugs and the four bytes of hash of the two    *)
(* user names are the same.                                                *)
OwnAccount ==
  \A p \in Procs : inner[p] # 0 =>
    LET account == issued[inner[p]]
    IN  Slug(account) = Slug(user[p]) /\ Sum[account] = Sum[user[p]]

(* A token is not lost to an older one: as long as no two processes use    *)
(* the cache file at the same time, no save replaces a token by one issued *)
(* before it, however the calls of Token overlap and wherever earlier      *)
(* processes died.                                                         *)
CacheNeverRegresses ==
  [][\A t \in Threads :
       LET cached == file[Path(Owner[t])]
       IN  ~overlapped /\ Rename(t) /\ cached \in Contents =>
             cached.token <= tmp[t].token]_vars

(* The process never uses a token it has not tried to save: alone with the *)
(* cache file, the mutex free and nothing failed yet, the cache file holds    *)
(* the token in memory.                                                    *)
CacheCurrent ==
  \A p \in Procs :
    ~overlapped /\ faults = 0 /\ inner[p] # 0 /\ mu[p] = Nobody =>
      file[Path(p)].token >= inner[p]

-------------------------------------------------------------------------------
(* Liveness, under FairSpec: a call of Token returns, unless the process   *)
(* dies first, though the other caller may be stuck in a failing refresh.  *)
TokenReturns ==
  \A t \in Threads : pc[t] = "lock" ~> pc[t] \in {"idle", "off"}

===============================================================================
