--------------------------- MODULE TokenCacheProofs ----------------------------
(***************************************************************************)
(* Proofs about module TokenCache, for any number of processes, threads,   *)
(* accounts, tokens and faults and any hash function: that a save is       *)
(* atomic, that an account gets the token of another only when slug and    *)
(* hash of their names collide, that no save goes back to an older token,  *)
(* and that the cache file keeps up with the memory.  That a call of Token *)
(* returns is TLC's.                                                       *)
(***************************************************************************)
EXTENDS TokenCache, SequenceTheorems, TLAPS

(* Where a thread may be.                                                  *)
PCs == {"off", "load", "login", "idle", "lock", "ask", "create", "write", "sync",
        "rename", "unlock", "exited"}

(* The user names of the accounts there may be.                            *)
Names == {crew[p] : crew \in Crews, p \in Procs}

(* A cache file is missing or whole, and every byte of it is on the disk.  *)
Whole == {NoFile} \cup {c \in Contents : c.synced}

(* The values the variables may have.                                      *)
CacheType ==
  /\ user \in Crews
  /\ pc \in [Threads -> PCs]
  /\ tok \in [Threads -> 0..MaxTokens]
  /\ inner \in [Procs -> 0..MaxTokens]
  /\ mu \in [Procs -> Threads \cup {Nobody}]
  /\ tmp \in [Threads -> Contents \cup {NoFile, Torn}]
  /\ file \in [FileNames -> Whole]
  /\ onDisk \in [FileNames -> SUBSET Whole]
  /\ issued \in Seq(Names)
  /\ Len(issued) <= MaxTokens
  /\ faults \in Nat
  /\ overlapped \in BOOLEAN

(* What a thread relies on at each of its steps: the sessions have a token *)
(* to begin with, and what is saved is a token whose bytes are written out *)
(* before the file gets its name.                                          *)
SaveInv ==
  /\ CacheType
  /\ \A t \in Threads :
       /\ pc[t] \in {"idle", "lock", "ask", "unlock"} => inner[Owner[t]] # 0
       /\ pc[t] \in Saving => tok[t] # 0
       /\ pc[t] \in {"sync", "rename"} => tmp[t] \in Contents /\ tmp[t].token = tok[t]
       /\ pc[t] = "rename" => tmp[t].synced

(* Token k has been issued, to an account whose cache file is n.           *)
Of(ledger, k, n) == k \in 1..Len(ledger) /\ tokenFileName(ledger[k]) = n

(* A thread and a process have tokens that belong in their own cache file, *)
(* and so has every file that is there or may come back.                   *)
OwnerInv ==
  /\ \A t \in Threads : tok[t] # 0 => Of(issued, tok[t], Path(Owner[t]))
  /\ \A p \in Procs : inner[p] # 0 => Of(issued, inner[p], Path(p))
  /\ \A n \in FileNames : \A c \in onDisk[n] \cup {file[n]} :
       c # NoFile => Of(issued, c.token, n)

(* A process has a cache file, named after its account.                    *)
LEMMA PathIsName == ASSUME CacheType, NEW p \in Procs
                    PROVE  Path(p) \in FileNames /\ user[p] \in Names
BY CacheAssumption DEF CacheType, Path, FileNames, Names

(* What the identity provider adds to what it has issued.                  *)
LEMMA Issued ==
  ASSUME CacheType, NEW u \in Names, Issue(u)
  PROVE  /\ issued' \in Seq(Names)
         /\ Len(issued) \in Nat
         /\ Len(issued') = Len(issued) + 1
         /\ Len(issued') \in 1..MaxTokens
         /\ \A i \in 1..Len(issued) : issued'[i] = issued[i]
         /\ issued'[Len(issued')] = u
BY AppendProperties, LenProperties, CacheAssumption DEF Issue, CacheType

(* A login issues a token to the account of the process, and a refresh to  *)
(* that of the token it has, which need not be the same account.           *)
LEMMA IssuedTo ==
  ASSUME CacheType, OwnerInv, NEW p \in Procs
  PROVE  /\ user[p] \in Names
         /\ inner[p] # 0 => issued[inner[p]] \in Names
                          /\ tokenFileName(issued[inner[p]]) = Path(p)
<1>1. user[p] \in Names
  BY PathIsName
<1>2. ASSUME inner[p] # 0 PROVE inner[p] \in 1..Len(issued) /\ issued \in Seq(Names)
  BY <1>2 DEF OwnerInv, Of, CacheType
<1>3. ASSUME inner[p] # 0 PROVE issued[inner[p]] \in Names
  BY <1>2, <1>3, ElementOfSeq
<1>4. ASSUME inner[p] # 0 PROVE tokenFileName(issued[inner[p]]) = Path(p)
  BY <1>4 DEF OwnerInv, Of
<1> QED
  BY <1>1, <1>3, <1>4

(* There is nothing to be torn at the start.                               *)
LEMMA InitSave == Init => SaveInv
<1>1. <<>> \in Seq(Names) /\ Len(<<>>) = 0
  OBVIOUS
<1>2. ASSUME Init PROVE CacheType
  <2>1. NoFile \in Whole
    BY DEF Whole
  <2>2. /\ pc \in [Threads -> PCs] /\ tok \in [Threads -> 0..MaxTokens]
        /\ inner \in [Procs -> 0..MaxTokens]
    BY <1>2, CacheAssumption DEF Init, PCs
  <2>3. /\ mu \in [Procs -> Threads \cup {Nobody}]
        /\ tmp \in [Threads -> Contents \cup {NoFile, Torn}]
    BY <1>2 DEF Init
  <2>4. file \in [FileNames -> Whole] /\ onDisk \in [FileNames -> SUBSET Whole]
    BY <1>2, <2>1 DEF Init
  <2>5. user \in Crews /\ faults \in Nat /\ issued = <<>>
    BY <1>2 DEF Init
  <2>6. overlapped \in BOOLEAN
    BY <1>2 DEF Init
  <2>7. issued \in Seq(Names) /\ Len(issued) <= MaxTokens
    BY <1>1, <2>5, CacheAssumption
  <2> QED
    BY <2>2, <2>3, <2>4, <2>5, <2>6, <2>7 DEF CacheType
<1>3. ASSUME Init, NEW t \in Threads PROVE pc[t] = "off"
  BY <1>3 DEF Init
<1> QED
  BY <1>2, <1>3 DEF SaveInv, Saving

(* Each step writes before it syncs and syncs before it renames.           *)
LEMMA NextSave == SaveInv /\ OwnerInv /\ [Next]_vars => SaveInv'
<1> SUFFICES ASSUME SaveInv, OwnerInv, [Next]_vars PROVE SaveInv'
  OBVIOUS
<1> USE CacheAssumption, FileAssumption DEF SaveInv, CacheType, PCs, Saving, threadVars, diskVars
<1>1. ASSUME NEW p \in Procs, Start(p) PROVE SaveInv'
  BY <1>1 DEF Start
<1>2. ASSUME NEW t \in Threads, Load(t) PROVE SaveInv'
  <2>1. file[Path(Owner[t])] \in Whole
    BY PathIsName
  <2>2. file[Path(Owner[t])] # Torn
    BY <2>1 DEF Whole
  <2>3. CASE file[Path(Owner[t])] = NoFile
    <3>1. /\ pc' = [pc EXCEPT ![t] = "login"]
          /\ UNCHANGED <<user, tok, inner, mu, tmp, diskVars, issued, faults, overlapped>>
      BY <1>2, <2>3 DEF Load
    <3> QED
      BY <3>1
  <2>4. CASE file[Path(Owner[t])] # NoFile
    <3>1. file[Path(Owner[t])].token \in 0..MaxTokens \ {0}
      BY <2>1, <2>4 DEF Whole, Contents, Tokens
    <3>2. /\ pc' = [u \in Threads |-> IF Owner[u] = Owner[t] THEN "idle" ELSE pc[u]]
          /\ inner' = [inner EXCEPT ![Owner[t]] = file[Path(Owner[t])].token]
          /\ UNCHANGED <<user, tok, mu, tmp, diskVars, issued, faults, overlapped>>
      BY <1>2, <2>2, <2>4 DEF Load
    <3>3. inner' \in [Procs -> 0..MaxTokens] /\ pc' \in [Threads -> PCs]
      BY <3>1, <3>2
    <3> QED
      BY <3>1, <3>2, <3>3
  <2> QED
    BY <2>3, <2>4
<1>3. ASSUME NEW t \in Threads, Login(t) PROVE SaveInv'
  <2>1. /\ issued' \in Seq(Names)
        /\ Len(issued') \in 1..MaxTokens
    BY <1>3, Issued, IssuedTo DEF Login
  <2> QED
    BY <1>3, <2>1 DEF Login, At
<1>4. ASSUME NEW t \in Threads,
             LoadFails(t) \/ LoginFails(t) \/ Call(t) \/ Lock(t) \/ AskFails(t) \/ Unlock(t)
      PROVE  SaveInv'
  <2>0. CASE LoadFails(t)
    BY <2>0 DEF LoadFails, At, Fault
  <2>1. CASE LoginFails(t)
    BY <2>1 DEF LoginFails, At, Fault
  <2>2. CASE Call(t)
    BY <2>2 DEF Call, At
  <2>3. CASE Lock(t)
    BY <2>3 DEF Lock, At
  <2>4. CASE AskFails(t)
    BY <2>4 DEF AskFails, At, Fault
  <2>5. CASE Unlock(t)
    BY <2>5 DEF Unlock, At
  <2> QED
    BY <1>4, <2>0, <2>1, <2>2, <2>3, <2>4, <2>5
<1>5. ASSUME NEW t \in Threads, Ask(t) PROVE SaveInv'
  <2>1. /\ inner' \in [Procs -> 0..MaxTokens]
        /\ issued' \in Seq(Names)
        /\ Len(issued') <= MaxTokens
        /\ \A p \in Procs : inner[p] # 0 => inner'[p] # 0
    <3>1. CASE UNCHANGED <<inner, issued>>
      BY <3>1
    <3>2. CASE /\ Issue(issued[inner[Owner[t]]])
               /\ inner' = [inner EXCEPT ![Owner[t]] = Len(issued')]
      <4>0. issued[inner[Owner[t]]] \in Names
        BY <1>5, IssuedTo DEF Ask, At
      <4>1. issued' \in Seq(Names) /\ Len(issued') \in 1..MaxTokens
        BY <3>2, <4>0, Issued
      <4> QED
        BY <3>2, <4>1
    <3> QED
      BY <1>5, <3>1, <3>2 DEF Ask
  <2> QED
    BY <1>5, <2>1 DEF Ask, At
<1>6. ASSUME NEW t \in Threads, Create(t) PROVE SaveInv'
  BY <1>6 DEF Create, At
<1>7. ASSUME NEW t \in Threads, Write(t) PROVE SaveInv'
  BY <1>7 DEF Write, At, Contents, Tokens
<1>8. ASSUME NEW t \in Threads, Sync(t) PROVE SaveInv'
  BY <1>8 DEF Sync, At, Contents
<1>9. ASSUME NEW t \in Threads, NEW saved \in BOOLEAN, tok[t] # 0, AfterSave(t, saved)
       PROVE  /\ pc' \in [Threads -> PCs]
              /\ tok' \in [Threads -> 0..MaxTokens]
              /\ inner' \in [Procs -> 0..MaxTokens]
              /\ pc'[t] \notin Saving
              /\ \A u \in Threads : \/ pc'[u] = pc[u] /\ tok'[u] = tok[u]
                                    \/ pc'[u] \notin Saving
              /\ \A u \in Threads : pc'[u] \in {"idle", "lock", "ask", "unlock"} => 
                                     inner'[Owner[u]] # 0
  <2>1. CASE ~Starting(t)
    <3>1. pc' = [pc EXCEPT ![t] = "unlock"] /\ UNCHANGED <<tok, inner>>
      BY <1>9, <2>1 DEF AfterSave
    <3>2. inner[Owner[t]] # 0
      BY <2>1 DEF Starting
    <3> QED
      BY <3>1, <3>2
  <2>2. CASE Starting(t) /\ saved
    <3>1. /\ tok' = [tok EXCEPT ![t] = 0]
          /\ pc' = [u \in Threads |-> IF Owner[u] = Owner[t] THEN "idle" ELSE pc[u]]
          /\ inner' = [inner EXCEPT ![Owner[t]] = tok[t]]
      BY <1>9, <2>2 DEF AfterSave
    <3>2. /\ inner' \in [Procs -> 0..MaxTokens]
          /\ \A p \in Procs : inner[p] # 0 => inner'[p] # 0
          /\ inner'[Owner[t]] # 0
      BY <1>9, <3>1
    <3> QED
      BY <1>9, <3>1, <3>2
  <2>3. CASE Starting(t) /\ ~saved
    <3>1. /\ tok' = [tok EXCEPT ![t] = 0]
          /\ pc' = [pc EXCEPT ![t] = "exited"]
          /\ UNCHANGED inner
      BY <1>9, <2>3 DEF AfterSave
    <3> QED
      BY <1>9, <3>1
  <2> QED
    BY <2>1, <2>2, <2>3
<1>10. ASSUME NEW t \in Threads, Rename(t) PROVE SaveInv'
  <2>1. tmp[t] \in Whole /\ tok[t] # 0 /\ Path(Owner[t]) \in FileNames
    BY <1>10, PathIsName DEF Rename, Whole
  <2>2. /\ file' \in [FileNames -> Whole]
        /\ onDisk' \in [FileNames -> SUBSET Whole]
        /\ tmp' = [tmp EXCEPT ![t] = NoFile]
        /\ UNCHANGED <<user, mu, issued, faults, overlapped>>
        /\ AfterSave(t, TRUE)
    BY <1>10, <2>1 DEF Rename
  <2> QED
    BY <2>1, <2>2, <1>9
<1>11. ASSUME NEW t \in Threads, SaveFails(t) PROVE SaveInv'
  <2>1. /\ tmp' = [tmp EXCEPT ![t] = NoFile]
        /\ UNCHANGED <<user, mu, diskVars, issued, overlapped>>
    BY <1>11 DEF SaveFails
  <2>2. faults' \in Nat
    BY <1>11 DEF SaveFails, Fault
  <2>3. tmp' \in [Threads -> Contents \cup {NoFile, Torn}]
    BY <2>1
  <2>4. AfterSave(t, FALSE)
    BY <1>11 DEF SaveFails
  <2>5. tok[t] # 0
    BY <1>11 DEF SaveFails
  <2>6. /\ pc' \in [Threads -> PCs]
        /\ tok' \in [Threads -> 0..MaxTokens]
        /\ inner' \in [Procs -> 0..MaxTokens]
        /\ pc'[t] \notin Saving
        /\ \A u \in Threads : \/ pc'[u] = pc[u] /\ tok'[u] = tok[u]
                              \/ pc'[u] \notin Saving
        /\ \A u \in Threads : pc'[u] \in {"idle", "lock", "ask", "unlock"} =>
                               inner'[Owner[u]] # 0
    BY <2>5, <2>4, <1>9
  <2> QED
    BY <2>1, <2>6, <2>2, <2>3
<1>12. ASSUME NEW ps \in SUBSET Procs, Die(ps)
       PROVE  /\ pc' \in [Threads -> PCs]
              /\ tok' \in [Threads -> 0..MaxTokens]
              /\ inner' \in [Procs -> 0..MaxTokens]
              /\ mu' \in [Procs -> Threads \cup {Nobody}]
              /\ tmp' \in [Threads -> Contents \cup {NoFile, Torn}]
              /\ \A t \in Threads : \/ pc'[t] = "off" /\ Owner[t] \in ps
                                    \/ /\ pc'[t] = pc[t] /\ tok'[t] = tok[t]
                                       /\ tmp'[t] = tmp[t]
                                       /\ inner'[Owner[t]] = inner[Owner[t]]
  BY <1>12 DEF Die
<1>13. ASSUME CacheType',
              \A t \in Threads : \/ pc'[t] = "off"
                                \/ /\ pc'[t] = pc[t] /\ tok'[t] = tok[t] /\ tmp'[t] = tmp[t]
                                   /\ inner'[Owner[t]] = inner[Owner[t]]
       PROVE  SaveInv'
  <2>1. ASSUME NEW t \in Threads
        PROVE  /\ pc'[t] \in {"idle", "lock", "ask", "unlock"} => inner'[Owner[t]] # 0
               /\ pc'[t] \in Saving => tok'[t] # 0
               /\ pc'[t] \in {"sync", "rename"} => tmp'[t] \in Contents /\ tmp'[t].token = tok'[t]
               /\ pc'[t] = "rename" => tmp'[t].synced
    <3>1. CASE pc'[t] = "off"
      BY <3>1
    <3>2. CASE pc'[t] # "off"
      BY <1>13, <3>2
    <3> QED
      BY <3>1, <3>2
  <2> QED
    BY <1>13, <2>1
<1>14. ASSUME NEW p \in Procs, Kill(p) \/ Exit(p) PROVE SaveInv'
  <2>1. Die({p}) /\ UNCHANGED <<user, diskVars, issued, overlapped>> /\ faults' \in Nat
    BY <1>14 DEF Kill, Exit, Fault, Die
  <2>2. CacheType'
    BY <2>1, <1>12
  <2>3. ASSUME NEW t \in Threads
        PROVE  \/ pc'[t] = "off"
               \/ /\ pc'[t] = pc[t] /\ tok'[t] = tok[t] /\ tmp'[t] = tmp[t]
                  /\ inner'[Owner[t]] = inner[Owner[t]]
    <3>1. CASE Owner[t] = p
      BY <2>1, <3>1 DEF Die
    <3>2. CASE Owner[t] # p
      BY <2>1, <3>2 DEF Die
    <3> QED
      BY <3>1, <3>2
  <2> QED
    BY <2>2, <2>3, <1>13
<1>15. CASE Flush
  BY <1>15 DEF Flush
<1>16. CASE PowerCut
  <2>1. /\ Die(Procs) /\ UNCHANGED <<user, issued, overlapped>> /\ faults' \in Nat
        /\ onDisk' = [n \in FileNames |-> {file'[n]}]
    BY <1>16 DEF PowerCut, Die, Fault
  <2>2. file' \in [FileNames -> Whole]
    BY <1>16 DEF PowerCut, Survivors, Whole, Contents
  <2>3. CacheType'
    BY <2>1, <2>2, <1>12
  <2>4. \A t \in Threads : pc'[t] = "off" \/ (pc'[t] = pc[t] /\ tok'[t] = tok[t] /\ tmp'[t] = tmp[t]
                                       /\ inner'[Owner[t]] = inner[Owner[t]])
    BY <2>1, <1>12
  <2> QED
    BY <2>3, <2>4, <1>13
<1>17. CASE UNCHANGED vars
  BY <1>17 DEF vars
<1> QED
  BY <1>1, <1>2, <1>3, <1>4, <1>5, <1>6, <1>7, <1>8, <1>10, <1>11, <1>14, <1>15, <1>16, <1>17
     DEF Next, ThreadStep, LoginWaits

-------------------------------------------------------------------------------
(***************************************************************************)
(* Whose token it is.                                                      *)
(***************************************************************************)

(* Nobody changes its account.                                             *)
LEMMA UserStays == [Next]_vars => UNCHANGED user /\ \A p \in Procs : Path(p)' = Path(p)
<1>1. [Next]_vars => UNCHANGED user
  BY DEF Next, vars, threadVars, ThreadStep, Start, Load, LoadFails, Login, LoginWaits,
     LoginFails, Call, Lock, Ask, AskFails, Unlock, Create, Write, Sync, Rename, SaveFails,
     Kill, Exit, Flush, PowerCut
<1> QED
  BY <1>1 DEF Path

(* A token stays with the file of the account it has been issued to.       *)
LEMMA BelongsForever ==
  ASSUME SaveInv, OwnerInv, [Next]_vars, NEW k, NEW n, Of(issued, k, n)
  PROVE  Of(issued', k, n)
<1>1. \/ UNCHANGED issued
      \/ \E t \in Threads : Login(t) \/ Ask(t)
  BY DEF Next, vars, threadVars, ThreadStep, Start, Load, LoadFails, LoginWaits, LoginFails,
     Call, Lock, AskFails, Unlock, Create, Write, Sync, Rename, SaveFails, Kill, Exit, Flush,
     PowerCut
<1>2. CASE UNCHANGED issued
  BY <1>2
<1>3. ASSUME NEW u \in Names, Issue(u) PROVE Of(issued', k, n)
  BY <1>3, Issued DEF SaveInv, Of
<1>4. ASSUME NEW t \in Threads, Login(t) \/ Ask(t) 
      PROVE  UNCHANGED issued \/ \E u \in Names : Issue(u)
  <2>1. Owner[t] \in Procs /\ CacheType
    BY CacheAssumption DEF SaveInv
  <2>2. CASE Login(t)
    BY <2>1, <2>2, IssuedTo DEF Login
  <2>3. CASE Ask(t)
    <3>1. inner[Owner[t]] # 0
      BY <2>3 DEF Ask, At, SaveInv
    <3> QED
      BY <2>1, <2>3, <3>1, IssuedTo DEF Ask
  <2> QED
    BY <1>4, <2>2, <2>3
<1> QED
  BY <1>1, <1>2, <1>3, <1>4

(* A step that gives a thread, a process and a file nothing but what they  *)
(* had, what is theirs, or nothing, keeps the tokens with their accounts.  *)
LEMMA Handed ==
  ASSUME SaveInv, SaveInv', OwnerInv, [Next]_vars,
         \A t \in Threads : tok'[t] \in {0, tok[t]} \/ Of(issued', tok'[t], Path(Owner[t])),
         \A p \in Procs : inner'[p] \in {0, inner[p]} \/ Of(issued', inner'[p], Path(p)),
         \A n \in FileNames : \A c \in onDisk'[n] \cup {file'[n]} :
           c \in onDisk[n] \cup {file[n], NoFile} \/ Of(issued, c.token, n)
  PROVE  OwnerInv'
<1>0. UNCHANGED user /\ \A p \in Procs : Path(p)' = Path(p)
  BY UserStays
<1>1. ASSUME NEW t \in Threads, tok'[t] # 0 PROVE Of(issued', tok'[t], Path(Owner[t]))
  BY <1>0, <1>1, BelongsForever DEF OwnerInv
<1>2. ASSUME NEW p \in Procs, inner'[p] # 0 PROVE Of(issued', inner'[p], Path(p))
  BY <1>0, <1>2, BelongsForever DEF OwnerInv
<1>3. ASSUME NEW n \in FileNames, NEW c \in onDisk'[n] \cup {file'[n]}, c # NoFile
      PROVE  Of(issued', c.token, n)
  BY <1>3, BelongsForever DEF OwnerInv
<1> QED
  BY <1>0, <1>1, <1>2, <1>3, CacheAssumption DEF OwnerInv

(* Nobody has a token at the start.                                        *)
LEMMA InitOwner == Init => OwnerInv
BY CacheAssumption DEF Init, OwnerInv

(* Each step keeps the tokens with their accounts.                         *)
LEMMA NextOwner == SaveInv /\ SaveInv' /\ OwnerInv /\ [Next]_vars => OwnerInv'
<1> SUFFICES ASSUME SaveInv, SaveInv', OwnerInv, [Next]_vars PROVE OwnerInv'
  OBVIOUS
<1> USE CacheAssumption
<1>0. CacheType
  BY DEF SaveInv
<1>1. ASSUME UNCHANGED <<tok, inner, diskVars>> PROVE OwnerInv'
  BY <1>1, Handed DEF diskVars
<1>2. ASSUME NEW p \in Procs, Start(p) PROVE OwnerInv'
  BY <1>1, <1>2 DEF Start
<1>3. ASSUME NEW t \in Threads, Load(t) PROVE OwnerInv'
  <2>1. Path(Owner[t]) \in FileNames
    BY <1>0, PathIsName
  <2>2. CASE UNCHANGED inner
    BY <1>1, <1>3, <2>2 DEF Load
  <2>3. CASE /\ file[Path(Owner[t])] # NoFile
            /\ inner' = [inner EXCEPT ![Owner[t]] = file[Path(Owner[t])].token]
    <3>1. Of(issued, file[Path(Owner[t])].token, Path(Owner[t]))
      BY <2>1, <2>3 DEF OwnerInv
    <3>2. Of(issued', inner'[Owner[t]], Path(Owner[t]))
      BY <3>1, <2>3, BelongsForever, <1>0 DEF CacheType
    <3>3. \A p \in Procs : inner'[p] = inner[p] \/ p = Owner[t]
      BY <2>3, <1>0 DEF CacheType
    <3>4. UNCHANGED <<tok, diskVars>>
      BY <1>3 DEF Load
    <3> QED
      BY <3>2, <3>3, <3>4, Handed DEF diskVars
  <2> QED
    BY <1>3, <2>2, <2>3 DEF Load
<1>4. ASSUME NEW u \in Names, Issue(u) PROVE Of(issued', Len(issued'), tokenFileName(u))
  BY <1>0, <1>4, Issued DEF Of
<1>5. ASSUME NEW t \in Threads, Login(t) PROVE OwnerInv'
  <2>1. Of(issued', Len(issued'), Path(Owner[t]))
    BY <1>0, <1>4, <1>5, IssuedTo DEF Login, Path
  <2>2. \A u \in Threads : tok'[u] = tok[u] \/ (u = t /\ tok'[u] = Len(issued'))
    BY <1>0, <1>5 DEF Login, CacheType
  <2>3. UNCHANGED <<inner, diskVars>>
    BY <1>5 DEF Login
  <2> QED
    BY <2>1, <2>2, <2>3, Handed DEF diskVars
<1>6. ASSUME NEW t \in Threads, Ask(t) PROVE OwnerInv'
  <2>1. \A p \in Procs : inner'[p] = inner[p] \/ Of(issued', inner'[p], Path(p))
    <3>1. CASE UNCHANGED inner
      BY <3>1
    <3>2. CASE /\ Issue(issued[inner[Owner[t]]])
               /\ inner' = [inner EXCEPT ![Owner[t]] = Len(issued')]
      <4>0. inner[Owner[t]] # 0
        BY <1>6 DEF Ask, At, SaveInv
      <4>1. Of(issued', Len(issued'), Path(Owner[t]))
        BY <1>0, <1>4, <3>2, <4>0, IssuedTo
      <4> QED
        BY <3>2, <4>1, <1>0 DEF CacheType
    <3> QED
      BY <1>6, <3>1, <3>2 DEF Ask
  <2>2. UNCHANGED <<user, diskVars>>
    BY <1>6 DEF Ask
  <2>3. \A p \in Procs : inner'[p] # 0 => Of(issued', inner'[p], Path(p))
    BY <2>1, <2>2, BelongsForever DEF OwnerInv
  <2>4. \A u \in Threads : tok'[u] = tok[u] \/ (u = t /\ tok'[u] = inner'[Owner[u]])
    BY <1>0, <1>6 DEF Ask, CacheType
  <2> QED
    BY <2>1, <2>2, <2>3, <2>4, Handed DEF diskVars
<1>7. ASSUME NEW t \in Threads, Unlock(t) PROVE OwnerInv'
  BY <1>0, <1>7, Handed DEF Unlock, CacheType, diskVars
<1>8. ASSUME NEW t \in Threads,
             LoadFails(t) \/ LoginFails(t) \/ LoginWaits(t) \/ Call(t) \/ Lock(t)
             \/ AskFails(t) \/ Create(t) \/ Write(t) \/ Sync(t)
      PROVE  OwnerInv'
  BY <1>1, <1>8 DEF LoadFails, LoginFails, LoginWaits, Call, Lock, AskFails, Create, Write, Sync, vars,
     threadVars
<1>9. ASSUME NEW t \in Threads, NEW saved \in BOOLEAN, AfterSave(t, saved), tok[t] # 0
      PROVE  /\ \A u \in Threads : tok'[u] \in {0, tok[u]}
             /\ \A p \in Procs : inner'[p] = inner[p] \/ Of(issued', inner'[p], Path(p))
  <2>1. Of(issued', tok[t], Path(Owner[t]))
    BY <1>9, BelongsForever DEF OwnerInv
  <2>2. \A u \in Threads : tok'[u] \in {0, tok[u]}
    BY <1>0, <1>9 DEF AfterSave, CacheType
  <2>3. UNCHANGED inner \/ inner' = [inner EXCEPT ![Owner[t]] = tok[t]]
    BY <1>9 DEF AfterSave
  <2> QED
    BY <1>0, <2>1, <2>2, <2>3 DEF CacheType
<1>10. ASSUME NEW t \in Threads, Rename(t) PROVE OwnerInv'
  <2>1. Path(Owner[t]) \in FileNames
    BY <1>0, PathIsName
  <2>2. tok[t] # 0 /\ tmp[t].token = tok[t]
    BY <1>10 DEF Rename, SaveInv, Saving
  <2>3. Of(issued, tmp[t].token, Path(Owner[t]))
    BY <2>1, <2>2 DEF OwnerInv
  <2>4. /\ file' = [file EXCEPT ![Path(Owner[t])] = tmp[t]]
        /\ onDisk' = [onDisk EXCEPT ![Path(Owner[t])] = @ \cup {tmp[t]}]
        /\ AfterSave(t, TRUE) /\ UNCHANGED user
    BY <1>10 DEF Rename
  <2>5. \A n \in FileNames : \A c \in onDisk'[n] \cup {file'[n]} :
          c \in onDisk[n] \cup {file[n], NoFile} \/ Of(issued, c.token, n)
    BY <1>0, <2>3, <2>4 DEF CacheType
  <2>6. /\ \A u \in Threads : tok'[u] \in {0, tok[u]}
        /\ \A p \in Procs : inner'[p] = inner[p] \/ Of(issued', inner'[p], Path(p))
    BY <1>9, <2>2, <2>4
  <2> QED
    BY <2>5, <2>6, Handed
<1>11. ASSUME NEW t \in Threads, SaveFails(t) PROVE OwnerInv'
  <2>1. AfterSave(t, FALSE) /\ UNCHANGED <<user, diskVars>>
    BY <1>11 DEF SaveFails
  <2>2. tok[t] # 0
    BY <1>11 DEF SaveFails, SaveInv
  <2>3. /\ \A u \in Threads : tok'[u] \in {0, tok[u]}
        /\ \A p \in Procs : inner'[p] = inner[p] \/ Of(issued', inner'[p], Path(p))
    BY <1>9, <2>1, <2>2
  <2> QED
    BY <2>1, <2>3, Handed DEF diskVars
<1>12. ASSUME NEW ps \in SUBSET Procs, Die(ps)
       PROVE  /\ \A u \in Threads : tok'[u] \in {0, tok[u]}
              /\ \A p \in Procs : inner'[p] \in {0, inner[p]}
  BY <1>12 DEF Die
<1>13. ASSUME NEW p \in Procs, Kill(p) \/ Exit(p) PROVE OwnerInv'
  <2>1. Die({p}) /\ UNCHANGED diskVars
    BY <1>13 DEF Kill, Exit
  <2>2. /\ \A u \in Threads : tok'[u] \in {0, tok[u]}
        /\ \A q \in Procs : inner'[q] \in {0, inner[q]}
    BY <1>12, <2>1
  <2> QED
    BY <2>1, <2>2, Handed DEF diskVars
<1>14. CASE Flush
  BY <1>14, Handed DEF Flush, threadVars
<1>15. CASE PowerCut
  <2>1. Die(Procs) /\ onDisk' = [n \in FileNames |-> {file'[n]}]
    BY <1>15 DEF PowerCut
  <2>2. /\ \A u \in Threads : tok'[u] \in {0, tok[u]}
        /\ \A q \in Procs : inner'[q] \in {0, inner[q]}
    BY <1>12, <2>1
  <2>3. \A n \in FileNames : file'[n] \in onDisk[n]
    <3>1. ASSUME NEW n \in FileNames, NEW c \in Survivors(n) PROVE c \in onDisk[n]
      <4>1. onDisk[n] \subseteq Whole
        BY <1>0 DEF CacheType
      <4>2. PICK f \in onDisk[n] : c = IF f \in {NoFile, Torn} \/ f.synced THEN f ELSE Torn
        BY <3>1 DEF Survivors
      <4>3. f = NoFile \/ f.synced
        BY <4>1 DEF Whole
      <4> QED
        BY <4>2, <4>3
    <3>2. \A n \in FileNames : file'[n] \in Survivors(n)
      BY <1>15 DEF PowerCut
    <3> QED
      BY <3>1, <3>2
  <2> QED
    BY <2>1, <2>2, <2>3, Handed
<1>16. CASE UNCHANGED vars
  BY <1>1, <1>16 DEF vars, threadVars
<1> QED
  BY <1>2, <1>3, <1>5, <1>6, <1>7, <1>8, <1>10, <1>11, <1>13, <1>14, <1>15, <1>16
     DEF Next, ThreadStep

(* Every file a reader may come across is whole, and every token is where  *)
(* it belongs, in every reachable state.                                   *)
THEOREM SaveInvariance == Spec => [](SaveInv /\ OwnerInv)
<1>1. SaveInv /\ OwnerInv /\ [Next]_vars => SaveInv'
  BY NextSave
<1>2. SaveInv /\ SaveInv' /\ OwnerInv /\ [Next]_vars => OwnerInv'
  BY NextOwner
<1> QED
  BY InitSave, InitOwner, <1>1, <1>2, PTL DEF Spec

(* No reader finds a torn file: a save is atomic, through kills and power  *)
(* cuts.                                                                   *)
THEOREM CacheNeverTorn == Spec => []NeverTorn
<1>1. SaveInv => NeverTorn
  BY FileAssumption DEF SaveInv, CacheType, Whole, NeverTorn
<1> QED
  BY <1>1, SaveInvariance, PTL

(* Accounts that share a cache directory do not get each other's tokens,   *)
(* whatever the hash function, unless both slug and hash of their names    *)
(* are the same.                                                           *)
THEOREM EveryoneOwnAccount == Spec => []OwnAccount
<1>1. OwnerInv => OwnAccount
  BY DEF OwnerInv, OwnAccount, Of, Path, tokenFileName
<1> QED
  BY <1>1, SaveInvariance, PTL

(* So with user names of which no two have the same slug and the same four *)
(* bytes of hash, a process never has a token but one of its own account.  *)
THEOREM NoCollisionNoMixUp ==
  ASSUME \A m, n \in Names : Slug(m) = Slug(n) /\ Sum[m] = Sum[n] => m = n
  PROVE  Spec => [](\A p \in Procs : inner[p] # 0 => issued[inner[p]] = user[p])
<1>1. SaveInv /\ OwnerInv => \A p \in Procs : inner[p] # 0 => issued[inner[p]] = user[p]
  <2> SUFFICES ASSUME SaveInv, OwnerInv, NEW p \in Procs, inner[p] # 0
               PROVE  issued[inner[p]] = user[p]
    OBVIOUS
  <2>1. issued[inner[p]] \in Names /\ user[p] \in Names
    BY IssuedTo DEF SaveInv
  <2>2. tokenFileName(issued[inner[p]]) = tokenFileName(user[p])
    BY DEF OwnerInv, Of, Path
  <2> QED
    BY <2>1, <2>2 DEF tokenFileName
<1> QED
  BY <1>1, SaveInvariance, PTL

-------------------------------------------------------------------------------
(***************************************************************************)
(* The mutex, and the order of the saves.                                  *)
(***************************************************************************)

(* The thread is between Lock and Unlock.                                  *)
Busy(t) == pc[t] \in {"ask", "unlock"} \cup Saving

(* Until the first token is saved only the main thread runs, and the mutex *)
(* is free; from then on a thread is busy if and only if it has the mutex. *)
MutexInv ==
  \A p \in Procs :
    /\ inner[p] = 0 =>
         /\ mu[p] = Nobody
         /\ \A t \in Threads : Owner[t] = p =>
              \/ pc[t] = "off"
              \/ t = Main[p] /\ pc[t] \in {"load", "login", "exited"} \cup Saving
    /\ inner[p] # 0 =>
         /\ mu[p] # Nobody => mu[p] \in Threads /\ Owner[mu[p]] = p
         /\ \A t \in Threads : Owner[t] = p =>
              /\ pc[t] \in {"idle", "lock"} \/ Busy(t)
              /\ Busy(t) <=> mu[p] = t

(* All threads are off at the start.                                       *)
LEMMA InitMutex == Init => MutexInv
<1>1. ASSUME Init, NEW p \in Procs, NEW t \in Threads
      PROVE  inner[p] = 0 /\ mu[p] = Nobody /\ pc[t] = "off"
  BY <1>1 DEF Init
<1> QED
  BY <1>1, CacheAssumption DEF MutexInv

(* Each step keeps the busy thread and the holder of the mutex the same.   *)
LEMMA NextMutex == SaveInv /\ OwnerInv /\ MutexInv /\ [Next]_vars => MutexInv'
<1> SUFFICES ASSUME SaveInv, OwnerInv, MutexInv, [Next]_vars PROVE MutexInv'
  OBVIOUS
<1>0. CacheType
  BY DEF SaveInv
<1>1. \A t \in Threads : pc[t] \in {"idle", "lock", "ask", "unlock"} => inner[Owner[t]] # 0
  BY DEF SaveInv
<1>2. ASSUME NEW p \in Procs, \A t \in Threads : Owner[t] = p => pc[t] = "off"
       PROVE  inner[p] = 0
  BY <1>2, CacheAssumption DEF MutexInv, Busy, Saving
<1>a. ASSUME NEW t \in Threads, pc[t] \in {"load", "login"} PROVE inner[Owner[t]] = 0
  <2>1. Owner[t] \in Procs
    BY CacheAssumption
  <2>2. ASSUME inner[Owner[t]] # 0 PROVE pc[t] \in {"idle", "lock"} \/ Busy(t)
    BY <2>1, <2>2 DEF MutexInv
  <2>3. ~Busy(t) /\ pc[t] \notin {"idle", "lock"}
    BY <1>a DEF Busy, Saving
  <2> QED
    BY <2>2, <2>3
<1> USE <1>0, CacheAssumption DEF CacheType, MutexInv, Busy, Saving
<1>3. ASSUME NEW p \in Procs, Start(p) PROVE MutexInv'
  <2>1. inner[p] = 0
    BY <1>3, <1>2 DEF Start
  <2>2. pc' = [pc EXCEPT ![Main[p]] = "load"] /\ UNCHANGED <<inner, mu>>
    BY <1>3 DEF Start
  <2> QED
    BY <2>1, <2>2
<1>4. ASSUME NEW t \in Threads, pc[t] \in {"load"} \cup Saving, inner[Owner[t]] = 0,
             pc' = [u \in Threads |-> IF Owner[u] = Owner[t] THEN "idle" ELSE pc[u]],
             NEW k \in 1..MaxTokens, inner' = [inner EXCEPT ![Owner[t]] = k], UNCHANGED mu
      PROVE  MutexInv'
  BY <1>4
<1>5. ASSUME NEW t \in Threads, NEW to \in {"login", "exited"} \cup Saving,
             pc[t] \in {"load", "login"} \cup Saving,
             inner[Owner[t]] = 0, pc' = [pc EXCEPT ![t] = to], UNCHANGED <<inner, mu>>
      PROVE  MutexInv'
  BY <1>5
<1>6. ASSUME NEW t \in Threads, NEW to \in {"ask", "unlock"} \cup Saving,
             Busy(t), inner[Owner[t]] # 0, pc' = [pc EXCEPT ![t] = to], UNCHANGED mu,
             \A p \in Procs : inner'[p] = 0 <=> inner[p] = 0
      PROVE  MutexInv'
  BY <1>6
<1>7. ASSUME NEW t \in Threads, Load(t) PROVE MutexInv'
  <2>1. inner[Owner[t]] = 0 /\ pc[t] = "load"
    <3>1. pc[t] = "load"
      BY <1>7 DEF Load
    <3> QED
      BY <1>a, <3>1
  <2>2. UNCHANGED mu
    BY <1>7 DEF Load
  <2>3. CASE UNCHANGED inner /\ pc' = [pc EXCEPT ![t] = "login"]
    BY <1>5, <2>1, <2>2, <2>3
  <2>4. CASE UNCHANGED inner /\ pc' = [pc EXCEPT ![t] = "exited"]
    BY <1>5, <2>1, <2>2, <2>4
  <2>5. CASE /\ file[Path(Owner[t])] \notin {NoFile, Torn}
             /\ pc' = [u \in Threads |-> IF Owner[u] = Owner[t] THEN "idle" ELSE pc[u]]
             /\ inner' = [inner EXCEPT ![Owner[t]] = file[Path(Owner[t])].token]
    <3>1. file[Path(Owner[t])].token \in 1..MaxTokens
      BY <2>5, PathIsName DEF Whole, Contents, Tokens
    <3> QED
      BY <1>4, <2>1, <2>2, <2>5, <3>1
  <2> QED
    BY <1>7, <2>3, <2>4, <2>5 DEF Load
<1>8. ASSUME NEW t \in Threads, LoadFails(t) \/ Login(t) \/ LoginFails(t) PROVE MutexInv'
  <2>1. pc[t] \in {"load", "login"} /\ UNCHANGED <<inner, mu>>
    BY <1>8 DEF LoadFails, Login, LoginFails, At
  <2>2. inner[Owner[t]] = 0
    BY <1>a, <2>1
  <2>3. CASE pc' = [pc EXCEPT ![t] = "create"]
    BY <1>5, <2>1, <2>2, <2>3
  <2>4. CASE pc' = [pc EXCEPT ![t] = "exited"]
    BY <1>5, <2>1, <2>2, <2>4
  <2> QED
    BY <1>8, <2>3, <2>4 DEF LoadFails, Login, LoginFails, At
<1>9. ASSUME NEW t \in Threads, Call(t) PROVE MutexInv'
  <2>1. inner[Owner[t]] # 0
    BY <1>9, <1>1 DEF Call, At
  <2>2. pc[t] = "idle" /\ pc' = [pc EXCEPT ![t] = "lock"] /\ UNCHANGED <<inner, mu>>
    BY <1>9 DEF Call, At
  <2> QED
    BY <2>1, <2>2
<1>10. ASSUME NEW t \in Threads, Lock(t) PROVE MutexInv'
  <2>1. inner[Owner[t]] # 0
    BY <1>10, <1>1 DEF Lock, At
  <2>2. /\ pc[t] = "lock" /\ pc' = [pc EXCEPT ![t] = "ask"] /\ UNCHANGED inner
        /\ mu[Owner[t]] = Nobody /\ mu' = [mu EXCEPT ![Owner[t]] = t]
    BY <1>10 DEF Lock, At
  <2> QED
    BY <2>1, <2>2
<1>11. ASSUME NEW t \in Threads, Ask(t) PROVE MutexInv'
  <2>1. inner[Owner[t]] # 0 /\ Busy(t)
    BY <1>11, <1>1 DEF Ask, At
  <2>2. pc' = [pc EXCEPT ![t] = "create"] /\ UNCHANGED mu
    BY <1>11 DEF Ask, At
  <2>3. CASE UNCHANGED inner
    BY <1>6, <2>1, <2>3, <2>2
  <2>4. CASE /\ Issue(issued[inner[Owner[t]]])
             /\ inner' = [inner EXCEPT ![Owner[t]] = Len(issued')]
    <3>0. Len(issued') \in 1..MaxTokens
      BY <2>1, <2>4, Issued, IssuedTo
    <3>1. \A p \in Procs : inner'[p] = 0 <=> inner[p] = 0
      BY <2>1, <2>4, <3>0
    <3> QED
      BY <1>6, <2>1, <2>2, <3>1
  <2> QED
    BY <1>11, <2>3, <2>4 DEF Ask
<1>12. ASSUME NEW t \in Threads, AskFails(t) PROVE MutexInv'
  <2>1. inner[Owner[t]] # 0 /\ Busy(t)
    BY <1>12, <1>1 DEF AskFails, At
  <2>2. pc' = [pc EXCEPT ![t] = "unlock"] /\ UNCHANGED <<inner, mu>>
    BY <1>12 DEF AskFails, At
  <2> QED
    BY <1>6, <2>1, <2>2
<1>13. ASSUME NEW t \in Threads, Unlock(t) PROVE MutexInv'
  <2>1. inner[Owner[t]] # 0 /\ mu[Owner[t]] = t
    BY <1>13, <1>1 DEF Unlock, At
  <2>2. /\ pc' = [pc EXCEPT ![t] = "idle"] /\ UNCHANGED inner
        /\ mu' = [mu EXCEPT ![Owner[t]] = Nobody]
    BY <1>13 DEF Unlock, At
  <2> QED
    BY <2>1, <2>2
<1>14. ASSUME NEW t \in Threads, Create(t) \/ Write(t) \/ Sync(t) PROVE MutexInv'
  <2>1. /\ pc[t] \in Saving /\ UNCHANGED <<inner, mu>>
        /\ \E to \in Saving : pc' = [pc EXCEPT ![t] = to]
    BY <1>14 DEF Create, Write, Sync, At
  <2>2. CASE inner[Owner[t]] = 0
    BY <1>5, <2>1, <2>2
  <2>3. CASE inner[Owner[t]] # 0
    BY <1>6, <2>1, <2>3
  <2> QED
    BY <2>2, <2>3
<1>15. ASSUME NEW t \in Threads, NEW saved \in BOOLEAN, pc[t] \in Saving,
              AfterSave(t, saved), UNCHANGED mu
       PROVE  MutexInv'
  <2>1. CASE inner[Owner[t]] # 0
    <3>1. pc' = [pc EXCEPT ![t] = "unlock"] /\ UNCHANGED inner
      BY <1>15, <2>1 DEF AfterSave, Starting
    <3> QED
      BY <1>6, <1>15, <2>1, <3>1
  <2>2. CASE inner[Owner[t]] = 0 /\ saved
    <3>1. tok[t] \in 1..MaxTokens
      BY <1>15 DEF SaveInv
    <3>2. /\ pc' = [u \in Threads |-> IF Owner[u] = Owner[t] THEN "idle" ELSE pc[u]]
          /\ inner' = [inner EXCEPT ![Owner[t]] = tok[t]]
      BY <1>15, <2>2 DEF AfterSave, Starting
    <3> QED
      BY <1>4, <1>15, <2>2, <3>1, <3>2
  <2>3. CASE inner[Owner[t]] = 0 /\ ~saved
    <3>1. pc' = [pc EXCEPT ![t] = "exited"] /\ UNCHANGED inner
      BY <1>15, <2>3 DEF AfterSave, Starting
    <3> QED
      BY <1>5, <1>15, <2>3, <3>1
  <2> QED
    BY <2>1, <2>2, <2>3
<1>16. ASSUME NEW t \in Threads, Rename(t) PROVE MutexInv'
  <2>1. pc[t] \in Saving /\ AfterSave(t, TRUE) /\ UNCHANGED mu
    BY <1>16 DEF Rename
  <2> QED
    BY <1>15, <2>1
<1>17. ASSUME NEW t \in Threads, SaveFails(t) PROVE MutexInv'
  <2>1. pc[t] \in Saving /\ AfterSave(t, FALSE) /\ UNCHANGED mu
    BY <1>17 DEF SaveFails
  <2> QED
    BY <1>15, <2>1
<1>18. ASSUME NEW ps \in SUBSET Procs, Die(ps) PROVE MutexInv'
  BY <1>18 DEF Die
<1>19. ASSUME NEW p \in Procs, Kill(p) \/ Exit(p) PROVE MutexInv'
  <2>1. Die({p}) /\ {p} \in SUBSET Procs
    BY <1>19 DEF Kill, Exit
  <2> QED
    BY <1>18, <2>1
<1>20. CASE Flush
  BY <1>20 DEF Flush, threadVars
<1>21. CASE PowerCut
  <2>1. Die(Procs)
    BY <1>21 DEF PowerCut
  <2> QED
    BY <1>18, <2>1
<1>22. CASE UNCHANGED vars
  BY <1>22 DEF vars, threadVars
<1> QED
  BY <1>3, <1>7, <1>8, <1>9, <1>10, <1>11, <1>12, <1>13, <1>14, <1>16, <1>17, <1>19, <1>20,
     <1>21, <1>22
     DEF Next, ThreadStep, LoginWaits

(* Two goroutines of a process never ask for a token, or save one, at the  *)
(* same time.                                                              *)
THEOREM MutexInvariance == Spec => []MutexInv
<1>1. SaveInv /\ OwnerInv /\ MutexInv /\ [Next]_vars => MutexInv'
  BY NextMutex
<1> QED
  BY InitMutex, SaveInvariance, <1>1, PTL DEF Spec

(* A process runs from its start until it is killed or has exited.         *)
Alive(p) == pc[Main[p]] # "off"

(* One process per cache file, as long as the history says so.             *)
AliveInv ==
  ~overlapped =>
    \A p, q \in Procs : Alive(p) /\ Alive(q) /\ Path(p) = Path(q) => p = q

(* A thread that runs, and a token, make a process alive.                  *)
LEMMA MainAlive ==
  ASSUME SaveInv, MutexInv
  PROVE  /\ \A t \in Threads : pc[t] # "off" => Alive(Owner[t])
         /\ \A p \in Procs : inner[p] # 0 => Alive(p)
<1>1. ASSUME NEW p \in Procs, inner[p] # 0 PROVE Alive(p)
  BY <1>1, CacheAssumption DEF MutexInv, Alive, Busy, Saving
<1>2. ASSUME NEW t \in Threads, pc[t] # "off" PROVE Alive(Owner[t])
  BY <1>1, <1>2, CacheAssumption DEF MutexInv, Alive
<1> QED
  BY <1>1, <1>2

(* Only a start brings a process to life.                                  *)
LEMMA AliveStep ==
  ASSUME SaveInv, MutexInv, [Next]_vars
  PROVE  \/ \E p \in Procs : Start(p)
         \/ UNCHANGED overlapped /\ \A p \in Procs : Alive(p)' => Alive(p)
<1> DEFINE Goal == UNCHANGED overlapped /\ \A p \in Procs : Alive(p)' => Alive(p)
<1>0. CacheType
  BY DEF SaveInv
<1>1. ASSUME NEW t \in Threads, pc[t] # "off", UNCHANGED overlapped,
             \A u \in Threads : pc'[u] = pc[u] \/ Owner[u] = Owner[t]
      PROVE  Goal
  BY <1>1, MainAlive, CacheAssumption DEF Alive
<1>2. ASSUME NEW t \in Threads, Load(t) PROVE Goal
  BY <1>0, <1>1, <1>2 DEF Load, CacheType
<1>3. ASSUME NEW t \in Threads,
             LoadFails(t) \/ Login(t) \/ LoginFails(t) \/ Call(t) \/ Lock(t) \/ Ask(t)
             \/ AskFails(t) \/ Unlock(t) \/ Create(t) \/ Write(t) \/ Sync(t)
      PROVE  Goal
  <2>1. /\ UNCHANGED overlapped
        /\ \E from, to \in PCs : At(t, from, to) /\ from # "off"
    BY <1>3 DEF LoadFails, Login, LoginFails, Call, Lock, Ask, AskFails, Unlock, Create, Write,
       Sync, PCs
  <2> QED
    BY <1>0, <1>1, <2>1 DEF At, CacheType
<1>4. ASSUME NEW t \in Threads, NEW saved \in BOOLEAN, AfterSave(t, saved),
             pc[t] \in Saving, UNCHANGED overlapped
      PROVE  Goal
  <2>1. \A u \in Threads : pc'[u] = pc[u] \/ Owner[u] = Owner[t]
    BY <1>0, <1>4 DEF AfterSave, CacheType
  <2> QED
    BY <1>1, <1>4, <2>1 DEF Saving
<1>5. ASSUME NEW t \in Threads, Rename(t) PROVE Goal
  <2>1. AfterSave(t, TRUE) /\ pc[t] \in Saving /\ UNCHANGED overlapped
    BY <1>5 DEF Rename, Saving
  <2> QED
    BY <1>4, <2>1
<1>6. ASSUME NEW t \in Threads, SaveFails(t) PROVE Goal
  <2>1. AfterSave(t, FALSE) /\ pc[t] \in Saving /\ UNCHANGED overlapped
    BY <1>6 DEF SaveFails
  <2> QED
    BY <1>4, <2>1
<1>7. ASSUME NEW ps \in SUBSET Procs, Die(ps) PROVE Goal
  BY <1>7, CacheAssumption DEF Die, Alive
<1>8. ASSUME NEW p \in Procs, Kill(p) \/ Exit(p) PROVE Goal
  <2>1. Die({p}) /\ {p} \in SUBSET Procs
    BY <1>8 DEF Kill, Exit
  <2> QED
    BY <1>7, <2>1
<1>9. CASE PowerCut
  <2>1. Die(Procs)
    BY <1>9 DEF PowerCut
  <2> QED
    BY <1>7, <2>1
<1>10. CASE Flush \/ UNCHANGED vars
  BY <1>10 DEF Flush, vars, threadVars, Alive
<1> QED
  BY <1>2, <1>3, <1>5, <1>6, <1>8, <1>9, <1>10 DEF Next, ThreadStep, LoginWaits

(* No process is alive at the start.                                       *)
LEMMA InitAlive == Init => AliveInv
BY CacheAssumption DEF Init, AliveInv, Alive

(* A second process on a cache file is noticed, for good, when it starts.  *)
LEMMA NextAlive ==
  SaveInv /\ MutexInv /\ AliveInv /\ [Next]_vars => AliveInv' /\ (overlapped => overlapped')
<1> SUFFICES ASSUME SaveInv, MutexInv, AliveInv, [Next]_vars
             PROVE  AliveInv' /\ (overlapped => overlapped')
  OBVIOUS
<1>0. \A p \in Procs : Path(p)' = Path(p)
  BY UserStays
<1>1. CASE UNCHANGED overlapped /\ \A p \in Procs : Alive(p)' => Alive(p)
  BY <1>0, <1>1 DEF AliveInv
<1>2. ASSUME NEW p \in Procs, Start(p) PROVE AliveInv' /\ (overlapped => overlapped')
  <2>1. overlapped => overlapped'
    BY <1>2 DEF Start
  <2>2. ~overlapped' => \A t \in Threads : pc[t] = "off" \/ Path(Owner[t]) # Path(p)
    BY <1>2 DEF Start
  <2>3. \A q \in Procs : Alive(q)' => Alive(q) \/ q = p
    <3>1. pc' = [pc EXCEPT ![Main[p]] = "load"]
      BY <1>2 DEF Start
    <3>2. \A q \in Procs : Main[q] \in Threads /\ (q # p => Main[q] # Main[p])
      BY CacheAssumption
    <3> QED
      BY <3>1, <3>2 DEF Alive, SaveInv, CacheType
  <2>4. ~overlapped' => \A q \in Procs : Alive(q) => Path(q) # Path(p)
    BY <2>2, CacheAssumption DEF Alive
  <2> QED
    BY <1>0, <2>1, <2>3, <2>4 DEF AliveInv
<1> QED
  BY <1>1, <1>2, AliveStep

(* Apart from a load, a login, an answer, a rename and a power cut, a step *)
(* starts no save and leaves the tokens and files as they are.             *)
Quiet ==
  /\ UNCHANGED <<user, file>>
  /\ \A n \in FileNames : onDisk'[n] \subseteq onDisk[n] \cup {file[n]}
  /\ \A t \in Threads :
       pc'[t] \in Saving =>
         pc[t] \in Saving /\ tok'[t] = tok[t] /\ inner'[Owner[t]] = inner[Owner[t]]
  /\ \A p \in Procs : inner'[p] \in {0, inner[p]}
  /\ \/ faults' # 0
     \/ /\ faults' = faults
        /\ \A t \in Threads :
             pc[t] \in Saving /\ inner'[Owner[t]] # 0 => pc'[t] \in Saving

(* Every step is one of those.                                             *)
LEMMA Classify ==
  ASSUME SaveInv, MutexInv, [Next]_vars
  PROVE  \/ Quiet
         \/ \E t \in Threads : 
              \/ Load(t) /\ file[Path(Owner[t])] # NoFile
              \/ Login(t) \/ Ask(t) \/ Rename(t)
         \/ PowerCut
<1>0. CacheType
  BY DEF SaveInv
<1> USE CacheAssumption
<1>1. ASSUME NEW p \in Procs, Start(p) PROVE Quiet
  BY <1>0, <1>1 DEF Start, Quiet, CacheType, diskVars, Saving
<1>2. ASSUME NEW t \in Threads, Load(t), file[Path(Owner[t])] = NoFile PROVE Quiet
  <2>1. /\ pc' = [pc EXCEPT ![t] = "login"]
        /\ UNCHANGED <<user, tok, inner, file, onDisk, faults>>
    BY <1>2 DEF Load, diskVars
  <2>2. pc[t] = "load"
    BY <1>2 DEF Load
  <2> QED
    BY <1>0, <2>1, <2>2 DEF Quiet, CacheType, Saving
<1>3. ASSUME NEW t \in Threads, Call(t) \/ Lock(t) PROVE Quiet
  <2>1. /\ UNCHANGED <<user, tok, inner, file, onDisk, faults>>
        /\ pc[t] \in {"idle", "lock"}
        /\ \E to \in {"lock", "ask"} : pc' = [pc EXCEPT ![t] = to]
    BY <1>3 DEF Call, Lock, At, diskVars
  <2> QED
    BY <1>0, <2>1 DEF Quiet, CacheType, Saving
<1>4. ASSUME NEW t \in Threads, LoadFails(t) \/ LoginFails(t) \/ AskFails(t) PROVE Quiet
  <2>1. /\ UNCHANGED <<user, tok, inner, file, onDisk>>
        /\ \E to \in {"exited", "unlock"} : pc' = [pc EXCEPT ![t] = to]
    BY <1>4 DEF LoadFails, LoginFails, AskFails, At, diskVars
  <2>2. faults' # 0
    BY <1>0, <1>4 DEF LoadFails, LoginFails, AskFails, Fault, CacheType
  <2> QED
    BY <1>0, <2>1, <2>2 DEF Quiet, CacheType, Saving
<1>5. ASSUME NEW t \in Threads, Unlock(t) PROVE Quiet
  <2>1. /\ UNCHANGED <<user, inner, file, onDisk, faults>>
        /\ tok' = [tok EXCEPT ![t] = 0]
        /\ pc[t] = "unlock"
        /\ pc' = [pc EXCEPT ![t] = "idle"]
    BY <1>5 DEF Unlock, At, diskVars
  <2> QED
    BY <1>0, <2>1 DEF Quiet, CacheType, Saving
<1>6. ASSUME NEW t \in Threads, Create(t) \/ Write(t) \/ Sync(t) PROVE Quiet
  <2>1. /\ UNCHANGED <<user, tok, inner, file, onDisk, faults>>
        /\ pc[t] \in Saving
        /\ \E to \in Saving : pc' = [pc EXCEPT ![t] = to]
    BY <1>6 DEF Create, Write, Sync, At, diskVars, Saving
  <2> QED
    BY <1>0, <2>1 DEF Quiet, CacheType
<1>7. ASSUME NEW t \in Threads, SaveFails(t) PROVE Quiet
  <2>1. /\ UNCHANGED <<user, file, onDisk>> /\ AfterSave(t, FALSE)
    BY <1>7 DEF SaveFails, diskVars
  <2>2. faults' # 0
    BY <1>0, <1>7 DEF SaveFails, Fault, CacheType
  <2>3. /\ UNCHANGED inner
        /\ \A u \in Threads : u # t => pc'[u] = pc[u] /\ tok'[u] = tok[u]
        /\ pc'[t] \in {"unlock", "exited"}
    BY <1>0, <2>1 DEF AfterSave, CacheType
  <2> QED
    BY <2>1, <2>2, <2>3 DEF Quiet, Saving
<1>8. ASSUME NEW p \in Procs, Kill(p) \/ Exit(p) PROVE Quiet
  <2>1. UNCHANGED <<user, file, onDisk>> /\ Die({p})
    BY <1>8 DEF Kill, Exit, diskVars
  <2>2. faults' = faults \/ faults' # 0
    BY <1>0, <1>8 DEF Kill, Exit, Fault, CacheType
  <2>3. /\ \A q \in Procs : inner'[q] = IF q = p THEN 0 ELSE inner[q]
        /\ \A t \in Threads : IF Owner[t] = p THEN pc'[t] = "off"
                              ELSE pc'[t] = pc[t] /\ tok'[t] = tok[t]
    BY <2>1 DEF Die
  <2> QED
    BY <2>1, <2>2, <2>3 DEF Quiet, Saving
<1>9. CASE Flush \/ UNCHANGED vars
  BY <1>0, <1>9 DEF Flush, vars, threadVars, diskVars, Quiet, CacheType
<1> QED
  BY <1>1, <1>2, <1>3, <1>4, <1>5, <1>6, <1>7, <1>8, <1>9 DEF Next, ThreadStep, LoginWaits, vars

(* A file that is missing, or holds a token no newer than k.               *)
UpTo(c, k) == c # NoFile => c.token <= k

(* Nothing in the cache is newer than what a process has or is saving, and *)
(* a file that may come back is no newer than the one that is there.       *)
OrderInv ==
  /\ \A t \in Threads : pc[t] \in Saving /\ inner[Owner[t]] # 0 => tok[t] = inner[Owner[t]]
  /\ ~overlapped =>
       /\ \A n \in FileNames : \A c \in onDisk[n] :
            c # NoFile => file[n] # NoFile /\ c.token <= file[n].token
       /\ \A p \in Procs : inner[p] # 0 => UpTo(file[Path(p)], inner[p])
       /\ \A t \in Threads : pc[t] \in Saving => UpTo(file[Path(Owner[t])], tok[t])

(* No file is there at the start.                                          *)
LEMMA InitOrder == Init => OrderInv
<1> SUFFICES ASSUME Init PROVE OrderInv
  OBVIOUS
<1>1. /\ \A t \in Threads : pc[t] \notin Saving
      /\ \A p \in Procs : inner[p] = 0
      /\ \A n \in FileNames : onDisk[n] = {NoFile}
  BY DEF Init, Saving
<1> QED
  BY <1>1 DEF OrderInv

(* The tokens of the files are numbers, of tokens that have been issued.   *)
LEMMA FileToken ==
  ASSUME SaveInv, OwnerInv, NEW p \in Procs
  PROVE  /\ Path(p) \in FileNames
         /\ file[Path(p)] # NoFile =>
              /\ file[Path(p)] \in Contents
              /\ file[Path(p)].token \in 1..MaxTokens
              /\ file[Path(p)].token <= Len(issued)
<1>1. Path(p) \in FileNames
  BY PathIsName DEF SaveInv
<1>2. ASSUME file[Path(p)] # NoFile
      PROVE  file[Path(p)] \in Contents /\ file[Path(p)].token \in 1..MaxTokens
  BY <1>1, <1>2 DEF SaveInv, CacheType, Whole, Contents, Tokens
<1>3. ASSUME file[Path(p)] # NoFile PROVE file[Path(p)].token <= Len(issued)
  BY <1>1, <1>3, LenProperties DEF OwnerInv, Of, SaveInv, CacheType
<1> QED
  BY <1>1, <1>2, <1>3

(* A save does not take the file away from under another process or thread *)
(* that has a newer token.                                                 *)
LEMMA Alone ==
  ASSUME SaveInv, MutexInv, AliveInv, OwnerInv, ~overlapped,
         NEW t \in Threads, pc[t] \in Saving,
         NEW p \in Procs, Path(p) = Path(Owner[t])
  PROVE  /\ inner[p] # 0 => p = Owner[t]
         /\ \A u \in Threads : Owner[u] = p /\ pc[u] \in Saving => u = t
<1>1. Owner[t] \in Procs
  BY CacheAssumption
<1>2. Alive(Owner[t])
  BY MainAlive DEF Saving
<1>3. Alive(p) => p = Owner[t]
  BY <1>1, <1>2 DEF AliveInv
<1>4. ASSUME NEW u \in Threads, Owner[u] = p, pc[u] \in Saving PROVE u = t
  <2>1. p = Owner[t]
    BY <1>3, <1>4, MainAlive DEF Saving
  <2> QED
    BY <1>1, <1>4, <2>1 DEF MutexInv, Busy, Saving
<1> QED
  BY <1>3, <1>4, MainAlive

(* Each step keeps the order of the saves.                                 *)
LEMMA NextOrder ==
  ASSUME SaveInv, SaveInv', MutexInv, AliveInv, OwnerInv, OrderInv, [Next]_vars,
         overlapped => overlapped'
  PROVE  OrderInv'
<1> USE CacheAssumption
<1>0. CacheType /\ CacheType'
  BY DEF SaveInv
<1>1. CASE Quiet
  <2>1. \A p \in Procs : Path(p)' = Path(p)
    BY <1>1 DEF Quiet, Path
  <2>2. \A t \in Threads :
          pc'[t] \in Saving /\ inner'[Owner[t]] # 0 => tok'[t] = inner'[Owner[t]]
    BY <1>1 DEF Quiet, OrderInv
  <2>3. ASSUME ~overlapped', NEW n \in FileNames, NEW c \in onDisk'[n], c # NoFile
        PROVE  file'[n] # NoFile /\ c.token <= file'[n].token
    <3>1. c \in onDisk[n] \/ c = file[n]
      BY <1>1, <2>3 DEF Quiet
    <3>2. file[n] # NoFile => file[n].token \in Nat
      BY <1>0 DEF CacheType, Whole, Contents, Tokens
    <3> QED
      BY <1>1, <2>3, <3>1, <3>2 DEF Quiet, OrderInv
  <2>4. ASSUME ~overlapped', NEW p \in Procs, inner'[p] # 0
        PROVE  UpTo(file'[Path(p)], inner'[p])
    BY <1>1, <2>4 DEF Quiet, OrderInv
  <2>5. ASSUME ~overlapped', NEW t \in Threads, pc'[t] \in Saving
        PROVE  UpTo(file'[Path(Owner[t])], tok'[t])
    BY <1>1, <2>5 DEF Quiet, OrderInv
  <2> QED
    BY <2>1, <2>2, <2>3, <2>4, <2>5 DEF OrderInv
<1>2. ASSUME NEW t \in Threads, Load(t), file[Path(Owner[t])] # NoFile PROVE OrderInv'
  <2>1. file[Path(Owner[t])] # Torn
    BY <1>0, FileAssumption, PathIsName DEF CacheType, Whole
  <2>2. /\ pc' = [u \in Threads |-> IF Owner[u] = Owner[t] THEN "idle" ELSE pc[u]]
        /\ inner' = [inner EXCEPT ![Owner[t]] = file[Path(Owner[t])].token]
        /\ UNCHANGED <<user, tok, file, onDisk>>
    BY <1>2, <2>1 DEF Load, diskVars
  <2>3. /\ \A u \in Threads : pc'[u] \in Saving =>
             pc[u] \in Saving /\ inner'[Owner[u]] = inner[Owner[u]]
        /\ \A p \in Procs : inner'[p] = IF p = Owner[t] THEN file[Path(p)].token ELSE inner[p]
        /\ \A p \in Procs : Path(p)' = Path(p)
    BY <1>0, <2>2 DEF CacheType, Saving, Path
  <2>4. file[Path(Owner[t])].token \in Nat
    BY <1>2, FileToken
  <2>5. ASSUME ~overlapped', NEW p \in Procs, inner'[p] # 0 
        PROVE  UpTo(file[Path(p)], inner'[p])
    BY <2>3, <2>4, <2>5 DEF OrderInv, UpTo
  <2> QED
    BY <2>2, <2>3, <2>5 DEF OrderInv
<1>3. ASSUME NEW u \in Names, Issue(u)
      PROVE  \A p \in Procs : UpTo(file[Path(p)], Len(issued'))
  <2>1. Len(issued) \in Nat /\ Len(issued') = Len(issued) + 1
    BY <1>0, <1>3, Issued
  <2> QED
    BY <2>1, FileToken DEF UpTo
<1>4. ASSUME NEW t \in Threads, Login(t) PROVE OrderInv'
  <2>1. /\ pc[t] = "login" /\ pc' = [pc EXCEPT ![t] = "create"]
        /\ tok' = [tok EXCEPT ![t] = Len(issued')]
        /\ Issue(user[Owner[t]]) /\ user[Owner[t]] \in Names
        /\ UNCHANGED <<user, inner, file, onDisk>>
    BY <1>0, <1>4, IssuedTo DEF Login, At, diskVars
  <2>2. inner[Owner[t]] = 0
    BY <2>1 DEF MutexInv, Busy, Saving
  <2>3. \A u \in Threads : pc'[u] \in Saving /\ u # t => pc[u] \in Saving /\ tok'[u] = tok[u]
    BY <1>0, <2>1 DEF CacheType, Saving
  <2>4. \A p \in Procs : Path(p)' = Path(p)
    BY <2>1 DEF Path
  <2>5. tok'[t] = Len(issued')
    BY <1>0, <2>1 DEF CacheType
  <2> QED
    BY <1>3, <2>1, <2>2, <2>3, <2>4, <2>5 DEF OrderInv
<1>5. ASSUME NEW t \in Threads, Ask(t) PROVE OrderInv'
  <2>1. /\ pc[t] = "ask" /\ pc' = [pc EXCEPT ![t] = "create"]
        /\ tok' = [tok EXCEPT ![t] = inner'[Owner[t]]]
        /\ UNCHANGED <<user, file, onDisk>>
        /\ \/ UNCHANGED inner
           \/ /\ Issue(issued[inner[Owner[t]]])
              /\ inner' = [inner EXCEPT ![Owner[t]] = Len(issued')]
    BY <1>5 DEF Ask, At, diskVars
  <2>2. inner[Owner[t]] # 0
    BY <2>1 DEF SaveInv
  <2>3. \A u \in Threads : pc'[u] \in Saving /\ u # t =>
          pc[u] \in Saving /\ tok'[u] = tok[u] /\ Owner[u] # Owner[t]
    <3>1. \A u \in Threads : pc'[u] \in Saving /\ u # t => pc[u] \in Saving /\ tok'[u] = tok[u]
      BY <1>0, <2>1 DEF CacheType
    <3>2. \A u \in Threads : pc[u] \in Saving /\ Owner[u] = Owner[t] => u = t
      BY <2>1, <2>2 DEF MutexInv, Busy
    <3> QED
      BY <3>1, <3>2
  <2>4. /\ \A p \in Procs : Path(p)' = Path(p)
        /\ tok'[t] = inner'[Owner[t]]
        /\ \A p \in Procs : p # Owner[t] => inner'[p] = inner[p]
    BY <1>0, <2>1 DEF Path, CacheType
  <2>5. ~overlapped' => UpTo(file[Path(Owner[t])], inner'[Owner[t]])
    <3>1. CASE UNCHANGED inner
      BY <2>2, <3>1 DEF OrderInv
    <3>2. CASE /\ Issue(issued[inner[Owner[t]]])
               /\ inner' = [inner EXCEPT ![Owner[t]] = Len(issued')]
      <4>1. issued[inner[Owner[t]]] \in Names
        BY <1>0, <2>2, IssuedTo
      <4> QED
        BY <1>0, <1>3, <3>2, <4>1 DEF CacheType
    <3> QED
      BY <2>1, <3>1, <3>2
  <2> QED
    BY <2>1, <2>3, <2>4, <2>5 DEF OrderInv
<1>6. ASSUME NEW t \in Threads, Rename(t) PROVE OrderInv'
  <2> DEFINE n == Path(Owner[t])
  <2>1. /\ pc[t] = "rename" /\ tok[t] # 0 /\ tmp[t] \in Contents /\ tmp[t].token = tok[t]
        /\ file' = [file EXCEPT ![n] = tmp[t]]
        /\ onDisk' = [onDisk EXCEPT ![n] = @ \cup {tmp[t]}]
        /\ AfterSave(t, TRUE) /\ UNCHANGED user
    BY <1>6 DEF Rename, SaveInv, Saving
  <2>2. n \in FileNames /\ tok[t] \in Nat
    BY <1>0, FileToken DEF CacheType
  <2>3. /\ \A p \in Procs : Path(p)' = Path(p)
        /\ file'[n] = tmp[t] /\ onDisk'[n] = onDisk[n] \cup {tmp[t]}
        /\ \A m \in FileNames : m # n => file'[m] = file[m] /\ onDisk'[m] = onDisk[m]
    BY <1>0, <2>1, <2>2 DEF CacheType, Path
  <2>4. \A u \in Threads : pc'[u] \in Saving =>
          u # t /\ pc[u] \in Saving /\ tok'[u] = tok[u] /\ inner'[Owner[u]] = inner[Owner[u]]
    BY <1>0, <2>1 DEF AfterSave, Starting, CacheType, Saving
  <2>5. /\ \A p \in Procs : p # Owner[t] => inner'[p] = inner[p]
        /\ inner'[Owner[t]] = tok[t]
    BY <1>0, <2>1 DEF AfterSave, Starting, CacheType, OrderInv, Saving
  <2>6. /\ \A p \in Procs : ~overlapped /\ Path(p) = n => (inner[p] # 0 => p = Owner[t])
        /\ \A u \in Threads : ~overlapped /\ Path(Owner[u]) = n /\ pc[u] \in Saving => u = t
    BY <2>1, Alone DEF Saving
  <2>7. ASSUME ~overlapped', NEW m \in FileNames, NEW c \in onDisk'[m], c # NoFile
        PROVE  file'[m] # NoFile /\ c.token <= file'[m].token
    <3>1. CASE m # n
      BY <2>3, <2>7, <3>1 DEF OrderInv
    <3>2. CASE m = n /\ c \in onDisk[n]
      <4>1. c.token <= file[n].token /\ file[n] # NoFile
        BY <2>2, <2>7, <3>2 DEF OrderInv
      <4>2. file[n].token <= tok[t]
        BY <2>1, <2>7, <4>1 DEF OrderInv, Saving, UpTo
      <4>3. c.token \in Nat /\ file[n].token \in Nat
        BY <1>0, <2>2, <2>7, <3>2, <4>1 DEF CacheType, Whole, Contents, Tokens
      <4> QED
        BY <2>1, <2>2, <2>3, <3>2, <4>1, <4>2, <4>3, FileAssumption
    <3>3. CASE m = n /\ c = tmp[t]
      BY <2>1, <2>2, <2>3, <3>3, FileAssumption
    <3> QED
      BY <2>3, <2>7, <3>1, <3>2, <3>3
  <2>8. ASSUME ~overlapped', NEW p \in Procs, inner'[p] # 0
        PROVE  UpTo(file'[Path(p)], inner'[p])
    <3>1. CASE p = Owner[t]
      BY <2>1, <2>2, <2>3, <2>5, <3>1 DEF UpTo
    <3>2. CASE p # Owner[t]
      BY <2>3, <2>5, <2>6, <2>8, <3>2, PathIsName, <1>0 DEF OrderInv
    <3> QED
      BY <3>1, <3>2
  <2>9. ASSUME ~overlapped', NEW u \in Threads, pc'[u] \in Saving
        PROVE  UpTo(file'[Path(Owner[u])], tok'[u])
    BY <2>3, <2>4, <2>6, <2>9, PathIsName, <1>0 DEF OrderInv
  <2>10. \A u \in Threads :
           pc'[u] \in Saving /\ inner'[Owner[u]] # 0 => tok'[u] = inner'[Owner[u]]
    BY <2>4 DEF OrderInv
  <2> QED
    BY <2>3, <2>7, <2>8, <2>9, <2>10 DEF OrderInv
<1>7. CASE PowerCut
  <2>1. /\ \A t \in Threads : pc'[t] = "off"
        /\ \A p \in Procs : inner'[p] = 0
        /\ \A n \in FileNames : onDisk'[n] = {file'[n]}
    BY <1>7 DEF PowerCut, Die
  <2>2. \A n \in FileNames : file'[n] # NoFile => file'[n].token \in Nat
    BY <1>0 DEF CacheType, Whole, Contents, Tokens
  <2> QED
    BY <2>1, <2>2 DEF OrderInv, Saving
<1> QED
  BY <1>1, <1>2, <1>4, <1>5, <1>6, <1>7, Classify

(* The cache is in order in every reachable state.                         *)
THEOREM OrderInvariance == Spec => [](AliveInv /\ OrderInv)
<1>1. SaveInv /\ MutexInv /\ AliveInv /\ [Next]_vars => AliveInv' /\ (overlapped => overlapped')
  BY NextAlive
<1>2. SaveInv /\ SaveInv' /\ MutexInv /\ AliveInv /\ OwnerInv /\ OrderInv /\ [Next]_vars
      /\ (overlapped => overlapped') => OrderInv'
  BY NextOrder
<1> QED
  BY InitAlive, InitOrder, SaveInvariance, MutexInvariance, <1>1, <1>2, PTL
     DEF Spec

(* No save replaces a token by an older one, as long as no two processes   *)
(* use the cache file at one time.                                         *)
THEOREM NoRegress == Spec => CacheNeverRegresses
<1>1. ASSUME SaveInv, OrderInv, NEW t \in Threads, ~overlapped, Rename(t),
             file[Path(Owner[t])] \in Contents
      PROVE  file[Path(Owner[t])].token <= tmp[t].token
  <2>1. pc[t] = "rename"
    BY <1>1 DEF Rename
  <2>2. tmp[t].token = tok[t] /\ UpTo(file[Path(Owner[t])], tok[t])
    BY <1>1, <2>1 DEF SaveInv, OrderInv, Saving
  <2> QED
    BY <1>1, <2>2, FileAssumption DEF UpTo
<1>2. SaveInv /\ OrderInv =>
        \A t \in Threads :
          LET cached == file[Path(Owner[t])]
          IN  ~overlapped /\ Rename(t) /\ cached \in Contents => cached.token <= tmp[t].token
  BY <1>1
<1> QED
  BY <1>2, SaveInvariance, OrderInvariance, PTL DEF CacheNeverRegresses

-------------------------------------------------------------------------------
(***************************************************************************)
(* What the cache file holds when nothing fails.                           *)
(***************************************************************************)

(* No thread of the process is half way through a save.                    *)
Settled(p) == inner[p] # 0 /\ \A t \in Threads : Owner[t] = p => pc[t] \notin Saving

(* What that process has is in its file, if nothing has failed.            *)
CurrentInv ==
  ~overlapped /\ faults = 0 =>
    \A p \in Procs :
      Settled(p) => file[Path(p)] # NoFile /\ file[Path(p)].token >= inner[p]

(* No process has a token at the start.                                    *)
LEMMA InitCurrent == Init => CurrentInv
BY DEF Init, CurrentInv, Settled

(* Each step that does not fail leaves the token in the file.              *)
LEMMA NextCurrent ==
  ASSUME SaveInv, SaveInv', MutexInv, AliveInv, OwnerInv, OrderInv, CurrentInv, [Next]_vars,
         overlapped => overlapped'
  PROVE  CurrentInv'
<1> SUFFICES ASSUME ~overlapped, faults' = 0, NEW p \in Procs, Settled(p)'
             PROVE  file'[Path(p)'] # NoFile /\ file'[Path(p)'].token >= inner'[p]
  BY DEF CurrentInv
<1> USE CacheAssumption
<1>0. CacheType /\ CacheType'
  BY DEF SaveInv
<1>1. ASSUME faults = 0, Settled(p), UNCHANGED <<user, file>>, inner'[p] = inner[p]
      PROVE  file'[Path(p)'] # NoFile /\ file'[Path(p)'].token >= inner'[p]
  BY <1>1 DEF CurrentInv, Path
<1>2. CASE Quiet
  <2>1. faults = 0 /\ Settled(p) /\ UNCHANGED <<user, file>> /\ inner'[p] = inner[p]
    BY <1>2 DEF Quiet, Settled
  <2> QED
    BY <1>1, <2>1
<1>3. ASSUME NEW t \in Threads, Load(t), file[Path(Owner[t])] # NoFile
      PROVE  file'[Path(p)'] # NoFile /\ file'[Path(p)'].token >= inner'[p]
  <2>1. file[Path(Owner[t])] # Torn
    BY <1>0, FileAssumption, PathIsName DEF CacheType, Whole
  <2>2. /\ pc' = [u \in Threads |-> IF Owner[u] = Owner[t] THEN "idle" ELSE pc[u]]
        /\ inner' = [inner EXCEPT ![Owner[t]] = file[Path(Owner[t])].token]
        /\ UNCHANGED <<user, file, faults>>
    BY <1>3, <2>1 DEF Load, diskVars
  <2>3. CASE p = Owner[t]
    <3>1. file[Path(p)].token \in Nat
      BY <1>3, <2>3, FileToken
    <3>2. Path(p)' = Path(p) /\ inner'[p] = file[Path(p)].token
      BY <1>0, <2>2, <2>3 DEF Path, CacheType
    <3> QED
      BY <1>3, <2>2, <2>3, <3>1, <3>2
  <2>4. CASE p # Owner[t]
    <3>1. Settled(p) /\ inner'[p] = inner[p] /\ faults = 0
      BY <1>0, <2>2, <2>4 DEF Settled, CacheType
    <3> QED
      BY <1>1, <2>2, <3>1
  <2> QED
    BY <2>3, <2>4
<1>4. ASSUME NEW t \in Threads, Login(t) \/ Ask(t)
      PROVE  file'[Path(p)'] # NoFile /\ file'[Path(p)'].token >= inner'[p]
  <2>1. /\ pc[t] \in {"login", "ask"} /\ pc' = [pc EXCEPT ![t] = "create"]
        /\ UNCHANGED <<user, file, faults>>
        /\ \A q \in Procs : q # Owner[t] => inner'[q] = inner[q]
    BY <1>0, <1>4 DEF Login, Ask, At, diskVars, CacheType
  <2>2. p # Owner[t]
    BY <1>0, <2>1 DEF Settled, CacheType, Saving
  <2>3. Settled(p) /\ inner'[p] = inner[p]
    BY <1>0, <2>1, <2>2 DEF Settled, CacheType
  <2> QED
    BY <1>1, <2>1, <2>3
<1>5. ASSUME NEW t \in Threads, Rename(t)
      PROVE  file'[Path(p)'] # NoFile /\ file'[Path(p)'].token >= inner'[p]
  <2> DEFINE n == Path(Owner[t])
  <2>1. /\ pc[t] = "rename" /\ tok[t] # 0 /\ tmp[t] \in Contents /\ tmp[t].token = tok[t]
        /\ file' = [file EXCEPT ![n] = tmp[t]]
        /\ AfterSave(t, TRUE) /\ UNCHANGED <<user, faults>>
    BY <1>5 DEF Rename, SaveInv, Saving
  <2>2. n \in FileNames /\ tok[t] \in Nat /\ Path(p) \in FileNames
    BY <1>0, FileToken DEF CacheType
  <2>3. /\ Path(p)' = Path(p)
        /\ file'[Path(p)] = IF Path(p) = n THEN tmp[t] ELSE file[Path(p)]
    BY <1>0, <2>1, <2>2 DEF CacheType, Path
  <2>4. /\ \A q \in Procs : q # Owner[t] => inner'[q] = inner[q]
        /\ inner'[Owner[t]] = tok[t]
        /\ \A u \in Threads : Owner[u] # Owner[t] => pc'[u] = pc[u]
    BY <1>0, <2>1 DEF AfterSave, Starting, CacheType, OrderInv, Saving
  <2>5. CASE p = Owner[t]
    BY <2>1, <2>2, <2>3, <2>4, <2>5, FileAssumption
  <2>6. CASE p # Owner[t]
    <3>1. Settled(p) /\ inner'[p] = inner[p]
      BY <2>4, <2>6 DEF Settled
    <3>2. Path(p) # n
      BY <2>1, <2>6, <3>1, Alone DEF Settled, Saving
    <3> QED
      BY <2>1, <2>3, <3>1, <3>2 DEF CurrentInv
  <2> QED
    BY <2>5, <2>6
<1>6. CASE PowerCut
  BY <1>0, <1>6 DEF PowerCut, Fault, CacheType
<1> QED
  BY <1>2, <1>3, <1>4, <1>5, <1>6, Classify

(* Alone with the cache file, with nothing failed yet, a process that is   *)
(* not in the middle of Token has its token in that file.                  *)
THEOREM CacheIsCurrent == Spec => []CacheCurrent
<1>1. SaveInv /\ SaveInv' /\ MutexInv /\ AliveInv /\ OwnerInv /\ OrderInv /\ CurrentInv
      /\ [Next]_vars /\ (overlapped => overlapped') => CurrentInv'
  BY NextCurrent
<1>2. SaveInv /\ MutexInv /\ AliveInv /\ [Next]_vars => (overlapped => overlapped')
  BY NextAlive
<1>3. Spec => []CurrentInv
  BY InitCurrent, SaveInvariance, MutexInvariance, OrderInvariance,
     <1>1, <1>2, PTL DEF Spec
<1>4. SaveInv /\ MutexInv /\ CurrentInv => CacheCurrent
  <2> SUFFICES ASSUME SaveInv, MutexInv, CurrentInv, NEW p \in Procs,
                      ~overlapped, faults = 0, inner[p] # 0, mu[p] = Nobody
               PROVE  file[Path(p)].token >= inner[p]
    BY DEF CacheCurrent
  <2>1. Settled(p)
    BY CacheAssumption DEF Settled, MutexInv, Busy
  <2> QED
    BY <2>1 DEF CurrentInv
<1> QED
  BY <1>3, <1>4, SaveInvariance, MutexInvariance, PTL

================================================================================
