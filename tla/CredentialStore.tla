---------------------------- MODULE CredentialStore ----------------------------
(***************************************************************************)
(* CloudPushStore (pkg/secrets/cloud_push.go): the credentials pushed by   *)
(* the cloud, in memory and in one encrypted file, written by the          *)
(* handlers of overlapping config pushes.  The agent may die at any point  *)
(* and reads the file when it starts again.                                *)
(*                                                                         *)
(* The credentials of a datasource are the number of the Set that pushed   *)
(* them (0: none), so an older value is a smaller number.  os.WriteFile    *)
(* truncates the file before it writes; AES-GCM refuses a file that is     *)
(* not whole, "torn" here.                                                 *)
(***************************************************************************)
EXTENDS Naturals, FiniteSets, Goroutines

CONSTANTS Datasources,
          MaxSets,      \* bound on the calls of Set
          MaxCrashes    \* bound on the crashes

ASSUME CredentialStoreAssumption ==
    /\ None \notin Callers \cup Datasources
    /\ MaxSets \in Nat /\ MaxCrashes \in Nat

VARIABLES creds,     \* CloudPushStore.creds
          file,      \* credentials.enc: whether it is whole, and what it then holds
          storeMu,   \* the goroutine that has CloudPushStore.mu
          stage,     \* where each goroutine is
          target,    \* the datasource it sets
          number,    \* its credentials
          snapshot,  \* what it has marshalled and encrypted
          accepted,  \* per datasource, the last Set that returned nil
          sets,      \* calls of Set so far
          agent,     \* "up", "down", or "refused" when it could not start
          crashes

setters == <<stage, target, number, snapshot>>
storeVars == <<creds, file, storeMu, setters, accepted, sets, agent, crashes>>

Credentials == [Datasources -> 0..MaxSets]
NoCredentials == [d \in Datasources |-> 0]

\* The type invariant of the store.
StoreTypeOK ==
    /\ creds \in Credentials
    /\ file \in [is : {"absent", "torn", "whole"}, holds : Credentials]
    /\ storeMu \in Callers \cup {None}
    /\ stage \in [Callers -> {"idle", "locked", "encrypted", "truncated"}]
    /\ target \in [Callers -> Datasources \cup {None}]
    /\ number \in [Callers -> 0..MaxSets]
    /\ snapshot \in [Callers -> Credentials]
    /\ accepted \in Credentials
    /\ sets \in 0..MaxSets /\ crashes \in 0..MaxCrashes
    /\ agent \in {"up", "down", "refused"}

\* A first start: there is no file.
StoreInit ==
    /\ creds = NoCredentials
    /\ file = [is |-> "absent", holds |-> NoCredentials]
    /\ storeMu = None
    /\ stage = [s \in Callers |-> "idle"]
    /\ target = [s \in Callers |-> None]
    /\ number = [s \in Callers |-> 0]
    /\ snapshot = [s \in Callers |-> NoCredentials]
    /\ accepted = NoCredentials
    /\ sets = 0 /\ crashes = 0
    /\ agent = "up"

-----------------------------------------------------------------------------
StageIs(s, st) == agent = "up" /\ stage[s] = st
ToStage(s, st) == stage' = [stage EXCEPT ![s] = st]

\* Set runs with the mutex; the mutant saves without it.
MayLockStore_Mutant == TRUE
MayLockStore == storeMu = None

\* Set takes the mutex and puts the credentials in the map.
SetLocked(s, d) ==
    /\ StageIs(s, "idle")
    /\ sets < MaxSets
    /\ MayLockStore
    /\ storeMu' = s
    /\ sets' = sets + 1
    /\ creds' = [creds EXCEPT ![d] = sets + 1]
    /\ target' = [target EXCEPT ![s] = d]
    /\ number' = [number EXCEPT ![s] = sets + 1]
    /\ ToStage(s, "locked")
    /\ UNCHANGED <<file, snapshot, accepted, agent, crashes>>

\* saveToDisk marshals and encrypts the whole map.
Encrypt(s) ==
    /\ StageIs(s, "locked")
    /\ snapshot' = [snapshot EXCEPT ![s] = creds]
    /\ ToStage(s, "encrypted")
    /\ UNCHANGED <<creds, file, storeMu, target, number, accepted, sets, agent, crashes>>

Truncate(s) ==
    /\ StageIs(s, "encrypted")
    /\ file' = [is |-> "torn", holds |-> NoCredentials]
    /\ ToStage(s, "truncated")
    /\ UNCHANGED <<creds, storeMu, target, number, snapshot, accepted, sets, agent, crashes>>

\* Set returns nil: the file is whole.
SetStored(s) ==
    /\ StageIs(s, "truncated")
    /\ file' = [is |-> "whole", holds |-> snapshot[s]]
    /\ accepted' = [accepted EXCEPT ![target[s]] = number[s]]
    /\ storeMu' = None
    /\ ToStage(s, "idle")
    /\ UNCHANGED <<creds, target, number, snapshot, sets, agent, crashes>>

\* Set returns an error: encryption, the directory, or the write has failed.
\* The map keeps the new credentials and the file what it has.
SetFailed(s) ==
    /\ \/ StageIs(s, "locked")
       \/ StageIs(s, "encrypted")
       \/ StageIs(s, "truncated")
    /\ storeMu' = None
    /\ ToStage(s, "idle")
    /\ UNCHANGED <<creds, file, target, number, snapshot, accepted, sets, agent, crashes>>

-----------------------------------------------------------------------------
\* The process dies; what was in memory is gone.
Crash ==
    /\ agent = "up"
    /\ crashes < MaxCrashes
    /\ crashes' = crashes + 1
    /\ agent' = "down"
    /\ creds' = NoCredentials
    /\ storeMu' = None
    /\ stage' = [s \in Callers |-> "idle"]
    /\ snapshot' = [s \in Callers |-> NoCredentials]
    /\ number' = [s \in Callers |-> 0]
    /\ UNCHANGED <<file, target, accepted, sets>>

\* NewCloudPushStore: a file that is absent is an empty store, one that does not
\* decrypt ends the start.
Unreadable == file.is = "torn"

NewCloudPushStore ==
    /\ agent = "down"
    /\ \/ Unreadable /\ agent' = "refused" /\ UNCHANGED creds
       \/ /\ ~Unreadable
          /\ agent' = "up"
          /\ creds' = file.holds
    /\ UNCHANGED <<file, storeMu, setters, accepted, sets, crashes>>

StoreNext ==
    \/ \E s \in Callers, d \in Datasources : SetLocked(s, d)
    \/ \E s \in Callers : Encrypt(s)
    \/ \E s \in Callers : Truncate(s)
    \/ \E s \in Callers : SetStored(s)
    \/ \E s \in Callers : SetFailed(s)
    \/ Crash
    \/ NewCloudPushStore

StoreSpec == StoreInit /\ [][StoreNext]_storeVars
-----------------------------------------------------------------------------
\* An agent that is up, restarted or not, answers Get with credentials no older
\* than the last ones for which Set returned nil: overlapping pushes do not write
\* an older map over a newer one, a failed save does not bring older credentials
\* back, and an agent that finds a file it cannot read does not go on without it.
StoredNotLost ==
    agent = "up" => \A d \in Datasources : creds[d] >= accepted[d]
=============================================================================
