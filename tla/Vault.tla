------------------------------- MODULE Vault -------------------------------
(***************************************************************************)
(* The local vault of an executor (vault.rs) and the requests that change  *)
(* it over the local socket (ipc.rs).                                      *)
(*                                                                         *)
(* Every connection is served by a task of its own on a runtime of several *)
(* threads, and the steps of a task read, truncate and rewrite one file    *)
(* without a lock.  A file that cannot be read, is empty or is not JSON    *)
(* counts as an empty store, which the next save writes back.              *)
(***************************************************************************)
EXTENDS Naturals

CONSTANTS
  Name,        \* names of secrets
  Secret,      \* values
  NoSecret,
  Client,      \* requests served at once
  MaxPuts,     \* bound: requests served
  MaxStops     \* bound: times the daemon is stopped

ASSUME VaultAssumption ==
  Name # {} /\ NoSecret \notin Secret /\ MaxPuts \in Nat /\ MaxStops \in Nat

VARIABLES
  file,      \* vault.json
  client,    \* the requests
  refs,      \* secret_ref rows in the cerebro, by name
  served,    \* requests so far
  stops,
  kept,      \* history: what the requests completed so far should have left
  missed,    \* history: names whose entry in a request's copy may be outdated
  risked     \* history: names that a save may have lost or brought back

vaultVars == <<file, client, refs, served, stops, kept, missed, risked>>

Empty  == [n \in Name |-> NoSecret]
Stores == [Name -> Secret \cup {NoSecret}]

\* "blank": truncated and not yet written; "torn": not JSON
Blank == [st |-> "blank", secrets |-> Empty]
Torn  == [st |-> "torn", secrets |-> Empty]
Whole(s) == [st |-> "whole", secrets |-> s]

\* value NoSecret: a delete
NoClient == [pc |-> "idle", name |-> CHOOSE n \in Name : TRUE,
             value |-> NoSecret, store |-> Empty]

VaultTypeOK ==
  /\ file \in [st : {"blank", "torn", "whole"}, secrets : Stores]
  /\ client \in [Client -> [pc : {"idle", "load", "truncate", "write", "register"},
                            name : Name, value : Secret \cup {NoSecret},
                            store : Stores]]
  /\ refs \in SUBSET Name
  /\ served \in 0..MaxPuts
  /\ stops \in 0..MaxStops
  /\ kept \in Stores
  /\ missed \in [Client -> SUBSET Name]
  /\ risked \in SUBSET Name

VaultInit ==
  /\ file = Blank
  /\ client = [c \in Client |-> NoClient]
  /\ refs = {}
  /\ served = 0
  /\ stops = 0
  /\ kept = Empty
  /\ missed = [c \in Client |-> {}]
  /\ risked = {}

\* between loading the store and having written it
Saving == {c \in Client : client[c].pc \in {"truncate", "write"}}

\* the file was truncated for a save that has not been written
Truncated == \E c \in Client : client[c].pc = "write"

----------------------------------------------------------------------------
(* secret.put and secret.delete.                                           *)

\* Mutant: an empty name is not refused
RequestUnchecked(c, n, v) ==
  /\ client[c].pc = "idle" /\ served < MaxPuts
  /\ \E name \in {n, ""} :
       client' = [client EXCEPT ![c] = [NoClient EXCEPT !.pc = "load",
                                          !.name = name, !.value = v]]
  /\ served' = served + 1
  /\ UNCHANGED <<file, refs, stops, kept, missed, risked>>

\* the request arrives; a put with an empty name or value is refused
Request(c, n, v) ==
  /\ client[c].pc = "idle" /\ served < MaxPuts
  /\ client' = [client EXCEPT ![c] = [NoClient EXCEPT !.pc = "load", !.name = n,
                                                      !.value = v]]
  /\ served' = served + 1
  /\ UNCHANGED <<file, refs, stops, kept, missed, risked>>

\* Mutant: a copy read when the daemon started serves for all requests
LoadAtStart(readable) == Empty

\* load(): a file that cannot be read, or is not JSON, is an empty store
Load(readable) == IF readable THEN file.secrets ELSE Empty

\* load, then insert or remove
Change(c) ==
  /\ client[c].pc = "load"
  /\ \E readable \in BOOLEAN :
       /\ client' = [client EXCEPT ![c].pc = "truncate",
                                   ![c].store = [Load(readable) EXCEPT
                                     ![client[c].name] = client[c].value]]
       /\ missed' = [missed EXCEPT ![c] = IF readable /\ ~Truncated THEN {}
                                          ELSE Name]
  /\ UNCHANGED <<file, refs, served, stops, kept, risked>>

\* OpenOptions::truncate
Truncate(c) ==
  /\ client[c].pc = "truncate"
  /\ file' = Blank
  /\ client' = [client EXCEPT ![c].pc = "write"]
  /\ UNCHANGED <<refs, served, stops, kept, missed, risked>>

\* write_all from the start of the file: over what another task has written
\* since, of which a longer tail stays
WriteStore(c) ==
  /\ client[c].pc = "write"
  /\ file' \in {Whole(client[c].store)}
               \cup (IF file.st = "blank" THEN {} ELSE {Torn})
  /\ kept' = [kept EXCEPT ![client[c].name] = client[c].value]
  /\ client' = [client EXCEPT ![c] = IF @.value = NoSecret THEN NoClient
                                     ELSE [@ EXCEPT !.pc = "register"]]
  /\ missed' = [d \in Client |-> IF d \in Saving \ {c}
                                 THEN missed[d] \cup {client[c].name} ELSE {}]
  /\ risked' = IF file'.st = "torn" THEN Name
               ELSE (risked \cup missed[c]) \ {client[c].name}
  /\ UNCHANGED <<refs, served, stops>>

\* opening the file fails: nothing has happened
OpenFails(c) ==
  /\ client[c].pc = "truncate"
  /\ client' = [client EXCEPT ![c] = NoClient]
  /\ missed' = [missed EXCEPT ![c] = {}]
  /\ UNCHANGED <<file, refs, served, stops, kept, risked>>

\* writing it fails, as on a full disk: what was truncated is not put back
WriteFails(c) ==
  /\ client[c].pc = "write"
  /\ file' \in {file, Torn}
  /\ client' = [client EXCEPT ![c] = NoClient]
  /\ missed' = [missed EXCEPT ![c] = {}]
  /\ risked' = Name
  /\ UNCHANGED <<refs, served, stops, kept>>

\* register_secret_ref logs in and posts the metadata, or answers
\* registered: false.  Deleting a secret leaves its row in the cerebro.
RegisterRef(c, ok) ==
  /\ client[c].pc = "register"
  /\ refs' = IF ok THEN refs \cup {client[c].name} ELSE refs
  /\ client' = [client EXCEPT ![c] = NoClient]
  /\ UNCHANGED <<file, served, stops, kept, missed, risked>>

\* the daemon is stopped and started again
Stop ==
  /\ stops < MaxStops
  /\ client' = [c \in Client |-> NoClient]
  /\ missed' = [c \in Client |-> {}]
  /\ risked' = IF Truncated THEN Name ELSE risked
  /\ stops' = stops + 1
  /\ UNCHANGED <<file, refs, served, kept>>

VaultNext ==
  \/ \E c \in Client :
       \/ \E n \in Name, v \in Secret \cup {NoSecret} : Request(c, n, v)
       \/ Change(c) \/ Truncate(c) \/ OpenFails(c) \/ WriteStore(c) \/ WriteFails(c)
       \/ \E ok \in BOOLEAN : RegisterRef(c, ok)
  \/ Stop

----------------------------------------------------------------------------
(* Properties.                                                             *)

\* What was put is there and what was deleted is not, name by name, however
\* the requests overlap, fail or are stopped, as long as the name is not at
\* risk.  A save puts the names at risk that other requests changed since it
\* loaded its copy; it puts all of them at risk if the file was unreadable or
\* truncated then, or if it is cut off or garbled itself.  Nothing else loses a
\* secret or brings a deleted one back, and a name at risk is safe again once
\* it is put or deleted.
SecretsKept ==
  Truncated \/ \A n \in Name \ risked : file.secrets[n] = kept[n]
=============================================================================
