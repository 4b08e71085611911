----------------------------- MODULE Enrollment -----------------------------
(***************************************************************************)
(* The daemon's roster: SharedState.clients and SharedState.psks, the two  *)
(* files they are saved in, and the admin handlers that change them        *)
(* (enroll_client and revoke_client).  A handler holds mutation_lock for   *)
(* the whole operation but awaits the disk in the middle of it, so admin   *)
(* requests, the 10 s handler timeout, crashes and power failures          *)
(* interleave with its steps.                                              *)
(*                                                                         *)
(* atomic_write(path) appears as two steps of its caller: the rename,      *)
(* which makes the new content visible, and the fsync of the directory,    *)
(* which makes it survive a power failure.  Each may fail.                 *)
(***************************************************************************)
EXTENDS FiniteSets

CONSTANTS Clients,    \* identities that may be enrolled
          Keys,       \* pre-shared keys, drawn by the CLI or given with --psk
          NoKey,      \* "no entry" in a PSK table
          Requests,   \* slots for concurrent admin connections
          Free        \* the lock's holder when nobody holds it

ASSUME NoKeyAssumption == NoKey \notin Keys
ASSUME FreeAssumption  == Free \notin Requests

VARIABLES
    running,      \* is the daemon process up?
    clients,      \* SharedState.clients: the identities with metadata
    psks,         \* SharedState.psks: identity -> key, or NoKey
    lock,         \* SharedState.mutation_lock: its holder
    pc,           \* where each admin request is
    job,          \* what each admin request asks for
    pskBuf,       \* the rendered psks file a request is writing
    clientsBuf,   \* the rendered clients.json a request is writing
    pskFile,      \* the psks file: what a read sees, what a power cut leaves
    clientsFile,  \* clients.json, likewise
    \* history, read by properties only
    acked,        \* client -> what its last operation that answered ok left
    unsettled,    \* clients with an operation begun and not answered ok
    enrolled,     \* the <<client, key>> whose enroll began since the client's
                  \* last acknowledged revoke
    dropped       \* clients whose revoke took them out of clients.json

memory == <<clients, psks, lock>>
buffers == <<pskBuf, clientsBuf>>
files == <<pskFile, clientsFile>>
history == <<acked, unsettled, enrolled, dropped>>
vars == <<running, memory, pc, job, buffers, files, history>>

-----------------------------------------------------------------------------
Phases == {"idle", "lock", "psk_rename", "psk_sync", "clients_rename", "clients_sync"}
Writing == Phases \ {"idle", "lock"}
WritingPsks == {"psk_rename", "psk_sync"}
WritingClients == {"clients_rename", "clients_sync"}

PskTables == [Clients -> Keys \cup {NoKey}]
PskLines == SUBSET (Clients \X Keys)     \* "identity:hex_psk" lines, in any order

NoJob == [op |-> "none"]
Jobs == [op : {"enroll"}, client : Clients, key : Keys]
          \cup [op : {"revoke"}, client : Clients]

\* A state file: the content that readers see, and the content that is known to
\* be on stable storage.  They differ between a rename and the directory's fsync.
File(content) == [seen |-> content, synced |-> content]

EmptyTable == [c \in Clients |-> NoKey]

\* PskStore::render: one line per entry.
Render(table) == {line \in Clients \X Keys : table[line[1]] = line[2]}

\* PskStore::parse: the table the lines describe.
Parse(lines) ==
    [c \in Clients |->
        IF \E k \in Keys : <<c, k>> \in lines
        THEN CHOOSE k \in Keys : <<c, k>> \in lines
        ELSE NoKey]

\* render_clients_doc without the identity to skip.
RenderClientsDoc(table, skip) == table \ skip

-----------------------------------------------------------------------------
Init ==
    /\ running = TRUE
    /\ clients = {}
    /\ psks = EmptyTable
    /\ lock = Free
    /\ pc = [r \in Requests |-> "idle"]
    /\ job = [r \in Requests |-> NoJob]
    /\ pskBuf = [r \in Requests |-> {}]
    /\ clientsBuf = [r \in Requests |-> {}]
    /\ pskFile = File({})
    /\ clientsFile = File({})
    /\ acked = EmptyTable
    /\ unsettled = {}
    /\ enrolled = {}
    /\ dropped = {}

\* Faulty variant: the lock's guard outlives the handler.
LeakLockOnReturn(r) ==
    /\ pc' = [pc EXCEPT ![r] = "idle"]
    /\ job' = [job EXCEPT ![r] = NoJob]
    /\ pskBuf' = [pskBuf EXCEPT ![r] = {}]
    /\ clientsBuf' = [clientsBuf EXCEPT ![r] = {}]
    /\ UNCHANGED lock

\* The handler of r returns: its guard releases the lock if it holds it.
ReleaseOnReturn(r) ==
    /\ pc' = [pc EXCEPT ![r] = "idle"]
    /\ job' = [job EXCEPT ![r] = NoJob]
    /\ pskBuf' = [pskBuf EXCEPT ![r] = {}]
    /\ clientsBuf' = [clientsBuf EXCEPT ![r] = {}]
    /\ lock' = IF lock = r THEN Free ELSE lock

-----------------------------------------------------------------------------
(* Requests arrive on the admin socket.                                      *)

SubmitEnroll(r, c, k) ==
    /\ running
    /\ pc[r] = "idle"
    /\ pc' = [pc EXCEPT ![r] = "lock"]
    /\ job' = [job EXCEPT ![r] = [op |-> "enroll", client |-> c, key |-> k]]
    /\ UNCHANGED <<running, memory, buffers, files, history>>

SubmitRevoke(r, c) ==
    /\ running
    /\ pc[r] = "idle"
    /\ pc' = [pc EXCEPT ![r] = "lock"]
    /\ job' = [job EXCEPT ![r] = [op |-> "revoke", client |-> c]]
    /\ UNCHANGED <<running, memory, buffers, files, history>>

-----------------------------------------------------------------------------
(* enroll_client and revoke_client, from the lock to the first await.        *)

\* ClientAlreadyEnrolled, UnknownClient: the lock is taken, the table looked
\* at, and the handler returns without an await.
Refused(r) ==
    \/ job[r].op = "enroll" /\ job[r].client \in clients
    \/ job[r].op = "revoke" /\ job[r].client \notin clients

Refuse(r) ==
    /\ pc[r] = "lock" /\ lock = Free
    /\ Refused(r)
    /\ ReleaseOnReturn(r)
    /\ UNCHANGED <<running, clients, psks, files, history>>

\* Faulty variant: the duplicate check and the inserts do not wait for the lock.
EnrollWithoutLock(r) ==
    LET c == job[r].client IN
    /\ pc[r] = "lock"
    /\ job[r].op = "enroll" /\ ~Refused(r)
    /\ lock' = r
    /\ clients' = clients \cup {c}
    /\ psks' = [psks EXCEPT ![c] = job[r].key]
    /\ pskBuf' = [pskBuf EXCEPT ![r] = Render(psks')]
    /\ pc' = [pc EXCEPT ![r] = "psk_rename"]
    /\ unsettled' = unsettled \cup {c}
    /\ enrolled' = enrolled \cup {<<c, job[r].key>>}
    /\ dropped' = dropped \ {c}
    /\ UNCHANGED <<running, job, clientsBuf, files, acked>>

\* Both in-memory inserts, then the PSK file is rendered and its write begins.
EnrollBegin(r) ==
    LET c == job[r].client IN
    /\ pc[r] = "lock" /\ lock = Free
    /\ job[r].op = "enroll" /\ ~Refused(r)
    /\ lock' = r
    /\ clients' = clients \cup {c}
    /\ psks' = [psks EXCEPT ![c] = job[r].key]
    /\ pskBuf' = [pskBuf EXCEPT ![r] = Render(psks')]
    /\ pc' = [pc EXCEPT ![r] = "psk_rename"]
    /\ unsettled' = unsettled \cup {c}
    /\ enrolled' = enrolled \cup {<<c, job[r].key>>}
    /\ dropped' = dropped \ {c}
    /\ UNCHANGED <<running, job, clientsBuf, files, acked>>

\* clients.json is rendered without the revoked entry; memory stays as it is.
RevokeBegin(r) ==
    LET c == job[r].client IN
    /\ pc[r] = "lock" /\ lock = Free
    /\ job[r].op = "revoke" /\ ~Refused(r)
    /\ lock' = r
    /\ clientsBuf' = [clientsBuf EXCEPT ![r] = RenderClientsDoc(clients, {c})]
    /\ pc' = [pc EXCEPT ![r] = "clients_rename"]
    /\ unsettled' = unsettled \cup {c}
    /\ UNCHANGED <<running, clients, psks, job, pskBuf, files, acked, enrolled, dropped>>

-----------------------------------------------------------------------------
(* atomic_write.                                                             *)

RenamePsks(r) ==
    /\ pc[r] = "psk_rename"
    /\ pskFile' = [pskFile EXCEPT !.seen = pskBuf[r]]
    /\ pc' = [pc EXCEPT ![r] = "psk_sync"]
    /\ UNCHANGED <<running, memory, job, buffers, clientsFile, history>>

RenameClients(r) ==
    /\ pc[r] = "clients_rename"
    /\ clientsFile' = [clientsFile EXCEPT !.seen = clientsBuf[r]]
    /\ pc' = [pc EXCEPT ![r] = "clients_sync"]
    /\ UNCHANGED <<running, memory, job, buffers, pskFile, history>>

\* The psks file is durable.  An enroll goes on to clients.json; a revoke removes
\* the client from memory and answers ok.
SyncPsks(r) ==
    LET c == job[r].client IN
    /\ pc[r] = "psk_sync"
    /\ pskFile' = [pskFile EXCEPT !.synced = pskFile.seen]
    /\ \/ /\ job[r].op = "enroll"
          /\ clientsBuf' = [clientsBuf EXCEPT ![r] = RenderClientsDoc(clients, {})]
          /\ pc' = [pc EXCEPT ![r] = "clients_rename"]
          /\ UNCHANGED <<clients, lock, job, pskBuf, acked, unsettled, enrolled>>
       \/ /\ job[r].op = "revoke"
          /\ clients' = clients \ {c}
          /\ acked' = [acked EXCEPT ![c] = NoKey]
          /\ unsettled' = unsettled \ {c}
          /\ enrolled' = enrolled \ ({c} \X Keys)
          /\ ReleaseOnReturn(r)
    /\ UNCHANGED <<running, psks, clientsFile, dropped>>

\* Faulty variant: a revoke renders the psks file before it removes the key.
RenderBeforeRemove(r) ==
    LET c == job[r].client IN
    /\ pc[r] = "clients_sync"
    /\ clientsFile' = [clientsFile EXCEPT !.synced = clientsFile.seen]
    /\ \/ /\ job[r].op = "enroll"
          /\ acked' = [acked EXCEPT ![c] = job[r].key]
          /\ unsettled' = unsettled \ {c}
          /\ ReleaseOnReturn(r)
          /\ UNCHANGED <<psks, dropped>>
       \/ /\ job[r].op = "revoke"
          /\ psks' = [psks EXCEPT ![c] = NoKey]
          /\ pskBuf' = [pskBuf EXCEPT ![r] = Render(psks)]
          /\ pc' = [pc EXCEPT ![r] = "psk_rename"]
          /\ dropped' = dropped \cup {c}
          /\ UNCHANGED <<lock, job, clientsBuf, acked, unsettled>>
    /\ UNCHANGED <<running, clients, pskFile, enrolled>>

\* clients.json is durable.  An enroll commits its rollback guard and answers
\* ok; a revoke removes the key from memory and goes on to the psks file.
SyncClients(r) ==
    LET c == job[r].client IN
    /\ pc[r] = "clients_sync"
    /\ clientsFile' = [clientsFile EXCEPT !.synced = clientsFile.seen]
    /\ \/ /\ job[r].op = "enroll"
          /\ acked' = [acked EXCEPT ![c] = job[r].key]
          /\ unsettled' = unsettled \ {c}
          /\ ReleaseOnReturn(r)
          /\ UNCHANGED <<psks, dropped>>
       \/ /\ job[r].op = "revoke"
          /\ psks' = [psks EXCEPT ![c] = NoKey]
          /\ pskBuf' = [pskBuf EXCEPT ![r] = Render(psks')]
          /\ pc' = [pc EXCEPT ![r] = "psk_rename"]
          /\ dropped' = dropped \cup {c}
          /\ UNCHANGED <<lock, job, clientsBuf, acked, unsettled>>
    /\ UNCHANGED <<running, clients, pskFile, enrolled>>

-----------------------------------------------------------------------------
(* Failure of one step of several.                                           *)

\* Faulty variant: the guard clears the tables instead of removing its own entry.
RollbackEverything(r) ==
    IF job[r].op = "enroll"
    THEN /\ clients' = {}
         /\ psks' = EmptyTable
    ELSE UNCHANGED <<clients, psks>>

\* Faulty variant: the guard forgets the key.
RollbackKeepsKey(r) ==
    /\ clients' = IF job[r].op = "enroll" THEN clients \ {job[r].client} ELSE clients
    /\ UNCHANGED psks

\* What an early return or a dropped future leaves in memory: the Rollback guard
\* of enroll_client removes both entries, revoke_client has no such guard.
Rollback(r) ==
    IF job[r].op = "enroll"
    THEN /\ clients' = clients \ {job[r].client}
         /\ psks' = [psks EXCEPT ![job[r].client] = NoKey]
    ELSE UNCHANGED <<clients, psks>>

\* atomic_write returns Err: before the rename nothing of it is visible, after
\* it (the directory's fsync failed) the new content is.
WriteFails(r) ==
    /\ pc[r] \in Writing
    /\ Rollback(r)
    /\ ReleaseOnReturn(r)
    /\ UNCHANGED <<running, files, history>>

\* The handler's timeout drops its future.  A rename that was under way may
\* have taken effect.
Timeout(r) ==
    /\ pc[r] # "idle"
    /\ IF pc[r] \in Writing THEN Rollback(r) ELSE UNCHANGED <<clients, psks>>
    /\ \/ UNCHANGED files
       \/ /\ pc[r] = "psk_rename"
          /\ pskFile' = [pskFile EXCEPT !.seen = pskBuf[r]]
          /\ UNCHANGED clientsFile
       \/ /\ pc[r] = "clients_rename"
          /\ clientsFile' = [clientsFile EXCEPT !.seen = clientsBuf[r]]
          /\ UNCHANGED pskFile
    /\ ReleaseOnReturn(r)
    /\ UNCHANGED <<running, history>>

\* The process dies: everything but the files is lost.
Stop ==
    /\ running' = FALSE
    /\ clients' = {}
    /\ psks' = EmptyTable
    /\ lock' = Free
    /\ pc' = [r \in Requests |-> "idle"]
    /\ job' = [r \in Requests |-> NoJob]
    /\ pskBuf' = [r \in Requests |-> {}]
    /\ clientsBuf' = [r \in Requests |-> {}]
    /\ UNCHANGED history

Crash ==
    /\ running
    /\ Stop
    /\ UNCHANGED files

\* After a power failure a rename that was not followed by the directory's fsync
\* may be undone, in each file independently.
PowerLoss ==
    /\ Stop
    /\ \E content \in {pskFile.seen, pskFile.synced} : pskFile' = File(content)
    /\ \E content \in {clientsFile.seen, clientsFile.synced} : clientsFile' = File(content)

\* Acquired::acquire: both files are read back.
Start ==
    /\ ~running
    /\ running' = TRUE
    /\ clients' = clientsFile.seen
    /\ psks' = Parse(pskFile.seen)
    /\ UNCHANGED <<lock, pc, job, buffers, files, history>>

-----------------------------------------------------------------------------
Step(r) ==
    \/ Refuse(r)
    \/ EnrollBegin(r)
    \/ RevokeBegin(r)
    \/ RenamePsks(r)
    \/ RenameClients(r)
    \/ SyncPsks(r)
    \/ SyncClients(r)
    \/ WriteFails(r)
    \/ Timeout(r)

Next ==
    \/ \E r \in Requests, c \in Clients, k \in Keys : SubmitEnroll(r, c, k)
    \/ \E r \in Requests, c \in Clients : SubmitRevoke(r, c)
    \/ \E r \in Requests : Step(r)
    \/ Crash
    \/ PowerLoss
    \/ Start

Spec == Init /\ [][Next]_vars

-----------------------------------------------------------------------------
(* What the wire path asks of the roster: Step::NeedPsk gives the real key   *)
(* only to an identity that has both a key and metadata.                     *)
Authorised(c, k) == c \in clients /\ psks[c] = k

(***************************************************************************)
(* Properties                                                              *)
(***************************************************************************)

\* Every variable has its type, and mutation_lock is held exactly by the request
\* that is between the first and the last write of enroll_client/revoke_client.
TypeOK ==
    /\ running \in BOOLEAN
    /\ clients \in SUBSET Clients
    /\ psks \in PskTables
    /\ lock \in Requests \cup {Free}
    /\ pc \in [Requests -> Phases]
    /\ job \in [Requests -> Jobs \cup {NoJob}]
    /\ pskBuf \in [Requests -> PskLines]
    /\ clientsBuf \in [Requests -> SUBSET Clients]
    /\ pskFile \in [seen : PskLines, synced : PskLines]
    /\ clientsFile \in [seen : SUBSET Clients, synced : SUBSET Clients]
    /\ acked \in PskTables
    /\ unsettled \in SUBSET Clients
    /\ enrolled \in PskLines
    /\ dropped \in SUBSET Clients
    /\ \A r \in Requests : pc[r] \in Writing <=> lock = r

\* A client none of whose operations failed or is under way is exactly what its
\* last acknowledged operation made it: in memory, in the files, and in what a
\* power failure would leave of the files.  In particular an acknowledged enroll
\* is durable and no operation on one client ever disturbs another.
SettledDurable ==
    \A c \in Clients \ unsettled :
        /\ running => /\ c \in clients <=> acked[c] # NoKey
                      /\ psks[c] = acked[c]
        /\ \A view \in {pskFile.seen, pskFile.synced}, k \in Keys :
               <<c, k>> \in view <=> acked[c] = k
        /\ \A view \in {clientsFile.seen, clientsFile.synced} :
               c \in view <=> acked[c] # NoKey

\* Once revoke_client has answered ok, no key of the client is in the key table or in
\* any state of the psks file that a restart could read, until an enroll with that
\* very key begins: whatever fails or crashes afterwards, an enroll with another key
\* does not bring an old one back.  Keys may be used again and shared (--psk).
RevokedKeysGone ==
    Render(psks) \cup pskFile.seen \cup pskFile.synced \subseteq enrolled

\* revoke_client's comment: once clients.json is written without the client, the
\* key that a failed second write leaves in the psks file "is harmless
\* (unreachable on next start because clients.json no longer carries the
\* identity)".  So until it is enrolled again the client is never authorised.
NoResurrection ==
    \A c \in dropped, k \in Keys : ~Authorised(c, k)

\* The roster, with its files, its lock and its failures, implements the abstract
\* one: the wire path never sees an operation disturb a client it is not about,
\* and every restart brings the acknowledged roster back.
AbstractRoster ==
    INSTANCE Roster WITH
        up   <- running,
        auth <- [c \in Clients |-> IF c \in clients THEN psks[c] ELSE NoKey]
ImplementsRoster == AbstractRoster!Spec

\* The two tables change in memory as Session takes for granted: while the daemon is
\* up, only by a whole insert for a client without metadata, by the removal of a key
\* and by the removal of a client.
SharedTables == INSTANCE Tables WITH up <- running
ImplementsTables == SharedTables!Spec

\* revoke_client's comment holds of a revoke that answered ok: until it is enrolled
\* again the client is not authorised, whatever fails or restarts.
NoResurrectionOnceAcked ==
    \A c \in dropped \ unsettled, k \in Keys : ~Authorised(c, k)
=============================================================================
