-------------------------- MODULE EnrollmentProofs --------------------------
(***************************************************************************)
(* Enrollment's invariants and its refinement of Roster and of Tables,     *)
(* proved for every set of clients, keys and admin requests.               *)
(***************************************************************************)
EXTENDS Enrollment, TLAPS

-----------------------------------------------------------------------------
(* The inductive invariant.                                                  *)

\* A process that is down holds nothing.
Down ==
    ~running => /\ clients = {}
                /\ psks = EmptyTable
                /\ \A r \in Requests : pc[r] = "idle"

\* The request that holds the lock: what it is writing is what is in memory, and
\* the file it wrote first is durable by the time it writes the second one.
Holder(r) ==
    LET c == job[r].client IN
    pc[r] \in Writing =>
        /\ c \in clients
        /\ c \in unsettled
        /\ pc[r] \in WritingPsks => pskBuf[r] = Render(psks)
        /\ pc[r] = "psk_sync" => pskFile.seen = Render(psks)
        /\ pc[r] = "clients_sync" => clientsFile.seen = clientsBuf[r]
        /\ job[r].op = "enroll" =>
              /\ psks[c] = job[r].key
              /\ pc[r] \in WritingClients =>
                    /\ clientsBuf[r] = clients
                    /\ pskFile = File(Render(psks))
        /\ job[r].op = "revoke" =>
              /\ pc[r] \in WritingClients => clientsBuf[r] = clients \ {c}
              /\ pc[r] \in WritingPsks =>
                    /\ psks[c] = NoKey
                    /\ clientsFile = File(clients \ {c})

\* Requests in progress have a job.
Pending(r) == pc[r] # "idle" => job[r] \in Jobs

IInv ==
    /\ TypeOK
    /\ Down
    /\ \A r \in Requests : Holder(r)
    /\ \A r \in Requests : Pending(r)
    /\ SettledDurable
    /\ RevokedKeysGone

-----------------------------------------------------------------------------
(* The two conversions between a key table and the lines of its file.        *)

LEMMA RenderType ==
    ASSUME NEW table \in PskTables
    PROVE  Render(table) \in PskLines
BY DEF Render, PskLines

\* A line is rendered exactly for what the table holds.
LEMMA RenderLine ==
    ASSUME NEW table \in PskTables, NEW c \in Clients, NEW k \in Keys
    PROVE  <<c, k>> \in Render(table) <=> table[c] = k
BY DEF Render

LEMMA ParseType ==
    ASSUME NEW lines \in PskLines
    PROVE  Parse(lines) \in PskTables
BY DEF Parse, PskTables, PskLines

\* A key that parse finds for a client stands in a line.
LEMMA ParseLine ==
    ASSUME NEW lines \in PskLines, NEW c \in Clients, NEW k \in Keys, Parse(lines)[c] = k
    PROVE  <<c, k>> \in lines
BY NoKeyAssumption DEF Parse

\* Lines that say exactly one thing about a client are parsed to just that.
LEMMA ParseExact ==
    ASSUME NEW lines \in PskLines, NEW c \in Clients, NEW v \in Keys \cup {NoKey},
           \A k \in Keys : <<c, k>> \in lines <=> v = k
    PROVE  Parse(lines)[c] = v
BY NoKeyAssumption DEF Parse

\* What the code may rely on about a request that is not idle.
LEMMA JobFacts ==
    ASSUME NEW j \in Jobs
    PROVE  /\ j.client \in Clients
           /\ j.op \in {"enroll", "revoke"}
           /\ j.op = "enroll" => j.key \in Keys
           /\ j # NoJob
BY DEF Jobs, NoJob

\* A step that adds no key to the table and nothing new to the psks file adds no
\* revoked key.
LEMMA NoKeyAdded ==
    ASSUME TypeOK, RevokedKeysGone, enrolled' = enrolled,
           \A c \in Clients : psks'[c] \in {psks[c], NoKey},
           pskFile'.seen \subseteq Render(psks) \cup pskFile.seen \cup pskFile.synced,
           pskFile'.synced \subseteq pskFile.seen \cup pskFile.synced
    PROVE  RevokedKeysGone'
<1>1. Render(psks') \subseteq Render(psks)
  BY NoKeyAssumption DEF Render
<1> QED
  BY <1>1 DEF RevokedKeysGone

-----------------------------------------------------------------------------
LEMMA InitIInv == Init => IInv
<1> SUFFICES ASSUME Init PROVE IInv
  OBVIOUS
<1> USE DEF Init
<1>1. TypeOK
  BY FreeAssumption DEF TypeOK, EmptyTable, PskTables, PskLines, Phases, Writing, File
<1>2. Down
  BY DEF Down
<1>3. \A r \in Requests : Holder(r) /\ Pending(r)
  BY DEF Holder, Pending, Writing
<1>4. SettledDurable
  BY NoKeyAssumption DEF SettledDurable, EmptyTable, File
<1>5. RevokedKeysGone
  BY NoKeyAssumption DEF RevokedKeysGone, Render, EmptyTable, File
<1> QED
  BY <1>1, <1>2, <1>3, <1>4, <1>5 DEF IInv

LEMMA SubmitEnrollIInv ==
    ASSUME IInv, NEW r \in Requests, NEW c \in Clients, NEW k \in Keys, SubmitEnroll(r, c, k)
    PROVE  IInv'
<1> USE DEF SubmitEnroll, memory, buffers, files, history
<1>1. TypeOK'
  BY DEF IInv, TypeOK, Phases, Writing, Jobs, PskLines
<1>2. Down'
  BY DEF IInv, Down
<1>3. \A s \in Requests : Holder(s)'
  BY DEF IInv, TypeOK, Holder, Writing, WritingPsks, WritingClients, Phases
<1>4. \A s \in Requests : Pending(s)'
  BY DEF IInv, TypeOK, Pending, Jobs, PskLines
<1>5. SettledDurable'
  BY DEF IInv, SettledDurable
<1>6. RevokedKeysGone'
  BY NoKeyAdded DEF IInv
<1> QED
  BY <1>1, <1>2, <1>3, <1>4, <1>5, <1>6 DEF IInv

LEMMA EnrollBeginIInv ==
    ASSUME IInv, NEW r \in Requests, EnrollBegin(r)
    PROVE  IInv'
<1> DEFINE c == job[r].client
<1> USE DEF EnrollBegin, files
<1>0. /\ c \in Clients /\ job[r].key \in Keys
      /\ job[r] \in Jobs
      /\ running
  BY JobFacts DEF IInv, Pending, Down
<1>1. psks' \in PskTables /\ Render(psks') \in PskLines /\ enrolled' \in PskLines
  <2>1. psks' \in PskTables
    BY <1>0 DEF IInv, TypeOK, PskTables
  <2>2. enrolled' \in PskLines
    BY <1>0 DEF IInv, TypeOK, PskLines
  <2> QED
    BY <2>1, <2>2, RenderType
<1>2. TypeOK'
  BY <1>0, <1>1, FreeAssumption DEF IInv, TypeOK, Phases, Writing
<1>3. Down'
  BY <1>0 DEF IInv, Down
<1>4. \A s \in Requests : Holder(s)'
  BY <1>0, FreeAssumption DEF IInv, TypeOK, Holder, Writing, WritingPsks, WritingClients, Phases, PskTables
<1>5. \A s \in Requests : Pending(s)'
  BY <1>0 DEF IInv, TypeOK, Pending
<1>6. SettledDurable'
  BY <1>0 DEF IInv, TypeOK, SettledDurable, PskTables
<1>7. RevokedKeysGone'
  <2>1. Render(psks') \subseteq Render(psks) \cup {<<c, job[r].key>>}
    BY <1>0 DEF IInv, TypeOK, PskTables, Render
  <2> QED
    BY <2>1 DEF IInv, RevokedKeysGone
<1> QED
  BY <1>2, <1>3, <1>4, <1>5, <1>6, <1>7 DEF IInv

LEMMA SubmitRevokeIInv ==
    ASSUME IInv, NEW r \in Requests, NEW c \in Clients, SubmitRevoke(r, c)
    PROVE  IInv'
<1> USE DEF SubmitRevoke, memory, buffers, files, history
<1>1. TypeOK'
  BY DEF IInv, TypeOK, Phases, Writing, Jobs
<1>2. Down'
  BY DEF IInv, Down
<1>3. \A s \in Requests : Holder(s)'
  BY DEF IInv, TypeOK, Holder, Writing, WritingPsks, WritingClients, Phases
<1>4. \A s \in Requests : Pending(s)'
  BY DEF IInv, TypeOK, Pending, Jobs
<1>5. SettledDurable'
  BY DEF IInv, SettledDurable
<1>6. RevokedKeysGone'
  BY NoKeyAdded DEF IInv
<1> QED
  BY <1>1, <1>2, <1>3, <1>4, <1>5, <1>6 DEF IInv

LEMMA RefuseIInv ==
    ASSUME IInv, NEW r \in Requests, Refuse(r)
    PROVE  IInv'
<1> USE DEF Refuse, ReleaseOnReturn, files, history
<1>1. TypeOK'
  BY FreeAssumption DEF IInv, TypeOK, Phases, Writing, PskLines
<1>2. Down'
  BY DEF IInv, TypeOK, Down
<1>3. \A s \in Requests : Holder(s)'
  BY DEF IInv, TypeOK, Holder, Writing, WritingPsks, WritingClients, Phases
<1>4. \A s \in Requests : Pending(s)'
  BY DEF IInv, TypeOK, Pending
<1>5. SettledDurable'
  BY DEF IInv, SettledDurable
<1>6. RevokedKeysGone'
  BY NoKeyAdded DEF IInv
<1> QED
  BY <1>1, <1>2, <1>3, <1>4, <1>5, <1>6 DEF IInv

LEMMA RevokeBeginIInv ==
    ASSUME IInv, NEW r \in Requests, RevokeBegin(r)
    PROVE  IInv'
<1> USE DEF RevokeBegin, files, RenderClientsDoc
<1>0. job[r].client \in Clients /\ job[r] \in Jobs /\ running
  BY JobFacts DEF IInv, Pending, Down
<1>1. TypeOK'
  BY <1>0, FreeAssumption DEF IInv, TypeOK, Phases, Writing
<1>2. Down'
  BY <1>0 DEF IInv, Down
<1>3. \A s \in Requests : Holder(s)'
  BY <1>0, FreeAssumption
  DEF IInv, TypeOK, Holder, Refused, Writing, WritingPsks, WritingClients, Phases
<1>4. \A s \in Requests : Pending(s)'
  BY <1>0 DEF IInv, TypeOK, Pending
<1>5. SettledDurable'
  BY DEF IInv, SettledDurable
<1>6. RevokedKeysGone'
  BY NoKeyAdded DEF IInv
<1> QED
  BY <1>1, <1>2, <1>3, <1>4, <1>5, <1>6 DEF IInv

\* Whoever holds the lock is alone: no other request is writing.
LEMMA HolderAlone ==
    ASSUME TypeOK, NEW r \in Requests, pc[r] \in Writing
    PROVE  lock = r /\ \A s \in Requests \ {r} : pc[s] \notin Writing
BY DEF TypeOK

LEMMA RenamePsksIInv ==
    ASSUME IInv, NEW r \in Requests, RenamePsks(r)
    PROVE  IInv'
<1> USE DEF RenamePsks, memory, buffers, history
<1>0. /\ pc[r] \in Writing /\ running /\ pskBuf[r] = Render(psks)
      /\ lock = r /\ \A s \in Requests \ {r} : pc[s] \notin Writing
  BY HolderAlone DEF IInv, Holder, Down, Writing, WritingPsks, Phases
<1>1. TypeOK'
  BY <1>0 DEF IInv, TypeOK, Phases, Writing
<1>2. Down'
  BY <1>0 DEF IInv, Down
<1>3. \A s \in Requests : Holder(s)'
  BY <1>0 DEF IInv, TypeOK, Holder, Writing, WritingPsks, WritingClients, Phases
<1>4. \A s \in Requests : Pending(s)'
  BY DEF IInv, TypeOK, Pending
<1>5. SettledDurable'
  <2>1. \A c \in Clients \ unsettled, k \in Keys : <<c, k>> \in Render(psks) <=> acked[c] = k
    BY <1>0, RenderLine DEF IInv, TypeOK, SettledDurable
  <2> QED
    BY <1>0, <2>1 DEF IInv, TypeOK, SettledDurable
<1>6. RevokedKeysGone'
  BY <1>0, NoKeyAdded DEF IInv, TypeOK
<1> QED
  BY <1>1, <1>2, <1>3, <1>4, <1>5, <1>6 DEF IInv

LEMMA RenameClientsIInv ==
    ASSUME IInv, NEW r \in Requests, RenameClients(r)
    PROVE  IInv'
<1> USE DEF RenameClients, memory, buffers, history
<1>0. /\ pc[r] \in Writing /\ running /\ job[r].op \in {"enroll", "revoke"}
      /\ job[r].client \in unsettled
      /\ clientsBuf[r] \in {clients, clients \ {job[r].client}}
      /\ lock = r /\ \A s \in Requests \ {r} : pc[s] \notin Writing
  BY HolderAlone, JobFacts DEF IInv, Holder, Down, Pending, Writing, WritingClients, Phases
<1>1. TypeOK'
  BY <1>0 DEF IInv, TypeOK, Phases, Writing
<1>2. Down'
  BY <1>0 DEF IInv, Down
<1>3. \A s \in Requests : Holder(s)'
  BY <1>0 DEF IInv, TypeOK, Holder, Writing, WritingPsks, WritingClients, Phases
<1>4. \A s \in Requests : Pending(s)'
  BY DEF IInv, TypeOK, Pending
<1>5. SettledDurable'
  BY <1>0 DEF IInv, TypeOK, SettledDurable
<1>6. RevokedKeysGone'
  BY NoKeyAdded DEF IInv
<1> QED
  BY <1>1, <1>2, <1>3, <1>4, <1>5, <1>6 DEF IInv

LEMMA SyncPsksIInv ==
    ASSUME IInv, NEW r \in Requests, SyncPsks(r)
    PROVE  IInv'
<1> DEFINE c == job[r].client
<1> USE DEF SyncPsks, RenderClientsDoc
<1>0. /\ pc[r] \in Writing /\ running /\ c \in Clients /\ job[r] \in Jobs
      /\ pskFile.seen = Render(psks) /\ pskFile'.seen = Render(psks) /\ pskFile'.synced = Render(psks)
      /\ pskFile' = File(Render(psks))
      /\ lock = r /\ \A s \in Requests \ {r} : pc[s] \notin Writing
  BY HolderAlone, JobFacts
  DEF IInv, TypeOK, Holder, Down, Pending, Writing, WritingPsks, Phases, File
<1>1. \A d \in Clients, k \in Keys : <<d, k>> \in Render(psks) <=> psks[d] = k
  BY RenderLine DEF IInv, TypeOK
<1>2. Render(psks) \in PskLines
  BY RenderType DEF IInv, TypeOK
<1>3. CASE job[r].op = "enroll"
  <2> USE <1>3
  <2>1. TypeOK'
    BY <1>0, <1>2 DEF IInv, TypeOK, Phases, Writing
  <2>2. Down'
    BY <1>0 DEF IInv, Down
  <2>3. ASSUME NEW s \in Requests PROVE Holder(s)'
    <3>1. CASE s = r
      <4>0. clients \ {} = clients
        OBVIOUS
      <4>1. /\ c \in clients' /\ c \in unsettled' /\ psks'[c] = job'[r].key
            /\ pc'[r] = "clients_rename" /\ clientsBuf'[r] = clients' /\ psks' = psks
            /\ job'[r] = job[r]
        BY <1>0, <4>0 DEF IInv, TypeOK, Holder
      <4>2. pskFile' = File(Render(psks'))
        BY <1>0, <4>1
      <4> HIDE DEF SyncPsks
      <4> QED
        BY <3>1, <4>1, <4>2 DEF Holder, WritingPsks
    <3>2. CASE s # r
      BY <1>0, <3>2 DEF IInv, TypeOK, Holder
    <3> QED
      BY <3>1, <3>2
  <2>4. \A s \in Requests : Pending(s)'
    BY DEF IInv, TypeOK, Pending
  <2>5. SettledDurable'
    BY <1>0, <1>1 DEF IInv, SettledDurable
  <2>6. RevokedKeysGone'
    BY <1>0, NoKeyAdded DEF IInv, TypeOK
  <2> QED
    BY <2>1, <2>2, <2>3, <2>4, <2>5, <2>6 DEF IInv
<1>4. CASE job[r].op = "revoke"
  <2> USE <1>4 DEF ReleaseOnReturn
  <2>0. psks[c] = NoKey /\ clientsFile = File(clients \ {c})
    BY <1>0 DEF IInv, Holder, WritingPsks
  <2>1. TypeOK'
    BY <1>0, <1>2, FreeAssumption DEF IInv, TypeOK, Phases, Writing, PskTables, PskLines
  <2>2. Down'
    BY <1>0 DEF IInv, Down
  <2>3. \A s \in Requests : Holder(s)'
    BY <1>0 DEF IInv, TypeOK, Holder, Writing, WritingPsks, WritingClients, Phases
  <2>4. \A s \in Requests : Pending(s)'
    BY DEF IInv, TypeOK, Pending
  <2>5. SettledDurable'
    BY <1>0, <1>1, <2>0, NoKeyAssumption DEF IInv, TypeOK, SettledDurable, PskTables, File
  <2>6. RevokedKeysGone'
    <3>1. Render(psks) \subseteq enrolled /\ \A p \in Render(psks) : p \notin {c} \X Keys
      BY <1>1, <2>0, NoKeyAssumption DEF IInv, RevokedKeysGone, Render
    <3> QED
      BY <1>0, <3>1 DEF RevokedKeysGone
  <2> QED
    BY <2>1, <2>2, <2>3, <2>4, <2>5, <2>6 DEF IInv
<1> QED
  BY <1>0, <1>3, <1>4, JobFacts

LEMMA SyncClientsIInv ==
    ASSUME IInv, NEW r \in Requests, SyncClients(r)
    PROVE  IInv'
<1> DEFINE c == job[r].client
<1> USE DEF SyncClients
<1>0. /\ pc[r] \in Writing /\ running /\ c \in Clients /\ job[r] \in Jobs
      /\ c \in clients /\ c \in unsettled
      /\ clientsFile' = File(clientsBuf[r])
      /\ lock = r /\ \A s \in Requests \ {r} : pc[s] \notin Writing
  BY HolderAlone, JobFacts
  DEF IInv, TypeOK, Holder, Down, Pending, Writing, WritingClients, Phases, File
<1>1. CASE job[r].op = "enroll"
  <2> USE <1>1 DEF ReleaseOnReturn
  <2>0. /\ psks[c] = job[r].key /\ job[r].key \in Keys
        /\ clientsBuf[r] = clients /\ pskFile = File(Render(psks))
    BY <1>0, JobFacts DEF IInv, Holder, WritingClients
  <2>1. TypeOK'
    BY <1>0, <2>0, FreeAssumption DEF IInv, TypeOK, Phases, Writing, PskTables, PskLines, File
  <2>2. Down'
    BY <1>0 DEF IInv, Down
  <2>3. \A s \in Requests : Holder(s)'
    BY <1>0 DEF IInv, TypeOK, Holder, Writing, WritingPsks, WritingClients, Phases
  <2>4. \A s \in Requests : Pending(s)'
    BY DEF IInv, TypeOK, Pending
  <2>5. SettledDurable'
    <3>1. \A d \in Clients, k \in Keys : <<d, k>> \in Render(psks) <=> psks[d] = k
      BY RenderLine DEF IInv, TypeOK
    <3>2. \A d \in Clients \ unsettled' :
              (d \in clients <=> acked'[d] # NoKey) /\ psks[d] = acked'[d]
      BY <1>0, <2>0, NoKeyAssumption DEF IInv, TypeOK, SettledDurable, PskTables
    <3> QED
      BY <1>0, <2>0, <3>1, <3>2 DEF SettledDurable, File
  <2>6. RevokedKeysGone'
    BY NoKeyAdded DEF IInv
  <2> QED
    BY <2>1, <2>2, <2>3, <2>4, <2>5, <2>6 DEF IInv
<1>2. CASE job[r].op = "revoke"
  <2> USE <1>2
  <2>0. clientsBuf[r] = clients \ {c}
    BY <1>0 DEF IInv, Holder, WritingClients
  <2>1. psks' \in PskTables /\ Render(psks') \in PskLines
    BY <1>0, RenderType DEF IInv, TypeOK, PskTables
  <2>2. TypeOK'
    BY <1>0, <2>0, <2>1 DEF IInv, TypeOK, Phases, Writing, File
  <2>3. Down'
    BY <1>0 DEF IInv, Down
  <2>4. ASSUME NEW s \in Requests PROVE Holder(s)'
    <3>1. CASE s = r
      <4>1. /\ c \in clients' /\ c \in unsettled' /\ psks'[c] = NoKey
            /\ pc'[r] = "psk_rename" /\ pskBuf'[r] = Render(psks')
            /\ job'[r] = job[r] /\ clientsFile' = File(clients' \ {c})
        BY <1>0, <2>0 DEF IInv, TypeOK, PskTables
      <4> QED
        BY <3>1, <4>1 DEF Holder, WritingClients
    <3>2. CASE s # r
      BY <1>0, <3>2 DEF IInv, TypeOK, Holder
    <3> QED
      BY <3>1, <3>2
  <2>5. \A s \in Requests : Pending(s)'
    BY DEF IInv, TypeOK, Pending
  <2>6. SettledDurable'
    <3>1. \A d \in Clients \ unsettled : d # c /\ psks'[d] = psks[d]
      BY <1>0 DEF IInv, TypeOK, PskTables
    <3> QED
      BY <1>0, <2>0, <3>1 DEF IInv, SettledDurable, File
  <2>7. RevokedKeysGone'
    BY <1>0, NoKeyAdded DEF IInv, TypeOK, PskTables
  <2> QED
    BY <2>2, <2>3, <2>4, <2>5, <2>6, <2>7 DEF IInv
<1> QED
  BY <1>0, <1>1, <1>2, JobFacts

\* What every early return of a handler that holds the lock, or a dropped future
\* of one, does to the tables: at most its own client, which is unsettled, changes.
LEMMA RollbackFacts ==
    ASSUME IInv, NEW r \in Requests, pc[r] \in Writing, Rollback(r)
    PROVE  /\ clients' \in SUBSET Clients
           /\ psks' \in PskTables
           /\ \A d \in Clients \ unsettled : (d \in clients' <=> d \in clients) /\ psks'[d] = psks[d]
           /\ \A d \in Clients : psks'[d] \in {psks[d], NoKey}
<1>1. job[r].client \in Clients /\ job[r].client \in unsettled
  BY JobFacts DEF IInv, Holder, Pending, Writing
<1>2. CASE job[r].op = "enroll"
  BY <1>1, <1>2 DEF IInv, Rollback, TypeOK, PskTables
<1>3. CASE job[r].op # "enroll"
  BY <1>3 DEF IInv, Rollback, TypeOK, PskTables
<1> QED
  BY <1>2, <1>3

\* A request that leaves takes nothing of the others with it.
LEMMA ReturnFacts ==
    ASSUME IInv, NEW r \in Requests, ReleaseOnReturn(r),
           pc[r] \in Writing \/ UNCHANGED <<clients, psks>>,
           UNCHANGED <<running, history>>,
           pc[r] \notin Writing => UNCHANGED files
    PROVE  /\ lock' \in Requests \cup {Free}
           /\ pc' \in [Requests -> Phases]
           /\ job' \in [Requests -> Jobs \cup {NoJob}]
           /\ pskBuf' \in [Requests -> PskLines]
           /\ clientsBuf' \in [Requests -> SUBSET Clients]
           /\ \A s \in Requests : pc'[s] \in Writing <=> lock' = s
           /\ \A s \in Requests : Holder(s)'
           /\ \A s \in Requests : Pending(s)'
<1> USE DEF ReleaseOnReturn, history, files
<1>1. /\ lock' \in Requests \cup {Free}
      /\ pc' \in [Requests -> Phases]
      /\ job' \in [Requests -> Jobs \cup {NoJob}]
      /\ pskBuf' \in [Requests -> PskLines]
      /\ clientsBuf' \in [Requests -> SUBSET Clients]
  BY DEF IInv, TypeOK, Phases, PskLines
<1>2. \A s \in Requests : pc'[s] \in Writing <=> lock' = s
  BY FreeAssumption DEF IInv, TypeOK, Writing
<1>3. ASSUME NEW s \in Requests PROVE Holder(s)'
  <2>1. CASE s = r \/ pc[r] \in Writing
    BY <2>1, HolderAlone DEF IInv, TypeOK, Holder, Writing
  <2>2. CASE s # r /\ pc[r] \notin Writing
    BY <2>2 DEF IInv, TypeOK, Holder
  <2> QED
    BY <2>1, <2>2
<1>4. \A s \in Requests : Pending(s)'
  BY DEF IInv, TypeOK, Pending
<1> QED
  BY <1>1, <1>2, <1>3, <1>4

\* A step that changes at most unsettled clients in the tables, and leaves the
\* files alone or replaces one by what the lock's holder rendered, is harmless to
\* the settled clients and to the revoked keys.
LEMMA WriteFailsIInv ==
    ASSUME IInv, NEW r \in Requests, WriteFails(r)
    PROVE  IInv'
<1> USE DEF WriteFails
<1>0. running
  BY DEF IInv, Down, Writing
<1>1. /\ clients' \in SUBSET Clients
      /\ psks' \in PskTables
      /\ \A d \in Clients \ unsettled : (d \in clients' <=> d \in clients) /\ psks'[d] = psks[d]
      /\ \A d \in Clients : psks'[d] \in {psks[d], NoKey}
  BY RollbackFacts
<1>2. TypeOK'
  BY <1>1, ReturnFacts DEF IInv, TypeOK, files, history
<1>3. Down'
  BY <1>0 DEF IInv, Down, history
<1>4. \A s \in Requests : Holder(s)' /\ Pending(s)'
  BY ReturnFacts
<1>5. SettledDurable'
  BY <1>1 DEF IInv, SettledDurable, files, history
<1>6. RevokedKeysGone'
  BY <1>1, NoKeyAdded DEF IInv, files, history
<1> QED
  BY <1>2, <1>3, <1>4, <1>5, <1>6 DEF IInv

LEMMA TimeoutIInv ==
    ASSUME IInv, NEW r \in Requests, Timeout(r)
    PROVE  IInv'
<1> USE DEF Timeout
<1>0. running
  BY DEF IInv, Down
<1>1. /\ clients' \in SUBSET Clients
      /\ psks' \in PskTables
      /\ \A d \in Clients \ unsettled : (d \in clients' <=> d \in clients) /\ psks'[d] = psks[d]
      /\ \A d \in Clients : psks'[d] \in {psks[d], NoKey}
  <2>1. CASE pc[r] \in Writing
    BY <2>1, RollbackFacts
  <2>2. CASE pc[r] \notin Writing
    BY <2>2 DEF IInv, TypeOK
  <2> QED
    BY <2>1, <2>2
<1>2. \A s \in Requests : Holder(s)' /\ Pending(s)'
  BY ReturnFacts DEF Writing, Phases, files
<1>3. /\ pskFile' \in [seen : PskLines, synced : PskLines]
      /\ pskFile'.synced = pskFile.synced
      /\ pskFile'.seen = pskFile.seen \/ pskFile'.seen = Render(psks)
  BY DEF IInv, TypeOK, Holder, Writing, WritingPsks, Phases, files
<1>4. /\ clientsFile' \in [seen : SUBSET Clients, synced : SUBSET Clients]
      /\ clientsFile'.synced = clientsFile.synced
      /\ \A d \in Clients \ unsettled :
            d \in clientsFile'.seen <=> d \in clientsFile.seen \/ d \in clients
  <2>1. CASE clientsFile' = clientsFile
    BY <2>1, <1>0 DEF IInv, TypeOK, SettledDurable
  <2>2. CASE /\ pc[r] = "clients_rename"
             /\ clientsFile' = [clientsFile EXCEPT !.seen = clientsBuf[r]]
    <3>1. /\ job[r].client \in unsettled
          /\ clientsBuf[r] \in {clients, clients \ {job[r].client}}
      BY <2>2, JobFacts DEF IInv, Holder, Pending, Writing, WritingClients, Phases
    <3> QED
      BY <1>0, <2>2, <3>1 DEF IInv, TypeOK, SettledDurable
  <2> QED
    BY <2>1, <2>2 DEF files
<1>5. TypeOK'
  BY <1>1, <1>3, <1>4, ReturnFacts DEF IInv, TypeOK, Writing, Phases, files, history
<1>6. Down'
  BY <1>0 DEF IInv, Down, history
<1>7. SettledDurable'
  <2>1. \A d \in Clients \ unsettled, k \in Keys : <<d, k>> \in Render(psks) <=> acked[d] = k
    BY <1>0, RenderLine DEF IInv, TypeOK, SettledDurable
  <2> QED
    BY <1>0, <1>1, <1>3, <1>4, <2>1 DEF IInv, SettledDurable, history
<1>8. RevokedKeysGone'
  BY <1>1, <1>3, NoKeyAdded DEF IInv, history
<1> QED
  BY <1>2, <1>5, <1>6, <1>7, <1>8 DEF IInv

LEMMA CrashIInv ==
    ASSUME IInv, Crash \/ PowerLoss
    PROVE  IInv'
<1> USE DEF Crash, PowerLoss, Stop, history
<1>1. /\ pskFile'.seen \in {pskFile.seen, pskFile.synced}
      /\ pskFile'.synced \in {pskFile.seen, pskFile.synced}
      /\ clientsFile'.seen \in {clientsFile.seen, clientsFile.synced}
      /\ clientsFile'.synced \in {clientsFile.seen, clientsFile.synced}
  BY DEF files, File
<1>2. /\ pskFile' \in [seen : PskLines, synced : PskLines]
      /\ clientsFile' \in [seen : SUBSET Clients, synced : SUBSET Clients]
  BY DEF IInv, TypeOK, files, File
<1>3. TypeOK'
  <2>1. /\ pc' \in [Requests -> Phases] /\ job' \in [Requests -> Jobs \cup {NoJob}]
        /\ pskBuf' \in [Requests -> PskLines] /\ clientsBuf' \in [Requests -> SUBSET Clients]
    BY DEF Phases, PskLines
  <2>2. clients' \in SUBSET Clients /\ psks' \in PskTables /\ running' \in BOOLEAN
    BY DEF EmptyTable, PskTables
  <2>3. lock' \in Requests \cup {Free} /\ \A s \in Requests : pc'[s] \in Writing <=> lock' = s
    BY FreeAssumption DEF Writing
  <2> QED
    BY <1>2, <2>1, <2>2, <2>3 DEF IInv, TypeOK
<1>4. Down'
  BY DEF IInv, Down, EmptyTable
<1>5. \A s \in Requests : Holder(s)' /\ Pending(s)'
  BY DEF Holder, Pending, Writing
<1>6. SettledDurable'
  BY <1>1 DEF IInv, SettledDurable
<1>7. RevokedKeysGone'
  <2>1. Render(psks') = {}
    BY NoKeyAssumption DEF Render, EmptyTable
  <2> QED
    BY <1>1, <2>1 DEF IInv, RevokedKeysGone
<1> QED
  BY <1>3, <1>4, <1>5, <1>6, <1>7 DEF IInv

LEMMA StartIInv ==
    ASSUME IInv, Start
    PROVE  IInv'
<1> USE DEF Start, buffers, files, history
<1>1. psks' \in PskTables
  BY ParseType DEF IInv, TypeOK
<1>2. TypeOK'
  BY <1>1 DEF IInv, TypeOK
<1>3. Down'
  BY DEF IInv, Down
<1>4. \A s \in Requests : Holder(s)' /\ Pending(s)'
  BY DEF IInv, TypeOK, Down, Holder, Pending, Writing
<1>5. SettledDurable'
  <2>1. \A c \in Clients \ unsettled : Parse(pskFile.seen)[c] = acked[c]
    <3> SUFFICES ASSUME NEW c \in Clients \ unsettled PROVE Parse(pskFile.seen)[c] = acked[c]
      OBVIOUS
    <3>1. /\ pskFile.seen \in PskLines /\ acked[c] \in Keys \cup {NoKey}
          /\ \A k \in Keys : <<c, k>> \in pskFile.seen <=> acked[c] = k
      BY DEF IInv, TypeOK, SettledDurable, PskTables
    <3> QED
      BY <3>1, ParseExact
  <2> QED
    BY <2>1 DEF IInv, SettledDurable
<1>6. RevokedKeysGone'
  <2>1. Render(psks') \subseteq pskFile.seen
    BY ParseLine DEF IInv, TypeOK, Render
  <2> QED
    BY <2>1 DEF IInv, RevokedKeysGone
<1> QED
  BY <1>2, <1>3, <1>4, <1>5, <1>6 DEF IInv

LEMMA NextIInv == IInv /\ [Next]_vars => IInv'
<1> SUFFICES ASSUME IInv, [Next]_vars PROVE IInv'
  OBVIOUS
<1>1. CASE \E r \in Requests, c \in Clients, k \in Keys : SubmitEnroll(r, c, k)
  BY <1>1, SubmitEnrollIInv
<1>2. CASE \E r \in Requests, c \in Clients : SubmitRevoke(r, c)
  BY <1>2, SubmitRevokeIInv
<1>3. ASSUME NEW r \in Requests, Step(r) PROVE IInv'
  BY <1>3, RefuseIInv, EnrollBeginIInv, RevokeBeginIInv, RenamePsksIInv, RenameClientsIInv,
     SyncPsksIInv, SyncClientsIInv, WriteFailsIInv, TimeoutIInv DEF Step
<1>4. CASE Crash \/ PowerLoss
  BY <1>4, CrashIInv
<1>5. CASE Start
  BY <1>5, StartIInv
<1>6. CASE UNCHANGED vars
  <2> USE <1>6 DEF vars, memory, buffers, files, history
  <2>1. TypeOK' /\ Down'
    BY DEF IInv, TypeOK, Down
  <2>2. \A r \in Requests : Holder(r)' /\ Pending(r)'
    BY DEF IInv, Holder, Pending
  <2>3. SettledDurable' /\ RevokedKeysGone'
    BY NoKeyAdded DEF IInv, TypeOK, SettledDurable
  <2> QED
    BY <2>1, <2>2, <2>3 DEF IInv
<1> QED
  BY <1>1, <1>2, <1>3, <1>4, <1>5, <1>6 DEF Next

-----------------------------------------------------------------------------
(* The theorems.                                                             *)

LEMMA Invariant == Spec => []IInv
BY InitIInv, NextIInv, PTL DEF Spec

\* Type correctness, and mutual exclusion of the admin handlers: mutation_lock is
\* held exactly by the request between its first and last write.
THEOREM TypeCorrect == Spec => []TypeOK
<1>1. IInv => TypeOK
  BY DEF IInv
<1> QED
  BY Invariant, <1>1, PTL

\* Acknowledged enrolls and revokes of clients with no failed operation are
\* durable across crashes and power failures, and isolated from each other.
THEOREM AcknowledgedIsDurable == Spec => []SettledDurable
<1>1. IInv => SettledDurable
  BY DEF IInv
<1> QED
  BY Invariant, <1>1, PTL

\* A key of a client whose revoke was acknowledged is in memory or on disk again only
\* after an enroll of the client with that key has begun again, whatever fails and
\* whichever other keys are enrolled.
THEOREM RevokeIsFinal == Spec => []RevokedKeysGone
<1>1. IInv => RevokedKeysGone
  BY DEF IInv
<1> QED
  BY Invariant, <1>1, PTL

-----------------------------------------------------------------------------
(* Refinement.                                                               *)

Auth == [c \in Clients |-> IF c \in clients THEN psks[c] ELSE NoKey]

LEMMA AuthType ==
    ASSUME TypeOK
    PROVE  Auth \in [Clients -> Keys \cup {NoKey}]
BY DEF TypeOK, Auth, PskTables

\* A step that leaves these variables alone is a stuttering step of the roster.
LEMMA RosterStutters ==
    ASSUME UNCHANGED <<running, clients, psks, acked, unsettled>>
    PROVE  UNCHANGED AbstractRoster!vars
BY DEF AbstractRoster!vars

\* A step about one client that leaves what is acknowledged alone.
LEMMA RosterUnsettles ==
    ASSUME IInv, IInv', running, running', NEW c \in Clients,
           unsettled' = unsettled \cup {c}, acked' = acked,
           \A d \in Clients \ {c} : (d \in clients' <=> d \in clients) /\ psks'[d] = psks[d]
    PROVE  AbstractRoster!Next
<1>1. Auth' \in [Clients -> Keys \cup {NoKey}]
  BY AuthType DEF IInv, TypeOK, Auth, PskTables
<1>2. \A d \in Clients \ {c} : Auth'[d] = Auth[d]
  BY DEF Auth
<1>3. AbstractRoster!Unsettle(c)
  BY <1>1, <1>2 DEF AbstractRoster!Unsettle, AbstractRoster!OnlyChanges, AbstractRoster!Tables, Auth
<1> QED
  BY <1>3 DEF AbstractRoster!Next

\* An acknowledgement: the client is now what it is told to be.
LEMMA RosterSettles ==
    ASSUME IInv, IInv', running, running', NEW c \in Clients, c \in unsettled,
           unsettled' = unsettled \ {c},
           \A d \in Clients \ {c} : (d \in clients' <=> d \in clients) /\ psks'[d] = psks[d],
           NEW v \in Keys \cup {NoKey}, acked' = [acked EXCEPT ![c] = v], Auth'[c] = v
    PROVE  AbstractRoster!Next
<1>1. Auth' \in [Clients -> Keys \cup {NoKey}]
  BY AuthType DEF IInv, TypeOK, Auth, PskTables
<1>2. \A d \in Clients \ {c} : Auth'[d] = Auth[d]
  BY DEF Auth
<1>3. AbstractRoster!Settle(c)
  BY <1>1, <1>2 DEF AbstractRoster!Settle, AbstractRoster!OnlyChanges, AbstractRoster!Tables, Auth
<1> QED
  BY <1>3 DEF AbstractRoster!Next

\* Each step of an admin request is a step of the roster or a stutter.
LEMMA StepRefines ==
    ASSUME IInv, IInv', NEW r \in Requests, Step(r)
    PROVE  AbstractRoster!Next \/ UNCHANGED AbstractRoster!vars
<1> DEFINE c == job[r].client
<1>0. pc[r] # "idle" /\ running /\ running' /\ job[r] \in Jobs /\ c \in Clients
  BY JobFacts
  DEF IInv, Down, Pending, Step, Refuse, EnrollBegin, RevokeBegin, RenamePsks, RenameClients,
      SyncPsks, SyncClients, WriteFails, Timeout, Writing
<1>1. CASE Refuse(r) \/ RenamePsks(r) \/ RenameClients(r)
  BY <1>1, RosterStutters DEF Refuse, RenamePsks, RenameClients, memory, history
<1>2. CASE EnrollBegin(r)
  <2>1. \A d \in Clients \ {c} : (d \in clients' <=> d \in clients) /\ psks'[d] = psks[d]
    BY <1>0, <1>2 DEF EnrollBegin, IInv, TypeOK, PskTables
  <2> QED
    BY <1>0, <1>2, <2>1, RosterUnsettles DEF EnrollBegin
<1>3. CASE RevokeBegin(r)
  BY <1>0, <1>3, RosterUnsettles DEF RevokeBegin
<1>4. CASE SyncPsks(r)
  <2>1. CASE job[r].op = "enroll"
    BY <1>4, <2>1, RosterStutters DEF SyncPsks
  <2>2. CASE job[r].op = "revoke"
    <3>1. c \in unsettled
      BY <1>4 DEF SyncPsks, IInv, Holder, Writing, Phases
    <3>2. Auth'[c] = NoKey
      BY <1>0, <1>4, <2>2 DEF SyncPsks, Auth
    <3> QED
      BY <1>0, <1>4, <2>2, <3>1, <3>2, RosterSettles DEF SyncPsks
  <2> QED
    BY <1>0, <2>1, <2>2, JobFacts
<1>5. CASE SyncClients(r)
  <2>0. c \in unsettled /\ c \in clients
    BY <1>5 DEF SyncClients, IInv, Holder, Writing, Phases
  <2>1. CASE job[r].op = "enroll"
    <3>1. psks[c] = job[r].key /\ job[r].key \in Keys
      BY <1>0, <1>5, <2>1, JobFacts DEF SyncClients, IInv, Holder, Writing, Phases
    <3>2. Auth'[c] = job[r].key
      BY <1>0, <1>5, <2>0, <2>1, <3>1 DEF SyncClients, Auth
    <3> QED
      BY <1>0, <1>5, <2>0, <2>1, <3>1, <3>2, RosterSettles DEF SyncClients
  <2>2. CASE job[r].op = "revoke"
    <3>1. \A d \in Clients \ {c} : (d \in clients' <=> d \in clients) /\ psks'[d] = psks[d]
      BY <1>0, <1>5, <2>2 DEF SyncClients, IInv, TypeOK, PskTables
    <3>2. unsettled' = unsettled \cup {c} /\ acked' = acked
      BY <1>5, <2>0, <2>2 DEF SyncClients
    <3> QED
      BY <1>0, <3>1, <3>2, RosterUnsettles
  <2> QED
    BY <1>0, <2>1, <2>2, JobFacts
<1>6. CASE WriteFails(r) \/ Timeout(r)
  <2>1. CASE pc[r] \in Writing
    <3>1. Rollback(r) /\ unsettled' = unsettled /\ acked' = acked
      BY <1>6, <2>1 DEF WriteFails, Timeout, history
    <3>2. \A d \in Clients \ {c} : (d \in clients' <=> d \in clients) /\ psks'[d] = psks[d]
      BY <1>0, <3>1 DEF Rollback, IInv, TypeOK, PskTables
    <3>3. unsettled' = unsettled \cup {c}
      BY <2>1, <3>1 DEF IInv, Holder
    <3> QED
      BY <1>0, <3>1, <3>2, <3>3, RosterUnsettles
  <2>2. CASE pc[r] \notin Writing
    BY <1>6, <2>2, RosterStutters DEF WriteFails, Timeout, history
  <2> QED
    BY <2>1, <2>2
<1> QED
  BY <1>1, <1>2, <1>3, <1>4, <1>5, <1>6 DEF Step

LEMMA NextRefines ==
    ASSUME IInv, IInv', [Next]_vars
    PROVE  AbstractRoster!Next \/ UNCHANGED AbstractRoster!vars
<1>1. CASE \E r \in Requests, c \in Clients, k \in Keys : SubmitEnroll(r, c, k)
  BY <1>1, RosterStutters DEF SubmitEnroll, memory, history
<1>2. CASE \E r \in Requests, c \in Clients : SubmitRevoke(r, c)
  BY <1>2, RosterStutters DEF SubmitRevoke, memory, history
<1>3. ASSUME NEW r \in Requests, Step(r)
      PROVE  AbstractRoster!Next \/ UNCHANGED AbstractRoster!vars
  BY <1>3, StepRefines
<1>4. CASE Crash \/ PowerLoss
  <2>1. Auth' = [c \in Clients |-> NoKey]
    BY <1>4 DEF Crash, PowerLoss, Stop, Auth
  <2>2. AbstractRoster!Stop
    BY <1>4, <2>1 DEF Crash, PowerLoss, Stop, AbstractRoster!Stop, AbstractRoster!Nobody, Auth, history
  <2> QED
    BY <2>2 DEF AbstractRoster!Next
<1>5. CASE Start
  <2>1. Auth' \in [Clients -> Keys \cup {NoKey}]
    BY AuthType DEF IInv, TypeOK, Auth, PskTables
  <2>2. \A c \in Clients \ unsettled : Auth'[c] = acked[c]
    BY <1>5 DEF Start, history, IInv, SettledDurable, Auth
  <2>3. AbstractRoster!Start
    BY <1>5, <2>1, <2>2 DEF Start, history, AbstractRoster!Start, AbstractRoster!Tables, Auth
  <2> QED
    BY <2>3 DEF AbstractRoster!Next
<1>6. CASE UNCHANGED vars
  BY <1>6, RosterStutters DEF vars, memory, history
<1> QED
  BY <1>1, <1>2, <1>3, <1>4, <1>5, <1>6 DEF Next

\* The roster with its lock, its two files and its failures implements the
\* abstract roster.
THEOREM RefinesRoster == Spec => ImplementsRoster
<1>1. Init => AbstractRoster!Init
  BY DEF Init, AbstractRoster!Init, AbstractRoster!Nobody, EmptyTable
<1>2. IInv /\ IInv' /\ [Next]_vars => [AbstractRoster!Next]_(AbstractRoster!vars)
  BY NextRefines
<1> QED
  BY <1>1, <1>2, Invariant, PTL DEF Spec, ImplementsRoster, AbstractRoster!Spec

-----------------------------------------------------------------------------
(* The tables that the wire path reads.                                      *)

\* A step of an admin request changes them as Tables allows.
LEMMA StepChangesTables ==
    ASSUME IInv, NEW r \in Requests, Step(r)
    PROVE  SharedTables!Next \/ UNCHANGED SharedTables!vars
<1> DEFINE c == job[r].client
<1>0. /\ pc[r] # "idle" /\ running /\ running' /\ job[r] \in Jobs /\ c \in Clients
      /\ clients \in SUBSET Clients /\ psks \in [Clients -> Keys \cup {NoKey}]
  BY JobFacts
  DEF IInv, TypeOK, PskTables, Down, Pending, Step, Refuse, EnrollBegin, RevokeBegin,
      RenamePsks, RenameClients, SyncPsks, SyncClients, WriteFails, Timeout, Writing
<1>a. ASSUME UNCHANGED <<clients, psks>>
      PROVE  UNCHANGED SharedTables!vars
  BY <1>0, <1>a, running = TRUE, running' = TRUE DEF SharedTables!vars, IInv, TypeOK
<1>b. ASSUME c \in clients, clients' = clients \ {c}, psks' = [psks EXCEPT ![c] = NoKey]
      PROVE  SharedTables!Next
  BY <1>0, <1>b DEF SharedTables!Next, SharedTables!RemoveClient
<1>1. CASE Refuse(r) \/ RevokeBegin(r) \/ RenamePsks(r) \/ RenameClients(r)
  BY <1>1, <1>a DEF Refuse, RevokeBegin, RenamePsks, RenameClients, memory
<1>2. CASE EnrollBegin(r)
  <2>1. job[r].op = "enroll" /\ job[r].key \in Keys /\ c \notin clients
    BY <1>0, <1>2, JobFacts DEF EnrollBegin, Refused
  <2>2. SharedTables!Enroll(c, job[r].key)
    BY <1>2, <2>1 DEF EnrollBegin, SharedTables!Enroll
  <2> QED
    BY <1>0, <2>1, <2>2 DEF SharedTables!Next
<1>3. CASE SyncPsks(r)
  <2>1. CASE job[r].op = "enroll"
    BY <1>3, <1>a, <2>1 DEF SyncPsks
  <2>2. CASE job[r].op = "revoke"
    <3>1. c \in clients /\ psks[c] = NoKey
      BY <1>3, <2>2 DEF SyncPsks, IInv, Holder, Writing, Phases, WritingPsks
    <3>2. clients' = clients \ {c} /\ psks' = psks
      BY <1>3, <2>2 DEF SyncPsks
    <3>3. psks' = [psks EXCEPT ![c] = NoKey]
      BY <1>0, <3>1, <3>2
    <3> QED
      BY <1>b, <3>1, <3>2, <3>3
  <2> QED
    BY <1>0, <2>1, <2>2, JobFacts
<1>4. CASE SyncClients(r)
  <2>1. CASE job[r].op = "enroll"
    BY <1>4, <1>a, <2>1 DEF SyncClients
  <2>2. CASE job[r].op = "revoke"
    <3>1. c \in clients
      BY <1>4 DEF SyncClients, IInv, Holder, Writing, Phases
    <3>2. psks' = [psks EXCEPT ![c] = NoKey] /\ clients' = clients
      BY <1>4, <2>2 DEF SyncClients
    <3>3. CASE psks[c] = NoKey
      <4>1. psks' = psks
        BY <1>0, <3>2, <3>3
      <4> QED
        BY <1>a, <3>2, <4>1
    <3>4. CASE psks[c] # NoKey
      BY <1>0, <3>1, <3>2, <3>4 DEF SharedTables!Next, SharedTables!RemoveKey
    <3> QED
      BY <3>3, <3>4
  <2> QED
    BY <1>0, <2>1, <2>2, JobFacts
<1>5. CASE WriteFails(r) \/ Timeout(r)
  <2>1. CASE pc[r] \in Writing /\ job[r].op = "enroll"
    <3>1. c \in clients
      BY <2>1 DEF IInv, Holder
    <3> QED
      BY <1>5, <1>b, <2>1, <3>1 DEF WriteFails, Timeout, Rollback
  <2>2. CASE ~(pc[r] \in Writing /\ job[r].op = "enroll")
    BY <1>5, <1>a, <2>2 DEF WriteFails, Timeout, Rollback
  <2> QED
    BY <2>1, <2>2
<1> QED
  BY <1>1, <1>2, <1>3, <1>4, <1>5 DEF Step

LEMMA NextChangesTables ==
    ASSUME IInv, IInv', [Next]_vars
    PROVE  SharedTables!Next \/ UNCHANGED SharedTables!vars
<1>1. CASE \E r \in Requests, c \in Clients, k \in Keys : SubmitEnroll(r, c, k)
  BY <1>1 DEF SubmitEnroll, memory, SharedTables!vars
<1>2. CASE \E r \in Requests, c \in Clients : SubmitRevoke(r, c)
  BY <1>2 DEF SubmitRevoke, memory, SharedTables!vars
<1>3. ASSUME NEW r \in Requests, Step(r)
      PROVE  SharedTables!Next \/ UNCHANGED SharedTables!vars
  BY <1>3, StepChangesTables
<1>4. CASE Crash \/ PowerLoss \/ Start
  <2>1. SharedTables!TypeOK'
    BY DEF IInv, TypeOK, PskTables, SharedTables!TypeOK
  <2>2. CASE running' # running
    BY <2>1, <2>2 DEF SharedTables!Next, SharedTables!Restart
  <2>3. CASE running' = running
    BY <1>4, <2>3 DEF Crash, PowerLoss, Start, Stop, IInv, Down, SharedTables!vars, TypeOK
  <2> QED
    BY <2>2, <2>3
<1>5. CASE UNCHANGED vars
  BY <1>5 DEF vars, memory, SharedTables!vars
<1> QED
  BY <1>1, <1>2, <1>3, <1>4, <1>5 DEF Next

\* The roster implements the tables that Session reads: what is proved of the wire
\* path holds next to enroll_client and revoke_client as they are, between any two
\* starts of the daemon.
THEOREM RefinesTables == Spec => ImplementsTables
<1>1. Init => SharedTables!Init
  BY DEF Init, EmptyTable, SharedTables!Init, SharedTables!TypeOK
<1>2. IInv /\ IInv' /\ [Next]_vars => [SharedTables!Next]_(SharedTables!vars)
  BY NextChangesTables
<1> QED
  BY <1>1, <1>2, Invariant, PTL DEF Spec, ImplementsTables, SharedTables!Spec

-----------------------------------------------------------------------------
(* What is true of revoke_client's comment.                                  *)

\* A client that a revoke took out of clients.json has been acknowledged as gone, or
\* its operation has not been acknowledged; no enroll of it is being written.
DroppedOK ==
    /\ \A c \in dropped \ unsettled : acked[c] = NoKey
    /\ \A r \in Requests :
          pc[r] \in Writing /\ job[r].op = "enroll" => job[r].client \notin dropped

LEMMA StepDropped ==
    ASSUME IInv, DroppedOK, NEW r \in Requests, Step(r)
    PROVE  DroppedOK'
<1> DEFINE c == job[r].client
<1>0. /\ pc[r] # "idle" /\ job[r] \in Jobs /\ c \in Clients
      /\ pc \in [Requests -> Phases] /\ job \in [Requests -> Jobs \cup {NoJob}]
      /\ acked \in [Clients -> Keys \cup {NoKey}]
  BY JobFacts
  DEF IInv, TypeOK, PskTables, Pending, Step, Refuse, EnrollBegin, RevokeBegin,
      RenamePsks, RenameClients, SyncPsks, SyncClients, WriteFails, Timeout, Writing
<1>a. \A q \in Requests : q # r /\ pc[r] \in Writing => pc[q] \notin Writing
  BY DEF IInv, TypeOK
<1>b. ASSUME UNCHANGED <<acked, unsettled, dropped>>,
             \A q \in Requests : pc'[q] \in Writing => pc[q] \in Writing /\ job'[q] = job[q]
      PROVE  DroppedOK'
  BY <1>b DEF DroppedOK
<1>1. CASE Refuse(r) \/ WriteFails(r) \/ Timeout(r)
  <2>1. UNCHANGED <<acked, unsettled, dropped>> /\ ReleaseOnReturn(r)
    BY <1>1 DEF Refuse, WriteFails, Timeout, history
  <2> QED
    BY <1>0, <1>b, <2>1 DEF ReleaseOnReturn, Writing
<1>2. CASE RenamePsks(r) \/ RenameClients(r)
  BY <1>0, <1>2, <1>b DEF RenamePsks, RenameClients, history, Writing, Phases
<1>3. CASE EnrollBegin(r)
  <2>1. /\ pc' = [pc EXCEPT ![r] = "psk_rename"] /\ job' = job
        /\ dropped' = dropped \ {c} /\ unsettled' = unsettled \cup {c} /\ acked' = acked
    BY <1>3 DEF EnrollBegin
  <2> QED
    BY <1>0, <2>1 DEF DroppedOK
<1>4. CASE RevokeBegin(r)
  <2>1. /\ pc' = [pc EXCEPT ![r] = "clients_rename"] /\ job' = job /\ job[r].op = "revoke"
        /\ dropped' = dropped /\ unsettled' = unsettled \cup {c} /\ acked' = acked
    BY <1>4 DEF RevokeBegin
  <2> QED
    BY <1>0, <2>1 DEF DroppedOK
<1>5. CASE SyncPsks(r)
  <2>1. CASE job[r].op = "enroll"
    <3>1. /\ pc' = [pc EXCEPT ![r] = "clients_rename"] /\ job' = job
          /\ UNCHANGED <<acked, unsettled, dropped>> /\ pc[r] \in Writing
      BY <1>5, <2>1 DEF SyncPsks, Writing, Phases
    <3> QED
      BY <1>0, <1>b, <3>1
  <2>2. CASE job[r].op = "revoke"
    <3>1. /\ pc' = [pc EXCEPT ![r] = "idle"] /\ job' = [job EXCEPT ![r] = NoJob]
          /\ dropped' = dropped /\ unsettled' = unsettled \ {c}
          /\ acked' = [acked EXCEPT ![c] = NoKey]
      BY <1>5, <2>2 DEF SyncPsks, ReleaseOnReturn
    <3> QED
      BY <1>0, <3>1 DEF DroppedOK, Writing
  <2> QED
    BY <1>0, <2>1, <2>2, JobFacts
<1>6. CASE SyncClients(r)
  <2>0. pc[r] \in Writing /\ c \in unsettled
    BY <1>6 DEF SyncClients, IInv, Holder, Writing, Phases
  <2>1. CASE job[r].op = "enroll"
    <3>1. /\ pc' = [pc EXCEPT ![r] = "idle"] /\ job' = [job EXCEPT ![r] = NoJob]
          /\ dropped' = dropped /\ unsettled' = unsettled \ {c}
          /\ acked' = [acked EXCEPT ![c] = job[r].key]
      BY <1>6, <2>1 DEF SyncClients, ReleaseOnReturn
    <3>2. c \notin dropped
      BY <2>0, <2>1 DEF DroppedOK
    <3> QED
      BY <1>0, <3>1, <3>2 DEF DroppedOK, Writing
  <2>2. CASE job[r].op = "revoke"
    <3>1. /\ pc' = [pc EXCEPT ![r] = "psk_rename"] /\ job' = job
          /\ dropped' = dropped \cup {c} /\ UNCHANGED <<acked, unsettled>>
      BY <1>6, <2>2 DEF SyncClients
    <3>2. \A d \in dropped' \ unsettled' : acked'[d] = NoKey
      BY <2>0, <3>1 DEF DroppedOK
    <3>3. \A q \in Requests : pc'[q] \in Writing => q = r
      BY <1>0, <1>a, <2>0, <3>1
    <3> QED
      BY <2>2, <3>1, <3>2, <3>3 DEF DroppedOK
  <2> QED
    BY <1>0, <2>1, <2>2, JobFacts
<1> QED
  BY <1>1, <1>2, <1>3, <1>4, <1>5, <1>6 DEF Step

LEMMA NextDropped == IInv /\ DroppedOK /\ [Next]_vars => DroppedOK'
<1> SUFFICES ASSUME IInv, DroppedOK, [Next]_vars PROVE DroppedOK'
  OBVIOUS
<1>0. pc \in [Requests -> Phases] /\ job \in [Requests -> Jobs \cup {NoJob}]
  BY DEF IInv, TypeOK
<1>1. CASE \E r \in Requests, c \in Clients, k \in Keys : SubmitEnroll(r, c, k)
  BY <1>0, <1>1 DEF SubmitEnroll, DroppedOK, Writing, history
<1>2. CASE \E r \in Requests, c \in Clients : SubmitRevoke(r, c)
  BY <1>0, <1>2 DEF SubmitRevoke, DroppedOK, Writing, history
<1>3. ASSUME NEW r \in Requests, Step(r) PROVE DroppedOK'
  BY <1>3, StepDropped
<1>4. CASE Crash \/ PowerLoss
  BY <1>4 DEF Crash, PowerLoss, Stop, DroppedOK, Writing, history
<1>5. CASE Start \/ UNCHANGED vars
  BY <1>5 DEF Start, vars, DroppedOK, history
<1> QED
  BY <1>1, <1>2, <1>3, <1>4, <1>5 DEF Next

\* A client whose revoke answered ok is not authorised again before it is enrolled
\* again: what revoke_client's comment says of every revoke that wrote clients.json
\* holds of those that went on to the end.
THEOREM AckedRevokeHolds == Spec => []NoResurrectionOnceAcked
<1>1. Init => DroppedOK
  BY DEF Init, DroppedOK, Writing
<1>2. IInv /\ DroppedOK => NoResurrectionOnceAcked
  <2> SUFFICES ASSUME IInv, DroppedOK, NEW c \in dropped \ unsettled
               PROVE  c \notin clients
    BY DEF NoResurrectionOnceAcked, Authorised
  <2>1. c \in Clients \ unsettled /\ acked[c] = NoKey
    BY DEF IInv, TypeOK, DroppedOK
  <2> QED
    BY <2>1 DEF IInv, SettledDurable, Down, TypeOK
<1> QED
  BY <1>1, <1>2, Invariant, NextDropped, PTL DEF Spec
=============================================================================
