---------------------------- MODULE WorkspaceProofs ----------------------------
(***************************************************************************)
(* What the page shows belongs to its project, its dataset and its last    *)
(* connection attempt, for any servers, projects, datasets and calls in    *)
(* flight. The argument is that of useProjectScope: a ticket that is not   *)
(* stale was captured in the current project. CallOK says what else a call *)
(* carries from the state in which it was asked to the state in which it   *)
(* is answered.                                                            *)
(***************************************************************************)
EXTENDS Workspace, TLAPS

USE BaseAssumption, ScopeAssumption, WorkspaceAssumption
USE DEF MaybeBases, MaybeProjects, MaybeDatasets, Statuses, ClientExport, NoFlag, Lists

-----------------------------------------------------------------------------
(* The connection *)

Connections ==
    [mode : {"static", "server"}, apiBase : MaybeBases, status : Statuses,
     capabilities : MaybeBases, suggestedApiBase : MaybeBases, epoch : 0 .. MaxAttempts]

\* Attempts are numbered: each has one handshake, and the last one asks the server
\* that the page names. Connections are fewer than attempts that may still succeed.
AttemptsInv ==
    /\ \A h \in handshakes :
          /\ h.attempt <= attempt
          /\ h.attempt = attempt => h.base = connection.apiBase /\ connection.epoch < attempt
    /\ \A h, g \in handshakes : h.attempt = g.attempt => h = g
    /\ connection.epoch <= attempt

ConnectionInv == ConnectionTypeOK /\ ConnectionSettles /\ AttemptsInv

LEMMA ConnectionInitInv == ConnectionInit => ConnectionInv
<1> SUFFICES ASSUME ConnectionInit PROVE ConnectionInv
  OBVIOUS
<1>1. PICK env \in Environments, remembered \in StoredBases :
        LET config == ResolveConnectionConfig(env)
            fresh == Disconnected(config, remembered)
        IN  /\ stored = remembered
            /\ IF config.autoConnect
               THEN /\ attempt = 1
                    /\ connection = Connecting(fresh, config.apiBase)
                    /\ handshakes = {[attempt |-> 1, base |-> config.apiBase, step |-> "health"]}
               ELSE /\ attempt = 0 /\ connection = fresh /\ handshakes = {}
  BY DEF ConnectionInit
<1> DEFINE config == ResolveConnectionConfig(env)
           fresh == Disconnected(config, remembered)
<1>2. /\ config.mode \in {"static", "server"} /\ config.apiBase \in MaybeBases
      /\ config.autoConnect \in BOOLEAN
      /\ config.autoConnect => config.apiBase \in Bases
  BY DEF ResolveConnectionConfig
<1>3. remembered \in MaybeBases
  OBVIOUS
<1> HIDE DEF config
<1>4. fresh = [mode |-> config.mode, apiBase |-> config.apiBase, status |-> "disconnected",
               capabilities |-> NoBase,
               suggestedApiBase |-> IF config.apiBase # NoBase THEN config.apiBase ELSE remembered,
               epoch |-> 0]
  BY DEF Disconnected
<1> HIDE DEF fresh
<1>5. CASE config.autoConnect
  <2>1. connection = [mode |-> "server", apiBase |-> config.apiBase, status |-> "connecting",
                      capabilities |-> NoBase,
                      suggestedApiBase |-> config.apiBase, epoch |-> 0]
    <3>1. connection = Connecting(fresh, config.apiBase)
      BY <1>1, <1>5 DEF config, fresh
    <3> QED
      BY <1>4, <3>1 DEF Connecting
  <2>2. attempt = 1 /\ stored = remembered
        /\ handshakes = {[attempt |-> 1, base |-> config.apiBase, step |-> "health"]}
    BY <1>1, <1>5 DEF config
  <2> QED
    BY <1>2, <1>3, <1>5, <2>1, <2>2 DEF ConnectionInv, ConnectionTypeOK, ConnectionSettles,
       ConnectedCapabilities, ConnectingHasAttempt, AttemptsInv, Connected, Handshakes
<1>6. CASE ~config.autoConnect
  <2>1. connection = fresh /\ attempt = 0 /\ handshakes = {} /\ stored = remembered
    BY <1>1, <1>6 DEF config, fresh
  <2> QED
    BY <1>2, <1>3, <1>4, <2>1 DEF ConnectionInv, ConnectionTypeOK, ConnectionSettles,
       ConnectedCapabilities, ConnectingHasAttempt, AttemptsInv, Connected, Handshakes
<1> QED
  BY <1>2, <1>5, <1>6

LEMMA ConnectInv == ASSUME ConnectionInv, NEW base \in Bases, Connect(base) PROVE ConnectionInv'
<1> USE DEF ConnectionInv, Connect
<1>1. PICK h : h = [attempt |-> attempt + 1, base |-> base, step |-> "health"]
  OBVIOUS
<1>2. handshakes' = handshakes \union {h} /\ attempt' = attempt + 1 /\ attempt \in Nat
  BY <1>1 DEF Connections, ConnectionTypeOK
<1>3. h \in Handshakes /\ attempt' \in 0 .. MaxAttempts
  BY <1>1 DEF Connections, ConnectionTypeOK, Handshakes
<1>4. connection' = Connecting(connection, base)
  OBVIOUS
<1>5. /\ connection' \in Connections
      /\ connection'.apiBase = base /\ connection'.status = "connecting"
      /\ connection'.epoch = connection.epoch
  BY <1>4 DEF Connections, ConnectionTypeOK, Connecting
<1>6. ConnectionTypeOK'
  BY <1>2, <1>3, <1>5 DEF Connections, ConnectionTypeOK
<1>7. ConnectionSettles'
  BY <1>1, <1>2, <1>5 DEF ConnectionSettles, ConnectedCapabilities, ConnectingHasAttempt, Connected
<1>8. \A g \in handshakes : g.attempt \in Nat
  BY DEF Connections, ConnectionTypeOK, Handshakes
<1>9. AttemptsInv'
  BY <1>1, <1>2, <1>5, <1>8 DEF AttemptsInv, ConnectionTypeOK
<1> QED
  BY <1>6, <1>7, <1>9

LEMMA ConnectInvalidInv == ASSUME ConnectionInv, ConnectInvalid PROVE ConnectionInv'
<1> USE DEF ConnectionInv, ConnectInvalid
<1>1. /\ connection' \in Connections
      /\ connection'.apiBase = connection.apiBase /\ connection'.epoch = connection.epoch
      /\ connection'.capabilities = connection.capabilities
      /\ connection'.status = IF connection.status = "connected" THEN "connected" ELSE "failed"
  BY DEF Connections, ConnectionTypeOK, Connected
<1> QED
  BY <1>1 DEF Connections, ConnectionTypeOK, ConnectionSettles, ConnectedCapabilities, ConnectingHasAttempt,
     AttemptsInv, Connected

LEMMA RetryInv == ASSUME ConnectionInv, Retry PROVE ConnectionInv'
<1>1. connection.apiBase \in MaybeBases /\ connection.suggestedApiBase \in MaybeBases
  BY DEF ConnectionInv, ConnectionTypeOK
<1>2. ConnectInvalid \/ \E base \in Bases : Connect(base)
  BY <1>1 DEF Retry
<1> QED
  BY <1>2, ConnectInv, ConnectInvalidInv

LEMMA DisconnectInv == ASSUME ConnectionInv, Disconnect PROVE ConnectionInv'
<1> USE DEF ConnectionInv, Disconnect
<1>1. /\ connection' \in Connections
      /\ connection'.epoch = connection.epoch /\ connection'.status = "disconnected"
  BY DEF Connections, ConnectionTypeOK
<1>2. attempt' = attempt + 1 /\ attempt \in Nat /\ attempt' \in 0 .. MaxAttempts
  BY DEF Connections, ConnectionTypeOK
<1>3. \A g \in handshakes : g.attempt \in Nat
  BY DEF Connections, ConnectionTypeOK, Handshakes
<1>4. ConnectionTypeOK'
  BY <1>1, <1>2 DEF Connections, ConnectionTypeOK
<1>5. AttemptsInv'
  BY <1>1, <1>2, <1>3 DEF AttemptsInv, ConnectionTypeOK
<1> QED
  BY <1>1, <1>4, <1>5 DEF ConnectionSettles, ConnectedCapabilities, ConnectingHasAttempt, Connected

LEMMA HealthAnswersInv ==
    ASSUME ConnectionInv, NEW h \in handshakes, HealthAnswers(h)
    PROVE  ConnectionInv'
<1> USE DEF ConnectionInv, HealthAnswers
<1>1. PICK g : g = [h EXCEPT !.step = "capabilities"]
  OBVIOUS
<1>2. g \in Handshakes /\ g.attempt = h.attempt /\ g.base = h.base
  BY <1>1 DEF Connections, ConnectionTypeOK, Handshakes
<1>3. handshakes' = (handshakes \ {h}) \union (IF Superseded(h) THEN {} ELSE {g})
  BY <1>1
<1>4. ConnectionTypeOK' /\ AttemptsInv'
  BY <1>2, <1>3 DEF Connections, ConnectionTypeOK, AttemptsInv
<1>5. ConnectionSettles'
  BY <1>2, <1>3 DEF ConnectionSettles, ConnectedCapabilities, ConnectingHasAttempt, Connected, Superseded
<1> QED
  BY <1>4, <1>5

LEMMA HealthFailsInv ==
    ASSUME ConnectionInv, NEW h \in handshakes, HealthFails(h)
    PROVE  ConnectionInv'
<1> USE DEF ConnectionInv, HealthFails
<1>1. CASE Superseded(h)
  BY <1>1 DEF Connections, ConnectionTypeOK, AttemptsInv, ConnectionSettles, ConnectedCapabilities,
     ConnectingHasAttempt, Connected, Superseded
<1>2. CASE ~Superseded(h)
  <2>1. /\ connection' \in Connections
        /\ connection'.apiBase = connection.apiBase /\ connection'.epoch = connection.epoch
        /\ connection'.status = "failed"
    BY <1>2 DEF Connections, ConnectionTypeOK
  <2> QED
    BY <2>1 DEF Connections, ConnectionTypeOK, AttemptsInv, ConnectionSettles, ConnectedCapabilities,
       ConnectingHasAttempt, Connected
<1> QED
  BY <1>1, <1>2

LEMMA CapabilitiesInv ==
    ASSUME ConnectionInv, NEW h \in handshakes, NEW described \in BOOLEAN,
           CapabilitiesAnswer(h, described)
    PROVE  ConnectionInv'
<1> USE DEF ConnectionInv, CapabilitiesAnswer
<1>1. CASE Superseded(h)
  BY <1>1 DEF Connections, ConnectionTypeOK, AttemptsInv, ConnectionSettles, ConnectedCapabilities,
     ConnectingHasAttempt, Connected, Superseded
<1>2. CASE ~Superseded(h)
  <2>1. h \in Handshakes /\ h.base = connection.apiBase /\ h.attempt = attempt
        /\ connection.epoch < attempt /\ attempt \in 0 .. MaxAttempts /\ connection.epoch \in Nat
    BY <1>2 DEF Connections, ConnectionTypeOK, AttemptsInv, Superseded
  <2>2. /\ connection' \in Connections
        /\ connection'.apiBase = connection.apiBase /\ connection'.epoch = connection.epoch + 1
        /\ connection'.status = "connected" /\ connection'.capabilities \in {NoBase, connection.apiBase}
    <3>1. PICK base : base = IF described THEN h.base ELSE NoBase
      OBVIOUS
    <3>2. connection' = [connection EXCEPT !.status = "connected", !.epoch = @ + 1,
                                           !.capabilities = base]
      BY <1>2, <3>1
    <3>3. base \in {NoBase, connection.apiBase} /\ connection \in Connections
      BY <2>1, <3>1 DEF Connections, ConnectionTypeOK
    <3>4. base \in MaybeBases /\ connection.epoch + 1 \in 0 .. MaxAttempts
      BY <2>1, <3>3 DEF Connections
    <3> QED
      BY <3>2, <3>3, <3>4 DEF Connections
  <2>3. stored' \in MaybeBases /\ handshakes' = handshakes \ {h} /\ attempt' = attempt
    BY <1>2, <2>1 DEF Handshakes
  <2>4. ConnectionTypeOK' /\ ConnectionSettles'
    BY <2>2, <2>3 DEF Connections, ConnectionTypeOK, ConnectionSettles, ConnectedCapabilities,
       ConnectingHasAttempt, Connected
  <2>5. AttemptsInv'
    BY <2>1, <2>2, <2>3 DEF AttemptsInv
  <2> QED
    BY <2>4, <2>5
<1> QED
  BY <1>1, <1>2

-----------------------------------------------------------------------------
(* What calls carry, and what the page shows *)

Ops == {"listProjects", "createProject", "list", "member", "savePipeline", "select", "openLocal",
        "createJob", "pollJob", "listArtifacts", "uploadArtifact", "promote", "pollPromoted",
        "promoteList", "upload", "pollIngest", "uploadList", "createSession", "deleteSession"}
Flags == Kinds \union Lists \union {ClientExport, NoFlag, "restore"}
CallTypes == [op : Ops, dataset : MaybeDatasets, flag : Flags, base : MaybeBases,
              project : MaybeProjects, ticket : {"fresh", "current", "stale"}]
JobOps == {"createJob", "pollJob", "listArtifacts"}
SelectingOps == {"select", "upload", "pollIngest", "uploadList"}

\* What a request is about, from its first answer to its last.
Sound(c) ==
    /\ c.op \in SelectingOps \union {"createSession"} =>
          c.dataset \in Datasets /\ ProjectOf[c.dataset] = c.project
    /\ c.op = "openLocal" => c.dataset \in LocalDatasets
    /\ c.op = "uploadArtifact" => c.dataset \in Datasets /\ c.flag \in {ClientExport, NoFlag}
    /\ c.op \in JobOps => c.flag \in Kinds \union {NoFlag}
    /\ c.op \notin JobOps \union {"uploadArtifact"} => c.flag \notin Kinds \union {ClientExport}

\* A current ticket names the project of the page, and the latest one the choice that
\* the user still waits for.
CallOK(c) ==
    /\ c \in CallTypes /\ Sound(c)
    /\ StillCurrent(c) => c.project = currentProject
    /\ StillLatest(c) /\ c.op \in SelectingOps /\ choice # NoDataset =>
          c.op = "select" /\ c.dataset = choice

Waiting == \A c \in calls : CallOK(c)

PlainTypes ==
    /\ currentProject \in MaybeProjects /\ selected \in MaybeDatasets
    /\ auth \in {"settling", "ready", "signedOut"}
    /\ projects \subseteq Bases
    /\ lists \in [Lists -> SUBSET Projects]
    /\ artifacts \subseteq Datasets /\ jobs \subseteq Projects
    /\ shown \in MaybeDatasets /\ view \in MaybeDatasets
    /\ choice \in MaybeDatasets /\ remote \in MaybeDatasets
    /\ locals \subseteq LocalDatasets
    /\ pending \subseteq Kinds \union {ClientExport} /\ promoting \subseteq Datasets

Marks == linkApplied \in BOOLEAN /\ busy \in BOOLEAN /\ remotePending \in BOOLEAN

Page ==
    /\ \A l \in Lists : lists[l] \subseteq {currentProject} \ {NoProject}
    /\ jobs \subseteq {currentProject} \ {NoProject}
    /\ SelectionOfProject /\ ViewOfSelection /\ ArtifactsOfSelection
    /\ selected \in Datasets => shown = selected
    /\ remote # NoDataset => remote \in Datasets /\ ProjectOf[remote] = currentProject

Inv == ConnectionInv /\ PlainTypes /\ Marks /\ Waiting /\ Page /\ PendingHasHandler

USE DEF WhateverProject, StillCurrent, StillLatest, HasTicket

pageVars == <<currentProject, selected, lists, artifacts, jobs, shown, view, remote>>

LEMMA PageKept == ASSUME Page, UNCHANGED pageVars PROVE Page'
BY DEF Page, pageVars, SelectionOfProject, ViewOfSelection, ArtifactsOfSelection

LEMMA InitInv == Init => Inv
<1> SUFFICES ASSUME Init PROVE Inv
  OBVIOUS
<1> USE DEF Init, ScopeInit
<1>1. ConnectionInv
  BY ConnectionInitInv
<1>2. PlainTypes
  BY DEF PlainTypes, NoLists
<1>3. Marks
  BY DEF Marks
<1>4. Waiting /\ PendingHasHandler
  BY DEF Waiting, PendingHasHandler
<1>5. Page
  BY DEF Page, NoLists, SelectionOfProject, ViewOfSelection, ArtifactsOfSelection
<1> QED
  BY <1>1, <1>2, <1>3, <1>4, <1>5 DEF Inv

-----------------------------------------------------------------------------
(* Requests and tickets *)

LEMMA BaseType == Inv => connection.apiBase \in MaybeBases
BY DEF Inv, ConnectionInv, Connections, ConnectionTypeOK

LEMMA Asked ==
    ASSUME Inv, NEW op \in Ops, NEW d \in MaybeDatasets, NEW flag \in Flags,
           NEW r, r = Request(op, d, flag)
    PROVE  /\ r \in CallTypes
           /\ r.op = op /\ r.dataset = d /\ r.flag = flag
           /\ r.project = currentProject /\ r.ticket = "fresh"
<1>1. currentProject \in MaybeProjects
  BY DEF Inv, PlainTypes
<1> QED
  BY <1>1, BaseType DEF Request, RequestOf, CallTypes

LEMMA Continued ==
    ASSUME Inv, NEW c \in calls, NEW op \in Ops, NEW r, r = Continue(c, op)
    PROVE  /\ r \in CallTypes
           /\ r.op = op /\ r.dataset = c.dataset /\ r.flag = c.flag
           /\ r.project = c.project /\ r.ticket = c.ticket
<1>1. c \in CallTypes
  BY DEF Inv, Waiting, CallOK
<1> QED
  BY <1>1, BaseType DEF Continue, CallTypes

LEMMA Relisting ==
    ASSUME Inv, NEW r \in {ListProjectsCall}
    PROVE  r \in CallTypes /\ Sound(r) /\ r.op = "listProjects" /\ r.ticket = "stale"
<1>1. /\ r = [op |-> "listProjects", dataset |-> NoDataset, flag |-> NoFlag,
              base |-> connection.apiBase, project |-> NoProject, ticket |-> "stale"]
  BY DEF ListProjectsCall, RequestOf
<1>2. r \in CallTypes
  BY <1>1, BaseType DEF CallTypes, Ops, Flags
<1>3. Sound(r)
  BY <1>1 DEF Sound, JobOps, SelectingOps
<1> QED
  BY <1>1, <1>2, <1>3

LEMMA ListedAgainIs == ASSUME NEW changed PROVE ListedAgain(changed) \subseteq {ListProjectsCall}
BY DEF ListedAgain

\* A stale ticket asks nothing of the page.
LEMMA StaleOK ==
    ASSUME NEW r \in CallTypes, Sound(r), r.ticket = "stale"
    PROVE  CallOK(r)'
BY DEF CallOK

LEMMA SwitchedAwayIs ==
    ASSUME Inv, NEW held \in SUBSET calls, NEW r \in SwitchedAway(held)
    PROVE  r \in CallTypes /\ Sound(r) /\ r.ticket = "stale"
<1>1. PICK c \in held : r = [c EXCEPT !.ticket = "stale"]
  BY DEF SwitchedAway
<1>2. c \in CallTypes /\ Sound(c)
  BY DEF Inv, Waiting, CallOK
<1>3. r \in CallTypes /\ r.ticket = "stale"
  BY <1>1, <1>2 DEF CallTypes
<1>4. r.op = c.op /\ r.dataset = c.dataset /\ r.flag = c.flag /\ r.project = c.project
  BY <1>1, <1>2 DEF CallTypes
<1> QED
  BY <1>2, <1>3, <1>4 DEF Sound

LEMMA OvertakenIs ==
    ASSUME Inv, NEW held \in SUBSET calls, NEW r \in Overtaken(held)
    PROVE  /\ r \in CallTypes /\ Sound(r) /\ ~StillLatest(r)
           /\ StillCurrent(r) => r.project = currentProject
<1>1. PICK c \in held : r = [c EXCEPT !.ticket = IF c.ticket = "stale" THEN "stale" ELSE "current"]
  BY DEF Overtaken
<1>2. c \in CallTypes /\ Sound(c) /\ (StillCurrent(c) => c.project = currentProject)
  BY DEF Inv, Waiting, CallOK
<1>3. r \in CallTypes /\ r.ticket = IF c.ticket = "stale" THEN "stale" ELSE "current"
  BY <1>1, <1>2 DEF CallTypes
<1>4. r.op = c.op /\ r.dataset = c.dataset /\ r.flag = c.flag /\ r.project = c.project
  BY <1>1, <1>2 DEF CallTypes
<1>5. Sound(r)
  BY <1>2, <1>4 DEF Sound
<1> QED
  BY <1>2, <1>3, <1>4, <1>5

LEMMA OvertakenHolds ==
    ASSUME Inv, NEW held \in SUBSET calls, NEW c \in held
    PROVE  \E r \in Overtaken(held) : r.flag = c.flag /\ (StillCurrent(r) <=> StillCurrent(c))
<1>1. PICK r : r = [c EXCEPT !.ticket = IF c.ticket = "stale" THEN "stale" ELSE "current"]
  OBVIOUS
<1>2. c \in CallTypes
  BY DEF Inv, Waiting, CallOK
<1>3. r \in Overtaken(held)
  BY <1>1 DEF Overtaken
<1>4. r.flag = c.flag /\ r.ticket = IF c.ticket = "stale" THEN "stale" ELSE "current"
  BY <1>1, <1>2 DEF CallTypes
<1> QED
  BY <1>3, <1>4

\* A call keeps what it carries in every step that leaves the project and brings no
\* new choice.
LEMMA CallKept ==
    ASSUME NEW c, CallOK(c), currentProject' = currentProject, choice' \in {choice, NoDataset}
    PROVE  CallOK(c)'
BY DEF CallOK

LEMMA NotPending ==
    ASSUME Inv, NEW c \in calls, c.op \notin JobOps \union {"uploadArtifact"}
    PROVE  c.flag \notin pending
<1>1. Sound(c) /\ pending \subseteq Kinds \union {ClientExport}
  BY DEF Inv, Waiting, CallOK, PlainTypes
<1> QED
  BY <1>1 DEF Sound

-----------------------------------------------------------------------------
(* Steps that only ask, only answer, or ask in answer *)

Frame ==
    /\ ConnectionInv' /\ PlainTypes' /\ Marks' /\ Page'
    /\ currentProject' = currentProject /\ choice' \in {choice, NoDataset}

LEMMA AskInv ==
    ASSUME Inv, Frame, NEW new, \A r \in new : CallOK(r)', calls' = calls \union new,
           \A flag \in pending' \ pending : \E r \in new : r.flag = flag /\ StillCurrent(r)
    PROVE  Inv'
<1>1. Waiting'
  BY CallKept DEF Inv, Frame, Waiting
<1>2. PendingHasHandler'
  BY DEF Inv, Frame, PendingHasHandler
<1> QED
  BY <1>1, <1>2 DEF Inv, Frame

LEMMA AnswerInv ==
    ASSUME Inv, Frame, NEW c \in calls, NEW new, \A r \in new : CallOK(r)',
           calls' = (calls \ {c}) \union new, pending' \subseteq pending,
           c.flag \in pending' /\ (StillCurrent(c) \/ c.flag = ClientExport) =>
              \E r \in new : r.flag = c.flag /\ (StillCurrent(r) \/ c.flag = ClientExport)
    PROVE  Inv'
<1>1. Waiting'
  BY CallKept DEF Inv, Frame, Waiting
<1>2. PendingHasHandler'
  <2> SUFFICES ASSUME NEW flag \in pending', HasTicket'
               PROVE  \E r \in calls' : r.flag = flag /\ (StillCurrent(r) \/ flag = ClientExport)
    BY DEF PendingHasHandler
  <2>1. PICK b \in calls : b.flag = flag /\ (StillCurrent(b) \/ flag = ClientExport)
    BY DEF Inv, Frame, PendingHasHandler
  <2>2. CASE b # c
    BY <2>1, <2>2
  <2>3. CASE b = c
    BY <2>1, <2>3
  <2> QED
    BY <2>2, <2>3
<1> QED
  BY <1>1, <1>2 DEF Inv, Frame

LEMMA ConnectionKept == ASSUME Inv, UNCHANGED connectionVars PROVE ConnectionInv'
BY DEF Inv, ConnectionInv, ConnectionTypeOK, ConnectionSettles, ConnectedCapabilities,
   ConnectingHasAttempt, AttemptsInv, Connected, connectionVars

\* Steps that leave the page as it is.
LEMMA StillFrame ==
    ASSUME Inv, UNCHANGED <<connectionVars, pageVars, auth, projects, locals>>,
           choice' \in {choice, NoDataset}, Marks',
           pending' \subseteq Kinds \union {ClientExport}, promoting' \subseteq Datasets
    PROVE  Frame
<1>1. ConnectionInv' /\ Page'
  BY ConnectionKept, PageKept DEF Inv
<1>2. PlainTypes'
  BY DEF Inv, PlainTypes, pageVars
<1> QED
  BY <1>1, <1>2 DEF Frame, pageVars

LEMMA Asking ==
    ASSUME Inv, Frame, NEW op \in Ops, NEW d \in MaybeDatasets, NEW flag \in Flags,
           Sound(Request(op, d, flag)), op \in SelectingOps => choice' = NoDataset,
           calls' = calls \union {Request(op, d, flag)}, pending' \subseteq pending \union {flag}
    PROVE  Inv'
<1>1. PICK r : r = Request(op, d, flag)
  OBVIOUS
<1>2. /\ r \in CallTypes /\ Sound(r)
      /\ r.op = op /\ r.flag = flag /\ r.project = currentProject /\ r.ticket = "fresh"
  BY <1>1, Asked
<1>3. CallOK(r)'
  BY <1>2 DEF CallOK, Frame
<1>4. PICK new : new = {r}
  OBVIOUS
<1>5. calls' = calls \union new /\ \A q \in new : CallOK(q)'
  BY <1>1, <1>3, <1>4
<1>6. \A f \in pending' \ pending : \E q \in new : q.flag = f /\ StillCurrent(q)
  BY <1>2, <1>4
<1> QED
  BY <1>5, <1>6, AskInv

LEMMA Dropping ==
    ASSUME Inv, Frame, NEW c \in calls, calls' = calls \ {c}, pending' \subseteq pending,
           c.flag \in pending' => ~StillCurrent(c) /\ c.flag # ClientExport
    PROVE  Inv'
<1>1. calls' = (calls \ {c}) \union {}
  OBVIOUS
<1> QED
  BY <1>1, AnswerInv

LEMMA Continuing ==
    ASSUME Inv, Frame, NEW c \in calls, NEW op \in Ops, Sound(Continue(c, op)),
           op \in SelectingOps => c.op \in SelectingOps \ {"select"},
           calls' = (calls \ {c}) \union {Continue(c, op)}, pending' \subseteq pending
    PROVE  Inv'
<1>1. PICK r : r = Continue(c, op)
  OBVIOUS
<1>2. /\ r \in CallTypes /\ Sound(r)
      /\ r.op = op /\ r.flag = c.flag /\ r.project = c.project /\ r.ticket = c.ticket
  BY <1>1, Continued
<1>3. CallOK(c)
  BY DEF Inv, Waiting
<1>4. CallOK(r)'
  BY <1>2, <1>3 DEF CallOK, Frame
<1>5. PICK new : new = {r}
  OBVIOUS
<1>6. calls' = (calls \ {c}) \union new /\ \A q \in new : CallOK(q)'
  BY <1>1, <1>4, <1>5
<1>7. r \in new /\ r.flag = c.flag /\ (StillCurrent(c) => StillCurrent(r))
  BY <1>2, <1>5
<1> QED
  BY <1>6, <1>7, AnswerInv

-----------------------------------------------------------------------------
(* Requests *)

USE DEF Ops, Flags, SelectingOps, JobOps

LEMMA CreateProjectInv == ASSUME Inv, CreateProject PROVE Inv'
<1> USE DEF CreateProject
<1>1. Marks' /\ Frame
  BY StillFrame DEF Inv, Marks, PlainTypes, scopeVars, listVars, shownVars, flagVars, remoteVars, pageVars
<1>2. Sound(Request("createProject", NoDataset, NoFlag))
  BY DEF Sound, Request, RequestOf
<1> QED
  BY <1>1, <1>2, Asking DEF flagVars

LEMMA ChangeMembersInv == ASSUME Inv, ChangeMembers PROVE Inv'
<1> USE DEF ChangeMembers
<1>1. Marks' /\ Frame
  BY StillFrame DEF Inv, Marks, PlainTypes, scopeVars, listVars, shownVars, flagVars, remoteVars, pageVars
<1>2. Sound(Request("member", NoDataset, NoFlag))
  BY DEF Sound, Request, RequestOf
<1> QED
  BY <1>1, <1>2, Asking DEF flagVars

LEMMA SavePipelineInv == ASSUME Inv, SavePipeline PROVE Inv'
<1> USE DEF SavePipeline
<1>1. Marks' /\ Frame
  BY StillFrame DEF Inv, Marks, PlainTypes, scopeVars, listVars, shownVars, flagVars, remoteVars, pageVars
<1>2. Sound(Request("savePipeline", NoDataset, NoFlag))
  BY DEF Sound, Request, RequestOf
<1> QED
  BY <1>1, <1>2, Asking DEF flagVars

LEMMA OpenLocalInv == ASSUME Inv, NEW d \in LocalDatasets, OpenLocal(d) PROVE Inv'
<1> USE DEF OpenLocal
<1>1. Marks' /\ Frame
  BY StillFrame DEF Inv, Marks, PlainTypes, scopeVars, listVars, shownVars, flagVars, remoteVars, pageVars
<1>2. PICK r : r = [ListProjectsCall EXCEPT !.op = "openLocal", !.dataset = d]
  OBVIOUS
<1>3. r = [op |-> "openLocal", dataset |-> d, flag |-> NoFlag, base |-> connection.apiBase,
           project |-> NoProject, ticket |-> "stale"]
  BY <1>2 DEF ListProjectsCall, RequestOf
<1>4. r \in CallTypes /\ Sound(r) /\ r.ticket = "stale"
  BY <1>3, BaseType DEF CallTypes, Sound
<1>5. PICK new : new = {r}
  OBVIOUS
<1>6. \A q \in new : CallOK(q)'
  BY <1>4, <1>5, StaleOK
<1>7. calls' = calls \union new /\ pending' = pending
  BY <1>2, <1>5 DEF flagVars
<1> QED
  BY <1>1, <1>6, <1>7, AskInv

LEMMA RunDatasetJobInv == ASSUME Inv, NEW kind \in Kinds, RunDatasetJob(kind) PROVE Inv'
<1> USE DEF RunDatasetJob
<1>1. Marks' /\ Frame
  BY StillFrame DEF Inv, Marks, PlainTypes, scopeVars, listVars, shownVars, remoteVars, pageVars
<1>2. PICK d : d = selected
  OBVIOUS
<1>3. d \in MaybeDatasets
  BY <1>2 DEF Inv, PlainTypes
<1>4. Sound(Request("createJob", d, kind))
  BY DEF Sound, Request, RequestOf
<1> QED
  BY <1>1, <1>2, <1>3, <1>4, Asking

LEMMA RunUnflaggedJobInv == ASSUME Inv, RunUnflaggedJob PROVE Inv'
<1> USE DEF RunUnflaggedJob
<1>1. Marks' /\ Frame
  BY StillFrame DEF Inv, Marks, PlainTypes, scopeVars, listVars, shownVars, flagVars, remoteVars, pageVars
<1>2. Sound(Request("createJob", NoDataset, NoFlag))
  BY DEF Sound, Request, RequestOf
<1> QED
  BY <1>1, <1>2, Asking DEF flagVars

LEMMA UploadArtifactInv ==
    ASSUME Inv, NEW flag \in {ClientExport, NoFlag}, UploadArtifact(flag) PROVE Inv'
<1> USE DEF UploadArtifact
<1>1. Marks' /\ Frame
  BY StillFrame DEF Inv, Marks, PlainTypes, scopeVars, listVars, shownVars, remoteVars, pageVars
<1>2. PICK d : d = shown
  OBVIOUS
<1>3. d \in Datasets
  BY <1>2 DEF ServerSelected
<1>4. Sound(Request("uploadArtifact", d, flag))
  BY <1>3 DEF Sound, Request, RequestOf
<1> QED
  BY <1>1, <1>2, <1>3, <1>4, Asking

LEMMA PromoteArtifactInv == ASSUME Inv, NEW d \in Datasets, PromoteArtifact(d) PROVE Inv'
<1> USE DEF PromoteArtifact
<1>1. Marks' /\ Frame
  BY StillFrame DEF Inv, Marks, PlainTypes, scopeVars, listVars, shownVars, remoteVars, pageVars
<1>2. Sound(Request("promote", d, NoFlag))
  BY DEF Sound, Request, RequestOf
<1> QED
  BY <1>1, <1>2, Asking

\* The choice that an upload takes over is no longer one to respect.
LEMMA UploadInv == ASSUME Inv, NEW d \in Datasets, Upload(d) PROVE Inv'
<1> USE DEF Upload
<1>1. Marks' /\ Frame
  BY StillFrame DEF Inv, Marks, PlainTypes, scopeVars, listVars, remoteVars, pageVars
<1>2. Sound(Request("upload", d, NoFlag))
  BY DEF Sound, Request, RequestOf
<1> QED
  BY <1>1, <1>2, Asking

LEMMA StartRemoteInv == ASSUME Inv, StartRemote PROVE Inv'
<1> USE DEF StartRemote
<1>1. Marks' /\ Frame
  BY StillFrame DEF Inv, Marks, PlainTypes, scopeVars, listVars, shownVars, flagVars, pageVars
<1>2. PICK d : d = selected
  OBVIOUS
<1>3. d \in Datasets /\ ProjectOf[d] = currentProject
  BY <1>2 DEF Inv, Page, SelectionOfProject, ServerSelected
<1>4. Sound(Request("createSession", d, NoFlag))
  BY <1>3 DEF Sound, Request, RequestOf
<1> QED
  BY <1>1, <1>2, <1>3, <1>4, Asking DEF flagVars

LEMMA StopRemoteInv == ASSUME Inv, StopRemote PROVE Inv'
<1> USE DEF StopRemote
<1>1. Marks' /\ Frame
  BY StillFrame DEF Inv, Marks, PlainTypes, scopeVars, listVars, shownVars, flagVars, pageVars
<1>2. PICK d : d = remote
  OBVIOUS
<1>3. d \in MaybeDatasets
  BY <1>2 DEF Inv, PlainTypes
<1>4. Sound(Request("deleteSession", d, NoFlag))
  BY DEF Sound, Request, RequestOf
<1> QED
  BY <1>1, <1>2, <1>3, <1>4, Asking DEF flagVars

-----------------------------------------------------------------------------
(* Answers *)

\* The lists on the screen, one of them read again or not.
LEMMA ListsFrame ==
    ASSUME Inv, NEW l, NEW v \in SUBSET ({currentProject} \ {NoProject}),
           lists' \in {lists, [lists EXCEPT ![l] = v]},
           UNCHANGED <<connectionVars, scopeVars, auth, projects, artifacts, jobs, shown, view,
                       choice, locals, remote, pending>>,
           Marks', promoting' \subseteq Datasets
    PROVE  Frame
<1>1. v \subseteq Projects
  BY DEF Inv, PlainTypes
<1>2. lists' \in [Lists -> SUBSET Projects]
  BY <1>1 DEF Inv, PlainTypes
<1>3. \A k \in Lists : lists'[k] \subseteq {currentProject} \ {NoProject}
  BY DEF Inv, PlainTypes, Page
<1>4. PlainTypes'
  BY <1>2 DEF Inv, PlainTypes, scopeVars
<1>5. Page'
  BY <1>3 DEF Inv, Page, SelectionOfProject, ViewOfSelection, ArtifactsOfSelection, scopeVars
<1>6. ConnectionInv'
  BY ConnectionKept
<1> QED
  BY <1>4, <1>5, <1>6 DEF Frame, scopeVars

\* The jobs on the screen, with those that an answer brings to a current ticket.
LEMMA JobsFrame ==
    ASSUME Inv, NEW c \in calls, Answerable(c), jobs' = JobShown(c),
           UNCHANGED <<connectionVars, scopeVars, auth, projects, lists, artifacts, shownVars, remote>>,
           Marks', pending' \subseteq pending, promoting' \subseteq Datasets
    PROVE  Frame
<1>1. CallOK(c)
  BY DEF Inv, Waiting
<1>2. jobs' \subseteq {currentProject} \ {NoProject} /\ jobs' \subseteq Projects
  BY <1>1 DEF Inv, PlainTypes, Page, CallOK, CallTypes, JobShown, Answerable
<1>3. PlainTypes'
  BY <1>2 DEF Inv, PlainTypes, scopeVars, shownVars
<1>4. Page'
  BY <1>2 DEF Inv, Page, SelectionOfProject, ViewOfSelection, ArtifactsOfSelection, scopeVars, shownVars
<1>5. ConnectionInv'
  BY ConnectionKept
<1> QED
  BY <1>3, <1>4, <1>5 DEF Frame, scopeVars, shownVars

LEMMA CallIs ==
    ASSUME Inv, NEW c \in calls
    PROVE  /\ c \in CallTypes /\ Sound(c) /\ CallOK(c)
           /\ StillCurrent(c) => c.project = currentProject
BY DEF Inv, Waiting, CallOK

LEMMA ContinuedSound ==
    ASSUME Inv, NEW c \in calls, NEW op \in Ops,
           op \in SelectingOps \union {"createSession"} => c.op \in SelectingOps \union {"createSession"},
           op # "openLocal", op # "uploadArtifact", c.op # "uploadArtifact", op \in JobOps <=> c.op \in JobOps
    PROVE  Sound(Continue(c, op))
<1>1. PICK r : r = Continue(c, op)
  OBVIOUS
<1>2. r.op = op /\ r.dataset = c.dataset /\ r.flag = c.flag /\ r.project = c.project
  BY <1>1, Continued
<1>3. Sound(r)
  BY <1>2, CallIs DEF Sound
<1> QED
  BY <1>1, <1>3

LEMMA ListAnswersInv ==
    ASSUME Inv, NEW c \in calls, NEW ok \in BOOLEAN, ListAnswers(c, ok) PROVE Inv'
<1> USE DEF ListAnswers
<1>1. PICK v : v = IF ok THEN {c.project} ELSE {}
  OBVIOUS
<1>2. CASE StillCurrent(c) /\ (ok \/ c.flag = "members")
  <2>1. v \in SUBSET ({currentProject} \ {NoProject})
    BY <1>1, <1>2, CallIs DEF Answerable
  <2>2. PICK l : l = c.flag
    OBVIOUS
  <2>3. lists' = [lists EXCEPT ![l] = v]
    BY <1>1, <1>2, <2>2
  <2>4. Marks' /\ promoting' \subseteq Datasets
    BY DEF Inv, Marks, PlainTypes, flagVars, shownVars, remoteVars
  <2>5. Frame
    BY <2>1, <2>3, <2>4, ListsFrame DEF flagVars, shownVars, remoteVars
  <2> QED
    BY <2>5, NotPending, Dropping DEF flagVars
<1>3. CASE ~(StillCurrent(c) /\ (ok \/ c.flag = "members"))
  <2>1. lists' = lists
    BY <1>3
  <2>2. Marks'
    BY DEF Inv, Marks, flagVars, shownVars, remoteVars
  <2>3. Frame
    BY <2>1, <2>2, StillFrame DEF Inv, PlainTypes, scopeVars, flagVars, shownVars, remoteVars, pageVars
  <2> QED
    BY <2>3, NotPending, Dropping DEF flagVars
<1> QED
  BY <1>2, <1>3

LEMMA MembersChangedInv == ASSUME Inv, NEW c \in calls, MembersChanged(c) PROVE Inv'
<1> USE DEF MembersChanged
<1>1. Marks' /\ Frame
  BY StillFrame DEF Inv, Marks, PlainTypes, scopeVars, listVars, shownVars, flagVars, remoteVars, pageVars
<1>2. PICK r : r = Request("list", NoDataset, "members")
  OBVIOUS
<1>3. CallOK(r)'
  <2>1. /\ r \in CallTypes /\ r.op = "list" /\ r.flag = "members"
        /\ r.project = currentProject
    BY <1>2, Asked
  <2> QED
    BY <1>1, <2>1 DEF CallOK, Sound, Frame
<1>4. PICK new \in SUBSET {r} : calls' = (calls \ {c}) \union new
  BY <1>2
<1> QED
  BY <1>1, <1>3, <1>4, NotPending, AnswerInv DEF flagVars

LEMMA PipelineSavedInv == ASSUME Inv, NEW c \in calls, PipelineSaved(c) PROVE Inv'
<1> USE DEF PipelineSaved
<1>1. PICK v : v = IF StillCurrent(c) THEN lists["pipelines"] \union {c.project} ELSE {}
  OBVIOUS
<1>2. v \in SUBSET ({currentProject} \ {NoProject})
  BY <1>1, CallIs DEF Inv, Page, Answerable
<1>3. lists' \in {lists, [lists EXCEPT !["pipelines"] = v]}
  BY <1>1
<1>4. Marks' /\ promoting' \subseteq Datasets
  BY DEF Inv, Marks, PlainTypes, flagVars, shownVars, remoteVars
<1>5. Frame
  BY <1>2, <1>3, <1>4, ListsFrame DEF flagVars, shownVars, remoteVars
<1> QED
  BY <1>5, NotPending, Dropping DEF flagVars

LEMMA JobCreatedInv == ASSUME Inv, NEW c \in calls, JobCreated(c) PROVE Inv'
<1> USE DEF JobCreated
<1>1. Marks' /\ promoting' \subseteq Datasets
  BY DEF Inv, Marks, PlainTypes, shownVars, flagVars, remoteVars
<1>2. Frame
  BY <1>1, JobsFrame DEF flagVars, remoteVars
<1> QED
  BY <1>2, ContinuedSound, Continuing DEF flagVars

LEMMA JobPolledInv ==
    ASSUME Inv, NEW c \in calls, NEW outcome \in {"active", "succeeded", "ended"}, JobPolled(c, outcome)
    PROVE  Inv'
<1> USE DEF JobPolled
<1>1. Marks' /\ promoting' \subseteq Datasets
  BY DEF Inv, Marks, PlainTypes, shownVars, remoteVars
<1>2. pending' \subseteq pending
  BY DEF FlagCleared
<1>3. Frame
  BY <1>1, <1>2, JobsFrame DEF remoteVars
<1>4. CASE outcome = "active"
  <2>1. calls' = (calls \ {c}) \union {Continue(c, "pollJob")}
    BY <1>4
  <2> QED
    BY <1>2, <1>3, <2>1, ContinuedSound, Continuing
<1>5. CASE outcome = "succeeded" /\ StillCurrent(c) /\ selected # NoDataset
  <2>1. PICK r : r = Request("listArtifacts", selected, c.flag)
    OBVIOUS
  <2>2. PICK d : d = selected
    OBVIOUS
  <2>3. d \in MaybeDatasets /\ c.flag \in Kinds \union {NoFlag}
    BY <2>2, CallIs DEF Inv, PlainTypes, Sound
  <2>4. /\ r \in CallTypes /\ r.op = "listArtifacts" /\ r.flag = c.flag
        /\ r.project = currentProject /\ r.ticket = "fresh"
    BY <2>1, <2>2, <2>3, Asked
  <2>5. CallOK(r)'
    BY <1>3, <2>3, <2>4 DEF CallOK, Sound, Frame
  <2>6. PICK new : new = {r}
    OBVIOUS
  <2>7. calls' = (calls \ {c}) \union new /\ pending' = pending /\ \A q \in new : CallOK(q)'
    BY <1>5, <2>1, <2>5, <2>6
  <2>8. r \in new /\ r.flag = c.flag /\ StillCurrent(r)
    BY <2>4, <2>6
  <2> QED
    BY <1>3, <2>7, <2>8, AnswerInv
<1>6. CASE ~(outcome = "active" \/ (outcome = "succeeded" /\ StillCurrent(c) /\ selected # NoDataset))
  <2>1. calls' = calls \ {c} /\ pending' = FlagCleared(c)
    BY <1>6
  <2>2. c.flag \in Kinds \union {NoFlag}
    BY CallIs DEF Sound
  <2>3. c.flag \in pending' => ~StillCurrent(c) /\ c.flag # ClientExport
    BY <2>1, <2>2 DEF FlagCleared
  <2> QED
    BY <1>2, <1>3, <2>1, <2>3, Dropping
<1> QED
  BY <1>4, <1>5, <1>6

LEMMA ArtifactPromotedInv == ASSUME Inv, NEW c \in calls, ArtifactPromoted(c) PROVE Inv'
<1> USE DEF ArtifactPromoted
<1>1. Marks' /\ promoting' \subseteq Datasets
  BY DEF Inv, Marks, PlainTypes, shownVars, flagVars, remoteVars
<1>2. Frame
  BY <1>1, JobsFrame DEF flagVars, remoteVars
<1> QED
  BY <1>2, ContinuedSound, Continuing DEF flagVars

LEMMA PromotedIngestedInv == ASSUME Inv, NEW c \in calls, PromotedIngested(c) PROVE Inv'
<1> USE DEF PromotedIngested
<1>1. Marks' /\ promoting' \subseteq Datasets
  BY DEF Inv, Marks, PlainTypes, shownVars, remoteVars
<1>2. Frame
  BY <1>1, JobsFrame DEF remoteVars
<1>3. CASE StillCurrent(c)
  <2>1. calls' = (calls \ {c}) \union {Continue(c, "promoteList")}
    BY <1>3
  <2> QED
    BY <1>2, <2>1, ContinuedSound, Continuing
<1>4. CASE ~StillCurrent(c)
  BY <1>2, <1>4, NotPending, Dropping
<1> QED
  BY <1>3, <1>4

LEMMA PromotedListedInv ==
    ASSUME Inv, NEW c \in calls, NEW ok \in BOOLEAN, PromotedListed(c, ok) PROVE Inv'
<1> USE DEF PromotedListed
<1>1. PICK v : v = IF ok /\ StillCurrent(c) THEN {c.project} ELSE {}
  OBVIOUS
<1>2. v \in SUBSET ({currentProject} \ {NoProject})
  BY <1>1, CallIs DEF Answerable
<1>3. lists' \in {lists, [lists EXCEPT !["datasets"] = v]}
  BY <1>1
<1>4. Marks' /\ promoting' \subseteq Datasets
  BY DEF Inv, Marks, PlainTypes, shownVars, remoteVars
<1>5. Frame
  BY <1>2, <1>3, <1>4, ListsFrame DEF shownVars, remoteVars
<1> QED
  BY <1>5, NotPending, Dropping

LEMMA UploadedInv == ASSUME Inv, NEW c \in calls, Uploaded(c) PROVE Inv'
<1> USE DEF Uploaded
<1>1. Marks'
  BY DEF Inv, Marks, shownVars, remoteVars
<1>2. Frame
  BY <1>1, StillFrame DEF Inv, PlainTypes, scopeVars, listVars, shownVars, remoteVars, pageVars
<1> QED
  BY <1>2, ContinuedSound, Continuing

LEMMA UploadIngestedInv ==
    ASSUME Inv, NEW c \in calls, NEW ended \in BOOLEAN, UploadIngested(c, ended) PROVE Inv'
<1> USE DEF UploadIngested
<1>1. Marks' /\ promoting' \subseteq Datasets
  BY DEF Inv, Marks, PlainTypes, shownVars, remoteVars
<1>2. Frame
  BY <1>1, JobsFrame DEF remoteVars
<1>3. CASE ~ended
  <2>1. calls' = (calls \ {c}) \union {Continue(c, "pollIngest")}
    BY <1>3
  <2> QED
    BY <1>2, <2>1, ContinuedSound, Continuing
<1>4. CASE ended /\ StillCurrent(c)
  <2>1. calls' = (calls \ {c}) \union {Continue(c, "uploadList")}
    BY <1>4
  <2> QED
    BY <1>2, <2>1, ContinuedSound, Continuing
<1>5. CASE ended /\ ~StillCurrent(c)
  BY <1>2, <1>5, NotPending, Dropping
<1> QED
  BY <1>3, <1>4, <1>5

\* The artifacts that come are those of the dataset on the screen.
LEMMA StillSelectedShown ==
    ASSUME Inv, NEW c \in calls, StillSelected(c), c.dataset \in Datasets
    PROVE  shown = c.dataset
BY DEF Inv, Page, StillSelected

LEMMA ArtifactsFrame ==
    ASSUME Inv, artifacts' \subseteq {shown}, artifacts' \subseteq Datasets,
           UNCHANGED <<connectionVars, scopeVars, auth, projects, lists, jobs, shownVars, remote>>,
           Marks', pending' \subseteq pending, promoting' = promoting
    PROVE  Frame
<1>1. PlainTypes'
  BY DEF Inv, PlainTypes, scopeVars, shownVars
<1>2. Page'
  BY DEF Inv, Page, SelectionOfProject, ViewOfSelection, ArtifactsOfSelection, scopeVars, shownVars
<1>3. ConnectionInv'
  BY ConnectionKept
<1> QED
  BY <1>1, <1>2, <1>3 DEF Frame, scopeVars, shownVars

LEMMA ArtifactsListedInv ==
    ASSUME Inv, NEW c \in calls, NEW ok \in BOOLEAN, ArtifactsListed(c, ok) PROVE Inv'
<1> USE DEF ArtifactsListed
<1>1. Marks'
  BY DEF Inv, Marks, shownVars, remoteVars
<1>2. artifacts' \subseteq {shown} /\ artifacts' \subseteq Datasets
  BY StillSelectedShown DEF Inv, PlainTypes, Page, ArtifactsOfSelection
<1>3. pending' \subseteq pending
  BY DEF FlagCleared
<1>4. Frame
  BY <1>1, <1>2, <1>3, ArtifactsFrame DEF remoteVars
<1>5. c.flag \in Kinds \union {NoFlag}
  BY CallIs DEF Sound
<1>6. c.flag \in pending' => ~StillCurrent(c) /\ c.flag # ClientExport
  BY <1>5 DEF FlagCleared
<1> QED
  BY <1>3, <1>4, <1>6, Dropping

LEMMA ArtifactUploadedInv ==
    ASSUME Inv, NEW c \in calls, NEW ok \in BOOLEAN, ArtifactUploaded(c, ok) PROVE Inv'
<1> USE DEF ArtifactUploaded
<1>1. Marks'
  BY DEF Inv, Marks, shownVars, remoteVars
<1>2. c.dataset \in Datasets
  BY CallIs DEF Sound
<1>3. artifacts' \subseteq {shown} /\ artifacts' \subseteq Datasets
  BY <1>2, StillSelectedShown DEF Inv, PlainTypes, Page, ArtifactsOfSelection
<1>4. Frame
  BY <1>1, <1>3, ArtifactsFrame DEF remoteVars
<1> QED
  BY <1>4, Dropping

LEMMA RemoteStartedInv == ASSUME Inv, NEW c \in calls, RemoteStarted(c) PROVE Inv'
<1> USE DEF RemoteStarted
<1>1. Marks'
  BY DEF Inv, Marks, shownVars, flagVars
<1>2. /\ remote' # NoDataset => remote' \in Datasets /\ ProjectOf[remote'] = currentProject
      /\ remote' \in MaybeDatasets
  BY CallIs DEF Inv, PlainTypes, Page, Sound
<1>3. PlainTypes'
  BY <1>2 DEF Inv, PlainTypes, scopeVars, listVars, shownVars, flagVars
<1>4. Page'
  BY <1>2 DEF Inv, Page, SelectionOfProject, ViewOfSelection, ArtifactsOfSelection, scopeVars,
     listVars, shownVars
<1>5. Frame
  BY <1>1, <1>3, <1>4, ConnectionKept DEF Frame, scopeVars, shownVars
<1> QED
  BY <1>5, NotPending, Dropping DEF flagVars

LEMMA RemoteStoppedInv == ASSUME Inv, NEW c \in calls, RemoteStopped(c) PROVE Inv'
<1> USE DEF RemoteStopped
<1>1. Marks'
  BY DEF Inv, Marks, shownVars, flagVars
<1>2. PlainTypes'
  BY DEF Inv, PlainTypes, scopeVars, listVars, shownVars, flagVars
<1>3. Page'
  BY DEF Inv, Page, SelectionOfProject, ViewOfSelection, ArtifactsOfSelection, scopeVars,
     listVars, shownVars
<1>4. Frame
  BY <1>1, <1>2, <1>3, ConnectionKept DEF Frame, scopeVars, shownVars
<1> QED
  BY <1>4, NotPending, Dropping DEF flagVars

LEMMA CallFailsInv == ASSUME Inv, NEW c \in calls, CallFails(c) PROVE Inv'
<1> USE DEF CallFails
<1>1. Marks'
  BY DEF Inv, Marks, shownVars
<1>2. pending' \subseteq pending /\ promoting' \subseteq promoting
  BY DEF FlagCleared
<1>3. Frame
  BY <1>1, <1>2, StillFrame DEF Inv, PlainTypes, scopeVars, listVars, shownVars, pageVars
<1>4. CASE c.op \in {"createJob", "pollJob"}
  <2>1. c.flag \in Kinds \union {NoFlag}
    BY <1>4, CallIs DEF Sound
  <2>2. c.flag \in pending' => ~StillCurrent(c) /\ c.flag # ClientExport
    BY <1>4, <2>1 DEF FlagCleared
  <2> QED
    BY <1>2, <1>3, <2>2, Dropping
<1>5. CASE c.op \notin {"createJob", "pollJob"}
  <2>1. c.flag \notin pending
    BY <1>5, NotPending
  <2> QED
    BY <1>2, <1>3, <2>1, Dropping
<1> QED
  BY <1>4, <1>5

-----------------------------------------------------------------------------
(* Selections *)

LEMMA RelistOK == ASSUME Inv, NEW r \in {ListProjectsCall} PROVE CallOK(r)'
BY Relisting, StaleOK

\* A new selection leaves no latest ticket but its own.
LEMMA OvertakeInv ==
    ASSUME Inv, NEW held \in SUBSET calls, \A c \in calls \ held : c.flag \notin pending,
           NEW new, \A r \in new : CallOK(r)', calls' = Overtaken(held) \union new,
           ConnectionInv', PlainTypes', Marks', Page',
           currentProject' = currentProject, pending' = pending
    PROVE  Inv'
<1>1. \A r \in Overtaken(held) : CallOK(r)'
  BY OvertakenIs DEF CallOK
<1>2. Waiting'
  BY <1>1 DEF Waiting
<1>3. PendingHasHandler'
  <2> SUFFICES ASSUME NEW flag \in pending, HasTicket
               PROVE  \E r \in calls' : r.flag = flag /\ (StillCurrent(r) \/ flag = ClientExport)
    BY DEF PendingHasHandler
  <2>1. PICK c \in calls : c.flag = flag /\ (StillCurrent(c) \/ flag = ClientExport)
    BY DEF Inv, PendingHasHandler
  <2>2. c \in held
    BY <2>1
  <2> QED
    BY <2>1, <2>2, OvertakenHolds
<1> QED
  BY <1>2, <1>3 DEF Inv

LEMMA AskForInv ==
    ASSUME Inv, NEW d \in Datasets, ProjectOf[d] = currentProject, NEW flag \in {NoFlag, "restore"},
           AskFor(d, flag), linkApplied' \in BOOLEAN,
           UNCHANGED <<connectionVars, auth, listVars, shown, view, locals, flagVars, remoteVars>>
    PROVE  Inv'
<1> USE DEF AskFor
<1>1. PICK r : r = Request("select", d, flag)
  OBVIOUS
<1>2. /\ r \in CallTypes /\ r.op = "select" /\ r.dataset = d /\ r.flag = flag
      /\ r.project = currentProject /\ r.ticket = "fresh"
  BY <1>1, Asked
<1>3. CallOK(r)'
  BY <1>2 DEF CallOK, Sound, scopeVars
<1>4. PICK held \in SUBSET calls : held = calls
  OBVIOUS
<1>5. PICK new : new = {r}
  OBVIOUS
<1>6. /\ calls' = Overtaken(held) \union new /\ pending' = pending
      /\ \A q \in new : CallOK(q)'
      /\ \A c \in calls \ held : c.flag \notin pending
  BY <1>1, <1>3, <1>4, <1>5 DEF flagVars
<1>7. PlainTypes' /\ Marks'
  BY DEF Inv, PlainTypes, Marks, scopeVars, listVars, flagVars, remoteVars
<1>8. ConnectionInv' /\ Page'
  BY ConnectionKept, PageKept DEF Inv, pageVars, scopeVars, listVars, remoteVars
<1> QED
  BY <1>6, <1>7, <1>8, OvertakeInv DEF scopeVars

LEMMA SelectDatasetInv == ASSUME Inv, NEW d \in Datasets, SelectDataset(d) PROVE Inv'
<1>1. ProjectOf[d] = currentProject
  BY DEF SelectDataset, Listed, Inv, Page
<1>2. linkApplied' \in BOOLEAN
  BY DEF SelectDataset, Inv, Marks
<1> QED
  BY <1>1, <1>2, AskForInv DEF SelectDataset

LEMMA RestorePipelineInv == ASSUME Inv, NEW d \in Datasets, RestorePipeline(d) PROVE Inv'
<1>1. linkApplied' \in BOOLEAN
  BY DEF RestorePipeline, Inv, Marks
<1> QED
  BY <1>1, AskForInv DEF RestorePipeline

LEMMA ApplyDeepLinkInv == ASSUME Inv, ApplyDeepLink PROVE Inv'
<1>1. DeepLink.dataset \in Datasets /\ ProjectOf[DeepLink.dataset] = currentProject
  BY DEF ApplyDeepLink, Inv, Page
<1>2. PICK flag \in {NoFlag, "restore"} : AskFor(DeepLink.dataset, flag)
  BY DEF ApplyDeepLink
<1> QED
  BY <1>1, <1>2, AskForInv DEF ApplyDeepLink

LEMMA DatasetAnswersInv == ASSUME Inv, NEW c \in calls, DatasetAnswers(c) PROVE Inv'
<1> USE DEF DatasetAnswers
<1>1. Marks'
  BY DEF Inv, Marks, flagVars
<1>2. CASE ~StillLatest(c)
  <2>1. Frame
    BY <1>1, <1>2, StillFrame DEF Inv, PlainTypes, flagVars, pageVars
  <2> QED
    BY <1>2, <2>1, NotPending, Dropping DEF flagVars
<1>3. CASE StillLatest(c)
  <2>1. c.dataset \in Datasets /\ ProjectOf[c.dataset] = currentProject
    BY <1>3, CallIs DEF Sound
  <2>2. PICK r : r = Request("listArtifacts", c.dataset, NoFlag)
    OBVIOUS
  <2>3. /\ r \in CallTypes /\ r.op = "listArtifacts" /\ r.flag = NoFlag
        /\ r.project = currentProject
    BY <2>1, <2>2, Asked
  <2>4. CallOK(r)'
    BY <2>3 DEF CallOK, Sound
  <2>5. PICK again \in SUBSET {ListProjectsCall} : calls' = ((calls \ {c}) \union {r}) \union again
    BY <1>3, <2>2 DEF Selected, ShowView, ListedAgain
  <2>6. \A q \in {r} \union again : CallOK(q)'
    BY <2>4, <2>5, RelistOK
  <2>7. /\ shown' = c.dataset /\ selected' = c.dataset /\ artifacts' = {}
        /\ view' \in {c.dataset, NoDataset}
        /\ remote' \in {remote, NoDataset}
    BY <1>3 DEF Selected, ShowView
  <2>8. PlainTypes'
    BY <2>1, <2>7 DEF Inv, PlainTypes, flagVars
  <2>9. Page'
    BY <2>1, <2>7 DEF Inv, Page, SelectionOfProject, ViewOfSelection, ArtifactsOfSelection
  <2>10. Frame
    BY <1>1, <2>8, <2>9, ConnectionKept DEF Frame
  <2>11. calls' = (calls \ {c}) \union ({r} \union again)
    BY <2>5
  <2> QED
    BY <2>6, <2>10, <2>11, NotPending, AnswerInv DEF flagVars
<1> QED
  BY <1>2, <1>3

LEMMA DatasetFailsInv == ASSUME Inv, NEW c \in calls, DatasetFails(c) PROVE Inv'
<1> USE DEF DatasetFails
<1>1. Marks' /\ Frame
  BY StillFrame DEF Inv, Marks, PlainTypes, scopeVars, listVars, flagVars, remoteVars, pageVars
<1> QED
  BY <1>1, NotPending, Dropping DEF flagVars

LEMMA EditDisplayInv == ASSUME Inv, EditDisplay PROVE Inv'
<1> USE DEF EditDisplay, ShowView
<1>1. Marks'
  BY DEF Inv, Marks, flagVars, remoteVars
<1>2. PlainTypes'
  BY DEF Inv, PlainTypes, scopeVars, listVars, flagVars, remoteVars
<1>3. Page'
  BY DEF Inv, Page, SelectionOfProject, ViewOfSelection, ArtifactsOfSelection, scopeVars,
     listVars, remoteVars
<1>4. Frame
  BY <1>1, <1>2, <1>3, ConnectionKept DEF Frame, scopeVars
<1>5. PICK again \in SUBSET {ListProjectsCall} : calls' = calls \union again
  BY DEF ListedAgain
<1>6. \A r \in again : CallOK(r)'
  BY RelistOK
<1> QED
  BY <1>4, <1>5, <1>6, AskInv DEF flagVars

LEMMA SelectLocalDatasetInv ==
    ASSUME Inv, NEW d \in LocalDatasets, NEW waiting \in SUBSET calls,
           \A c \in calls \ waiting : c.flag \notin pending,
           SelectLocalDataset(d, waiting), locals' \subseteq LocalDatasets
    PROVE  Inv'
<1> USE DEF SelectLocalDataset
<1>1. Marks'
  BY DEF Inv, Marks, flagVars
<1>2. /\ shown' = d /\ selected' = d /\ artifacts' = {} /\ view' = NoDataset /\ choice' = d
      /\ remote' \in {remote, NoDataset}
  BY DEF Selected, ShowView
<1>3. PlainTypes'
  BY <1>2 DEF Inv, PlainTypes, flagVars
<1>4. Page'
  BY <1>2 DEF Inv, Page, SelectionOfProject, ViewOfSelection, ArtifactsOfSelection
<1>5. PICK again \in SUBSET {ListProjectsCall} : calls' = Overtaken(waiting) \union again
  BY DEF Selected, ShowView, ListedAgain
<1>6. \A r \in again : CallOK(r)'
  BY RelistOK
<1> QED
  BY <1>1, <1>3, <1>4, <1>5, <1>6, ConnectionKept, OvertakeInv DEF flagVars

LEMMA SelectLocalInv == ASSUME Inv, NEW d \in LocalDatasets, SelectLocal(d) PROVE Inv'
<1>1. PICK waiting \in SUBSET calls : waiting = calls
  OBVIOUS
<1>2. SelectLocalDataset(d, waiting)
  BY <1>1 DEF SelectLocal, SelectLocalDataset
<1>3. locals' \subseteq LocalDatasets
  BY DEF SelectLocal, Inv, PlainTypes
<1> QED
  BY <1>1, <1>2, <1>3, SelectLocalDatasetInv

LEMMA LocalOpenedInv == ASSUME Inv, NEW c \in calls, LocalOpened(c) PROVE Inv'
<1>1. PICK waiting \in SUBSET calls : waiting = calls \ {c}
  OBVIOUS
<1>2. PICK d \in LocalDatasets : d = c.dataset
  BY CallIs DEF LocalOpened, Sound
<1>3. SelectLocalDataset(d, waiting)
  BY <1>1, <1>2 DEF LocalOpened, SelectLocalDataset
<1>4. locals' \subseteq LocalDatasets
  BY <1>2 DEF LocalOpened, Inv, PlainTypes
<1>5. c.flag \notin pending
  BY NotPending DEF LocalOpened
<1> QED
  BY <1>1, <1>3, <1>4, <1>5, SelectLocalDatasetInv

LEMMA RemoveLocalInv == ASSUME Inv, NEW d \in LocalDatasets, RemoveLocal(d) PROVE Inv'
<1> USE DEF RemoveLocal
<1>1. Marks' /\ PlainTypes'
  BY DEF Inv, Marks, PlainTypes, scopeVars, listVars, flagVars, remoteVars
<1>2. Page'
  BY DEF Inv, Page, PlainTypes, SelectionOfProject, ViewOfSelection, ArtifactsOfSelection, scopeVars,
     listVars, remoteVars
<1>3. Frame
  BY <1>1, <1>2, ConnectionKept DEF Frame, scopeVars
<1>4. calls' = calls \union {}
  BY DEF scopeVars
<1> QED
  BY <1>3, <1>4, AskInv DEF flagVars

LEMMA UploadListedInv ==
    ASSUME Inv, NEW c \in calls, NEW ok \in BOOLEAN, UploadListed(c, ok) PROVE Inv'
<1> USE DEF UploadListed
<1>1. Marks'
  BY DEF Inv, Marks, remoteVars
<1>2. PICK v : v = IF ok /\ StillCurrent(c) THEN {c.project} ELSE {}
  OBVIOUS
<1>3. v \in SUBSET ({currentProject} \ {NoProject})
  BY <1>2, CallIs DEF Answerable
<1>4. lists' \in {lists, [lists EXCEPT !["datasets"] = v]}
  BY <1>2
<1>5. CASE ~StillLatest(c)
  <2>1. Frame
    BY <1>1, <1>3, <1>4, <1>5, ListsFrame DEF Inv, PlainTypes, scopeVars, remoteVars
  <2> QED
    BY <1>5, <2>1, NotPending, Dropping
<1>6. CASE StillLatest(c)
  <2>1. c.dataset \in Datasets /\ ProjectOf[c.dataset] = currentProject
    BY <1>6, CallIs DEF Sound
  <2>2. PICK r : r = Request("listArtifacts", c.dataset, NoFlag)
    OBVIOUS
  <2>3. /\ r \in CallTypes /\ r.op = "listArtifacts" /\ r.flag = NoFlag
        /\ r.project = currentProject
    BY <2>1, <2>2, Asked
  <2>4. CallOK(r)'
    BY <2>3 DEF CallOK, Sound
  <2>5. PICK held \in SUBSET calls : held = calls \ {c}
    OBVIOUS
  <2>6. PICK again \in SUBSET {ListProjectsCall} : calls' = (Overtaken(held) \union {r}) \union again
    BY <1>6, <2>2, <2>5 DEF ShowView, ListedAgain
  <2>7. \A q \in {r} \union again : CallOK(q)'
    BY <2>4, <2>6, RelistOK
  <2>8. /\ shown' = c.dataset /\ selected' = c.dataset /\ artifacts' = {} /\ view' = NoDataset
    BY <1>6 DEF ShowView
  <2>9. lists' \in [Lists -> SUBSET Projects]
    BY <1>3, <1>4 DEF Inv, PlainTypes
  <2>10. \A l \in Lists : lists'[l] \subseteq {currentProject} \ {NoProject}
    BY <1>3, <1>4 DEF Inv, PlainTypes, Page
  <2>11. PlainTypes'
    BY <2>1, <2>8, <2>9 DEF Inv, PlainTypes, remoteVars
  <2>12. Page'
    BY <2>1, <2>8, <2>10 DEF Inv, Page, SelectionOfProject, ViewOfSelection, ArtifactsOfSelection, remoteVars
  <2>13. calls' = Overtaken(held) \union ({r} \union again)
    BY <2>6
  <2>14. \A b \in calls \ held : b.flag \notin pending
    BY <2>5, NotPending
  <2> QED
    BY <1>1, <2>7, <2>11, <2>12, <2>13, <2>14, ConnectionKept, OvertakeInv
<1> QED
  BY <1>5, <1>6

-----------------------------------------------------------------------------
(* Switches of the project, and the loss of the server *)

LEMMA SwitchedToInv ==
    ASSUME Inv, NEW p \in Projects, NEW waiting \in SUBSET calls, SwitchedTo(p, waiting),
           projects' \subseteq Bases, UNCHANGED <<connectionVars, auth>>
    PROVE  Inv'
<1> USE DEF SwitchedTo
<1>1. PlainTypes' /\ Marks'
  BY DEF Inv, PlainTypes, Marks, NoLists, ShowView
<1>2. Page'
  BY DEF Page, SelectionOfProject, ViewOfSelection, ArtifactsOfSelection, NoLists
<1>3. PendingHasHandler'
  BY DEF PendingHasHandler
<1>4. PICK asked : asked = {RequestOf(p, "list", NoDataset, l) : l \in Lists}
  OBVIOUS
<1>5. PICK again \in SUBSET {ListProjectsCall} :
        calls' = (SwitchedAway(waiting) \union asked) \union again
  BY <1>4 DEF ShowView, ListedAgain
<1>6. \A r \in SwitchedAway(waiting) : CallOK(r)'
  BY SwitchedAwayIs, StaleOK
<1>7. \A r \in asked : CallOK(r)'
  <2> SUFFICES ASSUME NEW r \in asked PROVE CallOK(r)'
    OBVIOUS
  <2>1. PICK l \in Lists : r = RequestOf(p, "list", NoDataset, l)
    BY <1>4
  <2>2. /\ r \in CallTypes /\ r.op = "list" /\ r.flag = l /\ r.project = p
    BY <2>1, BaseType DEF RequestOf, CallTypes
  <2> QED
    BY <2>2 DEF CallOK, Sound
<1>8. Waiting'
  BY <1>5, <1>6, <1>7, RelistOK DEF Waiting
<1> QED
  BY <1>1, <1>2, <1>3, <1>8, ConnectionKept DEF Inv

LEMMA SwitchProjectInv == ASSUME Inv, NEW p \in Projects, SwitchProject(p) PROVE Inv'
<1>1. PICK waiting \in SUBSET calls : waiting = calls
  OBVIOUS
<1>2. SwitchedTo(p, waiting)
  BY <1>1 DEF SwitchProject, SwitchedTo
<1>3. projects' \subseteq Bases /\ UNCHANGED <<connectionVars, auth>>
  BY DEF SwitchProject, Inv, PlainTypes
<1> QED
  BY <1>2, <1>3, SwitchedToInv

LEMMA ProjectCreatedInv ==
    ASSUME Inv, NEW c \in calls, NEW p \in Projects, ProjectCreated(c, p) PROVE Inv'
<1> USE DEF ProjectCreated
<1>1. projects' \subseteq Bases /\ UNCHANGED <<connectionVars, auth>>
  BY DEF Inv, PlainTypes
<1>2. PICK waiting \in SUBSET calls : waiting = calls \ {c}
  OBVIOUS
<1>3. CASE SwitchedTo(p, calls \ {c})
  <2>1. SwitchedTo(p, waiting)
    BY <1>2, <1>3 DEF SwitchedTo
  <2> QED
    BY <1>1, <2>1, SwitchedToInv
<1>4. CASE calls' = calls \ {c} /\ UNCHANGED <<scopeVars, lists, artifacts, jobs, shownVars,
                                               flagVars, remoteVars>>
  <2>1. Marks' /\ PlainTypes'
    BY <1>1, <1>4 DEF Inv, Marks, PlainTypes, scopeVars, shownVars, flagVars, remoteVars
  <2>2. Page'
    BY <1>4, PageKept DEF Inv, pageVars, scopeVars, shownVars, remoteVars
  <2>3. Frame
    BY <1>1, <1>4, <2>1, <2>2, ConnectionKept DEF Frame, scopeVars, shownVars
  <2> QED
    BY <1>4, <2>3, NotPending, Dropping DEF flagVars
<1> QED
  BY <1>3, <1>4

LEMMA ProjectsListedInv == ASSUME Inv, NEW c \in calls, ProjectsListed(c) PROVE Inv'
<1> USE DEF ProjectsListed
<1>1. projects' \subseteq Bases /\ UNCHANGED <<connectionVars, auth>>
  BY CallIs DEF CallTypes
<1>2. PICK waiting \in SUBSET calls : waiting = calls \ {c}
  OBVIOUS
<1>3. CASE DeepLink.project # NoProject /\ SwitchedTo(DeepLink.project, calls \ {c})
  <2>1. PICK p \in Projects : p = DeepLink.project
    BY <1>3
  <2>2. SwitchedTo(p, waiting)
    BY <1>2, <1>3, <2>1 DEF SwitchedTo
  <2> QED
    BY <1>1, <2>2, SwitchedToInv
<1>4. CASE calls' = calls \ {c} /\ UNCHANGED <<scopeVars, lists, artifacts, jobs, shownVars,
                                               flagVars, remoteVars>>
  <2>1. Marks' /\ PlainTypes'
    BY <1>1, <1>4 DEF Inv, Marks, PlainTypes, scopeVars, shownVars, flagVars, remoteVars
  <2>2. Page'
    BY <1>4, PageKept DEF Inv, pageVars, scopeVars, shownVars, remoteVars
  <2>3. Frame
    BY <1>1, <1>4, <2>1, <2>2, ConnectionKept DEF Frame, scopeVars, shownVars
  <2> QED
    BY <1>4, <2>3, NotPending, Dropping DEF flagVars
<1> QED
  BY <1>3, <1>4

\* Without a project the page holds nothing of a server that could be lost.
LEMMA NothingOfServer ==
    ASSUME Inv, ~HasTicket
    PROVE  artifacts = {} /\ shown \notin Datasets /\ selected \notin Datasets
<1>1. shown \notin Datasets
  BY DEF Inv, Page, SelectionOfProject
<1> QED
  BY <1>1 DEF Inv, Page, PlainTypes, ArtifactsOfSelection

LEMMA ServerLostInv == ASSUME Inv, ServerLost, ConnectionInv' PROVE Inv'
<1> USE DEF ServerLost
<1>1. PlainTypes' /\ Marks'
  BY DEF Inv, PlainTypes, Marks, NoLists, scopeVars, flagVars
<1>2. CASE HasTicket
  <2>1. currentProject' = NoProject
    BY <1>2
  <2>2. Page'
    BY <1>2 DEF Inv, PlainTypes, Page, SelectionOfProject, ViewOfSelection, ArtifactsOfSelection, NoLists
  <2>3. PICK held \in SUBSET calls : held = calls
    OBVIOUS
  <2>4. calls' = SwitchedAway(held)
    BY <1>2, <2>3
  <2>5. Waiting'
    BY <2>4, SwitchedAwayIs, StaleOK DEF Waiting
  <2>6. PendingHasHandler'
    BY <2>1 DEF PendingHasHandler
  <2> QED
    BY <1>1, <2>2, <2>5, <2>6 DEF Inv
<1>3. CASE ~HasTicket
  <2>1. UNCHANGED <<currentProject, selected, calls, lists, artifacts, jobs, view>>
    BY <1>3 DEF scopeVars
  <2>2. Page'
    BY <1>3, <2>1, NothingOfServer DEF Inv, PlainTypes, Page, SelectionOfProject, ViewOfSelection,
       ArtifactsOfSelection
  <2>3. Waiting'
    BY <2>1, CallKept DEF Inv, Waiting
  <2>4. PendingHasHandler'
    BY <1>3, <2>1 DEF PendingHasHandler
  <2> QED
    BY <1>1, <2>2, <2>3, <2>4 DEF Inv
<1> QED
  BY <1>2, <1>3

-----------------------------------------------------------------------------
(* Steps of the connection *)

LEMMA RestKept == ASSUME Inv, UNCHANGED Rest, ConnectionInv' PROVE Inv'
<1> USE DEF Rest
<1>1. PlainTypes' /\ Marks'
  BY DEF Inv, PlainTypes, Marks, scopeVars, listVars, shownVars, flagVars, remoteVars
<1>2. Page'
  BY PageKept DEF Inv, pageVars, scopeVars, listVars, shownVars, remoteVars
<1>3. Frame
  BY <1>1, <1>2 DEF Frame, scopeVars, shownVars
<1>4. calls' = calls \union {}
  OBVIOUS
<1> QED
  BY <1>3, <1>4, AskInv DEF flagVars

LEMMA ConnectionStepInv ==
    ASSUME Inv, ConnectionInv', UNCHANGED <<scopeVars, listVars, shownVars, flagVars, remoteVars>>,
           auth' \in {"settling", "ready", "signedOut"},
           NEW again \in SUBSET {ListProjectsCall}, calls' = calls \union again
    PROVE  Inv'
<1>1. PlainTypes' /\ Marks'
  BY DEF Inv, PlainTypes, Marks, scopeVars, listVars, shownVars, flagVars, remoteVars
<1>2. Page'
  BY PageKept DEF Inv, pageVars, scopeVars, listVars, shownVars, remoteVars
<1>3. Frame
  BY <1>1, <1>2 DEF Frame, scopeVars, shownVars
<1>4. \A r \in again : CallOK(r)'
  BY RelistOK
<1> QED
  BY <1>3, <1>4, AskInv DEF flagVars

LEMMA UserConnectsInv == ASSUME Inv, NEW base \in Bases, UserConnects(base) PROVE Inv'
<1>1. ConnectionInv'
  BY ConnectInv DEF Inv, UserConnects
<1> QED
  BY <1>1, ServerLostInv, RestKept DEF UserConnects

LEMMA UserDisconnectsInv == ASSUME Inv, UserDisconnects PROVE Inv'
<1>1. ConnectionInv'
  BY DisconnectInv DEF Inv, UserDisconnects
<1> QED
  BY <1>1, ServerLostInv, RestKept DEF UserDisconnects

LEMMA UserRetriesInv == ASSUME Inv, UserRetries PROVE Inv'
BY RetryInv, RestKept DEF Inv, UserRetries

LEMMA UserMistypesInv == ASSUME Inv, UserMistypes PROVE Inv'
BY ConnectInvalidInv, RestKept DEF Inv, UserMistypes

LEMMA ServerFailsInv == ASSUME Inv, NEW h \in handshakes, ServerFails(h) PROVE Inv'
BY HealthFailsInv, RestKept DEF Inv, ServerFails

LEMMA ServerIsHealthyInv == ASSUME Inv, NEW h \in handshakes, ServerIsHealthy(h) PROVE Inv'
BY HealthAnswersInv, RestKept DEF Inv, ServerIsHealthy

LEMMA ServerDescribesInv ==
    ASSUME Inv, NEW h \in handshakes, NEW described \in BOOLEAN, ServerDescribes(h, described)
    PROVE  Inv'
<1> USE DEF ServerDescribes
<1>1. ConnectionInv'
  BY CapabilitiesInv DEF Inv
<1>2. PICK again \in SUBSET {ListProjectsCall} : calls' = calls \union again
  BY DEF ListedAgain
<1>3. auth' \in {"settling", "ready", "signedOut"}
  BY DEF Inv, PlainTypes
<1> QED
  BY <1>1, <1>2, <1>3, ConnectionStepInv

LEMMA AuthSettlesInv == ASSUME Inv, NEW signedIn \in BOOLEAN, AuthSettles(signedIn) PROVE Inv'
<1> USE DEF AuthSettles
<1>1. calls' = calls \union {} \/ calls' = calls \union {ListProjectsCall}
  OBVIOUS
<1>2. PICK again \in SUBSET {ListProjectsCall} : calls' = calls \union again
  BY <1>1
<1>3. auth' \in {"settling", "ready", "signedOut"}
  OBVIOUS
<1> QED
  BY <1>2, <1>3, ConnectionKept, ConnectionStepInv

-----------------------------------------------------------------------------
(* Every step *)

LEMMA ConnectionNextInv == ASSUME Inv, ConnectionNext PROVE Inv'
BY UserConnectsInv, UserDisconnectsInv, UserRetriesInv, UserMistypesInv, ServerFailsInv,
   ServerIsHealthyInv, ServerDescribesInv, AuthSettlesInv DEF ConnectionNext

LEMMA UserNextInv == ASSUME Inv, UserNext PROVE Inv'
BY SwitchProjectInv, SelectDatasetInv, CreateProjectInv, EditDisplayInv, ChangeMembersInv,
   SavePipelineInv, RestorePipelineInv, UploadInv, SelectLocalInv, OpenLocalInv, RemoveLocalInv,
   RunUnflaggedJobInv, RunDatasetJobInv, PromoteArtifactInv, UploadArtifactInv, StartRemoteInv,
   StopRemoteInv DEF UserNext

LEMMA AnswerNextInv == ASSUME Inv, AnswerNext PROVE Inv'
BY ProjectCreatedInv, ProjectsListedInv, MembersChangedInv, PipelineSavedInv, DatasetAnswersInv,
   DatasetFailsInv, LocalOpenedInv, JobCreatedInv, ArtifactPromotedInv, PromotedIngestedInv,
   UploadedInv, RemoteStartedInv, RemoteStoppedInv, CallFailsInv, ListAnswersInv,
   ArtifactsListedInv, ArtifactUploadedInv, PromotedListedInv, UploadIngestedInv,
   UploadListedInv, JobPolledInv DEF AnswerNext

LEMMA StepInv == Inv /\ [Next]_vars => Inv'
<1> SUFFICES ASSUME Inv, [Next]_vars PROVE Inv'
  OBVIOUS
<1>1. CASE ConnectionNext
  BY <1>1, ConnectionNextInv
<1>2. CASE UserNext
  BY <1>2, UserNextInv
<1>3. CASE AnswerNext
  BY <1>3, AnswerNextInv
<1>4. CASE ApplyDeepLink
  BY <1>4, ApplyDeepLinkInv
<1>5. CASE UNCHANGED vars
  <2>1. UNCHANGED Rest /\ UNCHANGED connectionVars
    BY <1>5 DEF vars, Rest
  <2> QED
    BY <2>1, ConnectionKept, RestKept
<1> QED
  BY <1>1, <1>2, <1>3, <1>4, <1>5 DEF Next

\* The inductive invariant of the page: its connection, types, what its calls carry,
\* what it shows, and who releases its buttons.
THEOREM PageInvariance == Spec => []Inv
BY InitInv, StepInv, PTL DEF Spec

\* Whatever answers come late, connected means connected to the server of the last
\* attempt, and an attempt that is under way has an answer to come (useServerConnection).
THEOREM PageConnection == Spec => []ConnectionSettles
<1>1. Inv => ConnectionSettles
  BY DEF Inv, ConnectionInv
<1> QED
  BY <1>1, PageInvariance, PTL

\* The lists, jobs, dataset and settings on the screen are those of the project and the
\* dataset on the screen (the tickets of useProjectScope).
THEOREM PageShowsItsProject == Spec => []PageOfProject
<1>1. Inv => PageOfProject
  <2> SUFFICES ASSUME Inv PROVE PageOfProject
    OBVIOUS
  <2>1. ScopeTypeOK
    BY DEF Inv, PlainTypes, Waiting, CallOK, CallTypes, ScopeTypeOK
  <2>2. {shown, view, choice, remote} \subseteq MaybeDatasets
    BY DEF Inv, PlainTypes
  <2>3. {linkApplied, busy, remotePending} \subseteq BOOLEAN
    BY DEF Inv, Marks
  <2>4. TypeOK
    BY <2>1, <2>2, <2>3 DEF Inv, ConnectionInv, PlainTypes, TypeOK
  <2>5. ListsOfProject
    BY DEF Inv, Page, ListsOfProject
  <2> QED
    BY <2>4, <2>5 DEF Inv, Page, PageOfProject
<1> QED
  BY <1>1, PageInvariance, PTL

\* The artifacts on the screen are those of the dataset on the screen.
THEOREM PageArtifacts == Spec => []ArtifactsOfSelection
<1>1. Inv => ArtifactsOfSelection
  BY DEF Inv, Page
<1> QED
  BY <1>1, PageInvariance, PTL

\* A remote session on the screen belongs to the project that the page is on.
THEOREM PageRemote == Spec => []RemoteOfProject
<1>1. Inv => RemoteOfProject
  BY DEF Inv, Page, RemoteOfProject
<1> QED
  BY <1>1, PageInvariance, PTL

\* A button that waits for a job has a handler that will release it.
THEOREM PageButtons == Spec => []PendingHasHandler
<1>1. Inv => PendingHasHandler
  BY DEF Inv
<1> QED
  BY <1>1, PageInvariance, PTL

\* A server dataset comes up on the screen only if it is the one that was asked for last.
LEMMA StepKeepsChoice ==
    ASSUME Inv, Next, shown' # shown, shown' \in Datasets, choice # NoDataset
    PROVE  shown' = choice
<1>1. ASSUME NEW c \in calls, StillLatest(c), c.op \in SelectingOps
      PROVE  c.op = "select" /\ c.dataset = choice
  BY <1>1 DEF Inv, Waiting, CallOK
<1>2. CASE ConnectionNext
  <2>1. UNCHANGED Rest \/ ServerLost \/ UNCHANGED shownVars
    BY <1>2 DEF ConnectionNext, UserConnects, UserDisconnects, UserRetries, UserMistypes,
       ServerFails, ServerIsHealthy, ServerDescribes, AuthSettles
  <2> QED
    BY <2>1 DEF ServerLost, Rest, shownVars
<1>3. CASE UserNext
  <2>1. \/ UNCHANGED shown
        \/ shown' = NoDataset
        \/ shown' \in LocalDatasets
    BY <1>3 DEF UserNext, SwitchProject, SwitchedTo, SelectDataset, CreateProject, EditDisplay,
       ChangeMembers, SavePipeline, RestorePipeline, Upload, SelectLocal, SelectLocalDataset,
       Selected, OpenLocal, RemoveLocal, RunUnflaggedJob, RunDatasetJob, PromoteArtifact,
       UploadArtifact, StartRemote, StopRemote, shownVars
  <2> QED
    BY <2>1
<1>4. ASSUME NEW c \in calls, NEW p \in Projects, ProjectCreated(c, p)
      PROVE  FALSE
  BY <1>4 DEF ProjectCreated, SwitchedTo, shownVars
<1>5. ASSUME NEW c \in calls, DatasetAnswers(c)
      PROVE  shown' = choice
  BY <1>1, <1>5 DEF DatasetAnswers, Selected
<1>6. ASSUME NEW c \in calls, LocalOpened(c)
      PROVE  FALSE
  BY <1>6, CallIs DEF LocalOpened, SelectLocalDataset, Selected, Sound
<1>7. ASSUME NEW c \in calls, NEW ok \in BOOLEAN, UploadListed(c, ok)
      PROVE  FALSE
  BY <1>1, <1>7 DEF UploadListed
<1>8. ASSUME NEW c \in calls,
             \/ ProjectsListed(c) \/ MembersChanged(c) \/ PipelineSaved(c) \/ DatasetFails(c)
             \/ JobCreated(c) \/ ArtifactPromoted(c) \/ PromotedIngested(c) \/ Uploaded(c)
             \/ RemoteStarted(c) \/ RemoteStopped(c) \/ CallFails(c)
      PROVE  FALSE
  BY <1>8 DEF ProjectsListed, SwitchedTo, MembersChanged, PipelineSaved, DatasetFails, JobCreated,
     ArtifactPromoted, PromotedIngested, Uploaded, RemoteStarted, RemoteStopped, CallFails, shownVars
<1>9. ASSUME NEW c \in calls, NEW ok \in BOOLEAN,
             \/ ListAnswers(c, ok) \/ ArtifactsListed(c, ok) \/ ArtifactUploaded(c, ok)
             \/ PromotedListed(c, ok) \/ UploadIngested(c, ok)
      PROVE  FALSE
  BY <1>9 DEF ListAnswers, ArtifactsListed, ArtifactUploaded, PromotedListed, UploadIngested, shownVars
<1>10. ASSUME NEW c \in calls, NEW outcome \in {"active", "succeeded", "ended"}, JobPolled(c, outcome)
       PROVE  FALSE
  BY <1>10 DEF JobPolled, shownVars
<1>11. CASE AnswerNext
  BY <1>4, <1>5, <1>6, <1>7, <1>8, <1>9, <1>10, <1>11 DEF AnswerNext
<1>12. CASE ApplyDeepLink
  BY <1>12 DEF ApplyDeepLink
<1> QED
  BY <1>2, <1>3, <1>11, <1>12 DEF Next

\* Neither an older selection nor a finished upload takes the screen from the choice that
\* the user made last.
THEOREM PageFollowsChoice == Spec => LatestChoiceWins
<1>1. Inv /\ [Next]_vars =>
        [shown' # shown /\ shown' \in Datasets /\ choice # NoDataset => shown' = choice]_vars
  BY StepKeepsChoice
<1> QED
  BY <1>1, PageInvariance, PTL DEF Spec, LatestChoiceWins
=============================================================================
