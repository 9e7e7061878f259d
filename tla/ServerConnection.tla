--------------------------- MODULE ServerConnection ---------------------------
(***************************************************************************)
(* useServerConnection: where the browser application stands with its      *)
(* server. A connection attempt asks the server for its health, then for   *)
(* its capabilities; each answer may come late, after a newer attempt or a *)
(* disconnect. The connection form is disabled while an attempt is under   *)
(* way, but the hook does not count on it, and neither does this module:   *)
(* any status allows a call of connect, retry and disconnect.              *)
(*                                                                         *)
(* Abstracted: a base URL is a value, NoBase for null and for ""; why an   *)
(* attempt failed is left out. Bound: MaxAttempts steps of attemptRef.     *)
(***************************************************************************)
EXTENDS Integers, FiniteSets

CONSTANTS
    Bases, NoBase,
    DevBase,            \* DEV_API_BASE
    Environments,       \* the build environments [appMode, apiBase, dev]
    StoredBases,        \* what the browser may remember of an earlier visit
    MaxAttempts

ASSUME BaseAssumption ==
    /\ NoBase \notin Bases
    /\ DevBase \in Bases
    /\ StoredBases \subseteq Bases \union {NoBase}
    /\ MaxAttempts \in Nat \ {0}
    /\ Environments \subseteq
         [appMode : {"unset", "static", "server"}, apiBase : Bases \union {NoBase}, dev : BOOLEAN]

VARIABLES
    connection,     \* mode, apiBase, status, capabilities (the base that described
                    \* them), suggestedApiBase and epoch
    attempt,        \* attemptRef
    handshakes,     \* the calls of connect that wait for an answer
    stored          \* the base in the browser's local storage

connectionVars == <<connection, attempt, handshakes, stored>>

MaybeBases == Bases \union {NoBase}
Statuses == {"disconnected", "connecting", "connected", "failed"}
Handshakes == [attempt : 1 .. MaxAttempts, base : Bases, step : {"health", "capabilities"}]

ConnectionTypeOK ==
    /\ connection \in [mode : {"static", "server"}, apiBase : MaybeBases, status : Statuses,
                       capabilities : MaybeBases, suggestedApiBase : MaybeBases,
                       epoch : 0 .. MaxAttempts]
    /\ attempt \in 0 .. MaxAttempts
    /\ handshakes \subseteq Handshakes
    /\ stored \in MaybeBases

Connected == connection.status = "connected"

-----------------------------------------------------------------------------
\* Which server, if any, the page connects to by itself.
ResolveConnectionConfig(env) ==
    LET server(base) == [mode |-> "server", apiBase |-> base, autoConnect |-> TRUE]
        static == [mode |-> "static", apiBase |-> NoBase, autoConnect |-> FALSE]
    IN  IF env.appMode = "static" THEN static
        ELSE IF env.apiBase # NoBase THEN server(env.apiBase)
        ELSE IF env.appMode = "server" \/ env.dev THEN server(DevBase)
        ELSE static

\* The values of the state variables before the start-up effect.
Disconnected(config, remembered) ==
    [mode |-> config.mode, apiBase |-> config.apiBase, status |-> "disconnected",
     capabilities |-> NoBase,
     suggestedApiBase |-> IF config.apiBase # NoBase THEN config.apiBase ELSE remembered,
     epoch |-> 0]

\* What connect sets before it waits.
Connecting(c, base) ==
    [c EXCEPT !.apiBase = base, !.suggestedApiBase = base, !.mode = "server",
              !.status = "connecting"]

\* The start-up effect connects at once where the configuration asks for it.
ConnectionInit ==
    \E env \in Environments, remembered \in StoredBases :
        LET config == ResolveConnectionConfig(env)
            fresh == Disconnected(config, remembered)
        IN  /\ stored = remembered
            /\ IF config.autoConnect
               THEN /\ attempt = 1
                    /\ connection = Connecting(fresh, config.apiBase)
                    /\ handshakes = {[attempt |-> 1, base |-> config.apiBase, step |-> "health"]}
               ELSE /\ attempt = 0 /\ connection = fresh /\ handshakes = {}

Connect(base) ==
    /\ attempt < MaxAttempts
    /\ attempt' = attempt + 1
    /\ connection' = Connecting(connection, base)
    /\ handshakes' = handshakes \union {[attempt |-> attempt + 1, base |-> base, step |-> "health"]}
    /\ UNCHANGED stored

\* A text that is no base URL leaves the connection, and the attempt under way, alone.
ConnectInvalid ==
    /\ connection' = [connection EXCEPT
         !.status = IF Connected THEN "connected" ELSE "failed"]
    /\ UNCHANGED <<attempt, handshakes, stored>>

Retry ==
    LET target == IF connection.apiBase # NoBase THEN connection.apiBase
                  ELSE connection.suggestedApiBase
    IN  IF target = NoBase THEN ConnectInvalid ELSE Connect(target)

Disconnect ==
    /\ attempt < MaxAttempts
    /\ attempt' = attempt + 1
    /\ connection' = [connection EXCEPT !.apiBase = NoBase, !.mode = "static",
         !.status = "disconnected", !.capabilities = NoBase]
    /\ UNCHANGED <<handshakes, stored>>

NeverSuperseded(h) == FALSE
Superseded(h) == h.attempt # attempt

HealthAnswers(h) ==
    /\ h \in handshakes /\ h.step = "health"
    /\ handshakes' = (handshakes \ {h}) \union
         (IF Superseded(h) THEN {} ELSE {[h EXCEPT !.step = "capabilities"]})
    /\ UNCHANGED <<connection, attempt, stored>>

\* No answer within HEALTH_TIMEOUT_MS, a refusal, or an error status.
HealthFails(h) ==
    /\ h \in handshakes /\ h.step = "health"
    /\ handshakes' = handshakes \ {h}
    /\ connection' = IF Superseded(h) THEN connection
         ELSE [connection EXCEPT !.capabilities = NoBase, !.status = "failed"]
    /\ UNCHANGED <<attempt, stored>>

\* Capabilities that cannot be read count as none: the connection stands.
CapabilitiesAnswer(h, described) ==
    /\ h \in handshakes /\ h.step = "capabilities"
    /\ handshakes' = handshakes \ {h}
    /\ IF Superseded(h) THEN UNCHANGED <<connection, stored>>
       ELSE /\ connection' = [connection EXCEPT !.status = "connected", !.epoch = @ + 1,
                 !.capabilities = IF described THEN h.base ELSE NoBase]
            /\ stored' = h.base
    /\ UNCHANGED attempt

-----------------------------------------------------------------------------
(* Properties *)

\* While the application is connected, the capabilities that switch its remote
\* features on are those of the server it talks to, whatever answers came late.
ConnectedCapabilities ==
    Connected => connection.capabilities \in {NoBase, connection.apiBase}

\* The application never shows "connecting" with nobody left to answer: the newest
\* attempt is always still under way, so its answer or its failure changes the status.
ConnectingHasAttempt ==
    connection.status = "connecting" =>
        \E h \in handshakes : h.attempt = attempt /\ h.base = connection.apiBase

\* Together: the status and the capabilities that the page shows are those of its
\* last attempt.
ConnectionSettles == ConnectedCapabilities /\ ConnectingHasAttempt
=============================================================================
