----------------------------- MODULE KmipSession -----------------------------
(***************************************************************************)
(* One TLS connection: the client's end (KMIPProxy over KMIPProtocol), the *)
(* two byte streams, and the thread that serves it (KmipSession), which    *)
(* frames the requests, verifies the certificate, authenticates the client *)
(* by the chain of plugins, has the engine process the request and sends   *)
(* one answer.  (The certificate has to be one for TLS clients, as the     *)
(* default of enable_tls_client_auth has it.)  Both ends have a timeout    *)
(* on every read and write: 30 seconds at the client, 10 at the server.    *)
(* A timeout is an exception like any other there: the session logs it     *)
(* and goes on with the connection, and so may the application.            *)
(*                                                                         *)
(* A message is a header that announces the length of the rest, and the    *)
(* rest, in units of a few bytes.                                          *)
(***************************************************************************)
EXTENDS Integers, Sequences

CONSTANTS MaxCalls,      \* calls of the application in the model
          HeaderLength,  \* units of a header
          RequestLength, \* units of a request after its header
          ErrorLength,   \* units of an error answer after its header
          AnswerLengths, \* ... of the other answers
          MaxResponse,   \* the maximum response size that the requests ask for
          Certificates,  \* [usage, names] of the clients' certificates
          Chains,        \* sequences of plugin settings: [slugs, enabled]
          GroupLists,    \* what SLUGS may list as groups of a user
          NoGroups

VARIABLES up, down,      \* the streams of the connection
          client, call, cHave, cNeed,
          session, sHave, sNeed, plugin, identity, answer,
          server,        \* the thread that accepts connections and stops the server
          certificate, chain, reuses, \* fixed: the client, the settings, the application
          executed,      \* history: the requests that the engine processed
          answers,       \* history: the answers the session made
          taken,         \* history: what the calls returned
          disturbed      \* history: a read or a write timed out

streams == <<up, down>>
clientVars == <<client, call, cHave, cNeed, taken>>
sessionVars == <<session, sHave, sNeed, plugin, identity, answer, executed, answers>>
fixed == <<certificate, chain, reuses>>
vars == <<streams, clientVars, sessionVars, server, fixed, disturbed>>

ASSUME LengthAssumption ==
    /\ HeaderLength \in Nat \ {0} /\ RequestLength \in Nat /\ ErrorLength \in Nat
    /\ AnswerLengths \subseteq Nat /\ MaxResponse \in Nat /\ MaxCalls \in Nat

ASSUME SettingsAssumption ==
    /\ Certificates \subseteq [usage : STRING, names : Nat]
    /\ Chains \subseteq Seq([slugs : BOOLEAN, enabled : BOOLEAN])

Lengths == {RequestLength, ErrorLength} \cup AnswerLengths

ClientStages == {"idle", "header", "body", "closed"}
SessionStages == {"header", "body", "checking", "authenticating", "processing", "answering", "ended"}

Nobody == [user |-> "nobody", groups |-> NoGroups]
User == "common name of the certificate"

Init == /\ up = << >> /\ down = << >>
        /\ client = "idle" /\ call = 0 /\ cHave = << >> /\ cNeed = HeaderLength
        /\ session = "header" /\ sHave = << >> /\ sNeed = HeaderLength
        /\ plugin = 1 /\ identity = Nobody /\ answer = << >>
        /\ server = "serving"
        /\ certificate \in Certificates /\ chain \in Chains /\ reuses \in BOOLEAN
        /\ executed = << >> /\ answers = << >> /\ taken = << >>
        /\ disturbed = FALSE

-----------------------------------------------------------------------------
(* Messages on the wire *)

Wire(message) == [k \in 1..(HeaderLength + message.length) |-> [message |-> message, at |-> k]]

Request(n) == [kind |-> "request", for |-> n, nth |-> 0, length |-> RequestLength]

First(stream, n) == SubSeq(stream, 1, n)
Rest(stream, n) == SubSeq(stream, n + 1, Len(stream))

\* What the reader of a header takes for the length: the announced one, or
\* whatever lies there when the reader is not at the beginning of a message.
Announced(have) ==
    IF \A k \in 1..HeaderLength : have[k] = [message |-> have[1].message, at |-> k]
    THEN {have[1].message.length} ELSE Lengths \cup {0}

\* The bytes that were read are one message and nothing else.
Whole(have) == have = Wire(have[1].message)

-----------------------------------------------------------------------------
(* The client: one call after another *)

\* The application sees an exception; it goes on with the connection or closes it.
Raise == /\ client' = IF reuses THEN "idle" ELSE "closed"
         /\ cHave' = << >> /\ cNeed' = HeaderLength
         /\ UNCHANGED <<call, taken>>

Call == /\ client = "idle" /\ call < MaxCalls
        /\ call' = call + 1
        /\ client' = "header"
        /\ up' = up \o Wire(Request(call'))
        /\ UNCHANGED <<down, cHave, cNeed, taken, sessionVars, server, fixed, disturbed>>

\* sendall times out: some of the request was sent.
CallCutOff ==
    /\ client = "idle" /\ call < MaxCalls
    /\ call' = call + 1
    /\ \E n \in 0..(HeaderLength + RequestLength - 1) : up' = up \o First(Wire(Request(call')), n)
    /\ client' = IF reuses THEN "idle" ELSE "closed"
    /\ disturbed' = TRUE
    /\ UNCHANGED <<down, cHave, cNeed, taken, sessionVars, server, fixed>>

Waiting == client \in {"header", "body"}

ClientReceive ==
    /\ Waiting
    /\ \E n \in 1..(cNeed - Len(cHave)) :
          /\ n <= Len(down)
          /\ cHave' = cHave \o First(down, n)
          /\ down' = Rest(down, n)
    /\ UNCHANGED <<up, client, call, cNeed, taken, sessionVars, server, fixed, disturbed>>

ClientHeader ==
    /\ client = "header" /\ Len(cHave) = HeaderLength
    /\ client' = "body"
    /\ \E length \in Announced(cHave) : cNeed' = HeaderLength + length
    /\ UNCHANGED <<streams, call, cHave, taken, sessionVars, server, fixed, disturbed>>

\* The call returns what it read; nothing says which call an answer belongs to.
Return ==
    /\ client = "body" /\ Len(cHave) = cNeed /\ Whole(cHave)
    /\ taken' = Append(taken, [call |-> call, answer |-> cHave[1].message])
    /\ client' = "idle" /\ cHave' = << >> /\ cNeed' = HeaderLength
    /\ UNCHANGED <<streams, call, sessionVars, server, fixed, disturbed>>

ClientParseError ==
    /\ client = "body" /\ Len(cHave) = cNeed /\ ~Whole(cHave)
    /\ Raise
    /\ UNCHANGED <<streams, sessionVars, server, fixed, disturbed>>

\* Fault: a read that times out is tried again.
ClientTimeoutRetried ==
    /\ Waiting /\ Len(cHave) < cNeed
    /\ disturbed' = TRUE
    /\ UNCHANGED <<streams, clientVars, sessionVars, server, fixed>>

ClientTimeout ==
    /\ Waiting /\ Len(cHave) < cNeed
    /\ Raise
    /\ disturbed' = TRUE
    /\ UNCHANGED <<streams, sessionVars, server, fixed>>

\* EOFError or RequestLengthMismatch.
ClientEndOfStream ==
    /\ Waiting /\ Len(cHave) < cNeed /\ session = "ended" /\ down = << >>
    /\ Raise
    /\ UNCHANGED <<streams, sessionVars, server, fixed, disturbed>>

Close ==
    /\ client = "idle"
    /\ client' = "closed"
    /\ UNCHANGED <<streams, call, cHave, cNeed, taken, sessionVars, server, fixed, disturbed>>

ClientRead == ClientReceive \/ ClientHeader \/ Return \/ ClientParseError
                \/ ClientTimeout \/ ClientEndOfStream

-----------------------------------------------------------------------------
(* The session: _receive_request *)

Receiving == session \in {"header", "body"}

\* Fault: recv is asked for more than the rest of the message.
SessionReceiveMore ==
    /\ Receiving /\ Len(sHave) < sNeed
    /\ \E n \in 1..Len(up) : sHave' = sHave \o First(up, n) /\ up' = Rest(up, n)
    /\ UNCHANGED <<down, clientVars, session, sNeed, plugin, identity, answer, executed, answers,
                   server, fixed, disturbed>>

SessionReceive ==
    /\ Receiving
    /\ \E n \in 1..(sNeed - Len(sHave)) :
          /\ n <= Len(up)
          /\ sHave' = sHave \o First(up, n)
          /\ up' = Rest(up, n)
    /\ UNCHANGED <<down, clientVars, session, sNeed, plugin, identity, answer, executed, answers,
                   server, fixed, disturbed>>

SessionHeader ==
    /\ session = "header" /\ Len(sHave) = HeaderLength
    /\ session' = "body"
    /\ \E length \in Announced(sHave) : sNeed' = HeaderLength + length
    /\ UNCHANGED <<streams, clientVars, sHave, plugin, identity, answer, executed, answers,
                   server, fixed, disturbed>>

SessionRequest ==
    /\ session = "body" /\ Len(sHave) = sNeed
    /\ session' = "checking"
    /\ UNCHANGED <<streams, clientVars, sHave, sNeed, plugin, identity, answer, executed, answers,
                   server, fixed, disturbed>>

\* The message loop begins again, without what was read.
Loop == /\ session' = "header" /\ sHave' = << >> /\ sNeed' = HeaderLength
        /\ plugin' = 1 /\ identity' = Nobody /\ answer' = << >>

\* socket.timeout is logged, and the loop goes on.  (One that comes before anything
\* was read changes nothing.)
SessionTimeout ==
    /\ Receiving /\ Len(sHave) < sNeed /\ sHave # << >>
    /\ Loop /\ disturbed' = TRUE
    /\ UNCHANGED <<streams, clientVars, executed, answers, server, fixed>>

\* Fault: an empty read is taken for one that timed out.
SessionEndOfStreamIgnored ==
    /\ Receiving /\ Len(sHave) < sNeed /\ client = "closed" /\ up = << >>
    /\ Loop
    /\ UNCHANGED <<streams, clientVars, executed, answers, server, fixed, disturbed>>

\* An empty read is a closed connection, and ends the thread.
SessionEndOfStream ==
    /\ Receiving /\ Len(sHave) < sNeed /\ client = "closed" /\ up = << >>
    /\ session' = "ended"
    /\ UNCHANGED <<streams, clientVars, sHave, sNeed, plugin, identity, answer, executed, answers,
                   server, fixed, disturbed>>

-----------------------------------------------------------------------------
(* The session: _handle_message_loop *)

Answer(kind, length) ==
    [kind |-> kind, for |-> IF Whole(sHave) THEN sHave[1].message.for ELSE 0,
     nth |-> Len(answers) + 1, length |-> length]

AnswerWith(kind, length) ==
    /\ session' = "answering"
    /\ answer' = <<Answer(kind, length)>>

BadCertificate == certificate.usage # "clientAuth"

CheckCertificate ==
    /\ session = "checking" /\ BadCertificate
    /\ AnswerWith("badCertificate", ErrorLength)
    /\ UNCHANGED <<streams, clientVars, sHave, sNeed, plugin, identity, executed, answers,
                   server, fixed, disturbed>>

\* request.read raises: the bytes are no message, or one of another shape.
ParseError ==
    /\ session = "checking" /\ ~BadCertificate
    /\ AnswerWith("badMessage", ErrorLength)
    /\ UNCHANGED <<streams, clientVars, sHave, sNeed, plugin, identity, executed, answers,
                   server, fixed, disturbed>>

\* request.read succeeds.  It is given whatever bytes were received, and TTLV has it refuse
\* all that are not one whole request: the end of one and the start of the next have no
\* message's tag, type and lengths in their places.
Parse ==
    /\ session = "checking" /\ ~BadCertificate /\ Whole(sHave)
    /\ session' = "authenticating"
    /\ UNCHANGED <<streams, clientVars, sHave, sNeed, plugin, identity, answer, executed, answers,
                   server, fixed, disturbed>>

-----------------------------------------------------------------------------
(* The session: authenticate *)

Enabled(i) == chain[i].slugs /\ chain[i].enabled
MorePlugins == plugin <= Len(chain)

\* A plugin that is not supported or not enabled is passed over.
SkipPlugin ==
    /\ session = "authenticating" /\ MorePlugins /\ ~Enabled(plugin)
    /\ plugin' = plugin + 1
    /\ UNCHANGED <<streams, clientVars, session, sHave, sNeed, identity, answer, executed, answers,
                   server, fixed, disturbed>>

\* SLUGS knows the user and lists groups.
PluginSucceeds ==
    /\ session = "authenticating" /\ MorePlugins /\ Enabled(plugin)
    /\ certificate.names = 1
    /\ \E groups \in GroupLists : identity' = [user |-> User, groups |-> groups]
    /\ session' = "processing"
    /\ UNCHANGED <<streams, clientVars, sHave, sNeed, plugin, answer, executed, answers,
                   server, fixed, disturbed>>

\* SLUGS is out of reach, answers 404 or no JSON, or the certificate has not one name.
PluginFails ==
    /\ session = "authenticating" /\ MorePlugins /\ Enabled(plugin)
    /\ plugin' = plugin + 1
    /\ UNCHANGED <<streams, clientVars, session, sHave, sNeed, identity, answer, executed, answers,
                   server, fixed, disturbed>>

NoPluginEnabled == \A i \in 1..Len(chain) : ~Enabled(i)

IdentifyByCertificate ==
    /\ session = "authenticating" /\ ~MorePlugins
    /\ NoPluginEnabled /\ certificate.names = 1
    /\ identity' = [user |-> User, groups |-> NoGroups]
    /\ session' = "processing"
    /\ UNCHANGED <<streams, clientVars, sHave, sNeed, plugin, answer, executed, answers,
                   server, fixed, disturbed>>

\* Fault: a client that every plugin refused is identified by its certificate.
NotAuthenticatedUnlessNameless ==
    /\ session = "authenticating" /\ ~MorePlugins
    /\ IF certificate.names = 1
       THEN session' = "processing" /\ identity' = [user |-> User, groups |-> NoGroups] /\ answer' = answer
       ELSE AnswerWith("notAuthenticated", ErrorLength) /\ identity' = identity
    /\ UNCHANGED <<streams, clientVars, sHave, sNeed, plugin, executed, answers, server, fixed, disturbed>>

NotAuthenticated ==
    /\ session = "authenticating" /\ ~MorePlugins
    /\ ~(NoPluginEnabled /\ certificate.names = 1)
    /\ AnswerWith("notAuthenticated", ErrorLength)
    /\ UNCHANGED <<streams, clientVars, sHave, sNeed, plugin, identity, executed, answers,
                   server, fixed, disturbed>>

-----------------------------------------------------------------------------
(* The session: the engine, and the answer *)

\* The engine has committed the request by the time the response is measured.
DoneOrTooLarge(length) == IF length > MaxResponse THEN "tooLarge" ELSE "done"

\* Fault: the response is measured first, and one that is too large not committed.
ProcessMeasured ==
    /\ session = "processing"
    /\ \E length \in AnswerLengths :
          /\ AnswerWith(DoneOrTooLarge(length), IF length > MaxResponse THEN ErrorLength ELSE length)
          /\ executed' = IF length > MaxResponse THEN executed ELSE Append(executed, sHave[1].message.for)
    /\ UNCHANGED <<streams, clientVars, sHave, sNeed, plugin, identity, answers, server, fixed, disturbed>>

Process ==
    /\ session = "processing"
    /\ executed' = Append(executed, sHave[1].message.for)
    /\ \E length \in AnswerLengths :
          AnswerWith(DoneOrTooLarge(length), IF length > MaxResponse THEN ErrorLength ELSE length)
    /\ UNCHANGED <<streams, clientVars, sHave, sNeed, plugin, identity, answers, server, fixed, disturbed>>

\* process_request raises, before anything was done or after a part of it.
ProcessRaises ==
    /\ session = "processing"
    /\ AnswerWith("failed", ErrorLength)
    /\ \/ UNCHANGED executed
       \/ executed' = Append(executed, sHave[1].message.for)
    /\ UNCHANGED <<streams, clientVars, sHave, sNeed, plugin, identity, answers, server, fixed, disturbed>>

\* Fault: after the answer the session reads on without a new header.
SendAndReadOn ==
    /\ session = "answering" /\ client # "closed"
    /\ down' = down \o Wire(answer[1])
    /\ answers' = Append(answers, answer[1])
    /\ session' = "header" /\ sNeed' = HeaderLength
    /\ plugin' = 1 /\ identity' = Nobody /\ answer' = << >>
    /\ sHave' = First(sHave, 1)
    /\ UNCHANGED <<up, clientVars, executed, server, fixed, disturbed>>

Send ==
    /\ session = "answering" /\ client # "closed"
    /\ down' = down \o Wire(answer[1])
    /\ answers' = Append(answers, answer[1])
    /\ Loop
    /\ UNCHANGED <<up, clientVars, executed, server, fixed, disturbed>>

\* sendall times out.
SendCutOff ==
    /\ session = "answering" /\ client # "closed"
    /\ \E n \in 0..(HeaderLength + answer[1].length - 1) : down' = down \o First(Wire(answer[1]), n)
    /\ answers' = Append(answers, answer[1])
    /\ Loop /\ disturbed' = TRUE
    /\ UNCHANGED <<up, clientVars, executed, server, fixed>>

\* Fault: a request whose answer could not be sent is processed again.
SendRaisesAndRetries ==
    /\ session = "answering"
    /\ client = "closed" \/ answer[1].kind = "done"
    /\ session' = "processing" /\ answer' = << >>
    /\ UNCHANGED <<streams, clientVars, sHave, sNeed, plugin, identity, executed, answers,
                   server, fixed, disturbed>>

\* The client is gone, or the response cannot be encoded: an exception like any other.
SendRaises ==
    /\ session = "answering"
    /\ client = "closed" \/ answer[1].kind = "done"
    /\ Loop
    /\ UNCHANGED <<streams, clientVars, executed, answers, server, fixed, disturbed>>

SessionStep ==
    \/ SessionReceive \/ SessionHeader \/ SessionRequest \/ SessionTimeout \/ SessionEndOfStream
    \/ CheckCertificate \/ ParseError \/ Parse
    \/ SkipPlugin \/ PluginSucceeds \/ PluginFails \/ IdentifyByCertificate \/ NotAuthenticated
    \/ Process \/ ProcessRaises \/ Send \/ SendCutOff \/ SendRaises

-----------------------------------------------------------------------------
(* The server: stop *)

\* A signal ends the accept loop; stop begins to join the threads.
Stop == /\ server = "serving"
        /\ server' = "joining"
        /\ UNCHANGED <<streams, clientVars, sessionVars, fixed, disturbed>>

\* The session has ended or ten seconds are over.  Sessions are daemon threads: the
\* process takes the ones that still run with it, wherever they are.
Exit == /\ server = "joining"
        /\ server' = "exited"
        /\ session' = "ended"
        /\ UNCHANGED <<streams, clientVars, sHave, sNeed, plugin, identity, answer, executed, answers,
                       fixed, disturbed>>

Next == \/ Call \/ CallCutOff \/ Close \/ ClientRead
        \/ SessionStep
        \/ Stop \/ Exit

Spec == Init /\ [][Next]_vars

\* Reads and writes return or time out, so both threads go on.
FairSpec == Spec /\ WF_vars(ClientRead) /\ WF_vars(SessionStep)

-----------------------------------------------------------------------------
(* Properties *)

TypeOK ==
    /\ client \in ClientStages /\ call \in 0..MaxCalls /\ cNeed \in Nat /\ Len(cHave) <= cNeed
    /\ session \in SessionStages /\ sNeed \in Nat /\ Len(sHave) <= sNeed
    /\ plugin \in 1..(Len(chain) + 1)
    /\ identity.groups \in GroupLists \cup {NoGroups}
    /\ session = "answering" => Len(answer) = 1
    /\ Len(executed) <= call /\ Len(taken) <= call
    /\ server \in {"serving", "joining", "exited"}
    /\ disturbed \in BOOLEAN

Ranges(seq) == {seq[k] : k \in DOMAIN seq}

\* While no read or write times out, an answer is taken by the call it belongs to,
\* although neither end compares the two: the framing of both streams keeps them
\* in step through errors, refusals, answers that cannot be sent and the end of the
\* server.
AnswersInTurn ==
    ~disturbed => \A t \in Ranges(taken) : t.answer.for = t.call

\* However the streams are cut, the engine processes every request at most once and
\* in the order of the calls: no rest of a request is taken for one.
ProcessedOnce ==
    \A j, k \in DOMAIN executed : j < k => executed[j] < executed[k]

Refusals == {"badCertificate", "badMessage", "notAuthenticated"}

\* What an answer says of its own request is so, also of the requests that were
\* committed before their response turned out to be too large.
AnswersTellOutcome ==
    \A a \in Ranges(answers) :
        /\ a.kind \in {"done", "tooLarge"} => a.for \in Ranges(executed)
        /\ a.kind \in Refusals /\ a.for # 0 => a.for \notin Ranges(executed)

\* The engine gets the certificate's only name as identity, with the groups of a plugin
\* or, only if none is enabled, without groups: a client that every enabled plugin
\* refused is not served.
IdentityVouched ==
    session = "processing" =>
        /\ certificate = [usage |-> "clientAuth", names |-> 1]
        /\ identity.user = User
        /\ IF NoPluginEnabled THEN identity.groups = NoGroups
           ELSE /\ MorePlugins /\ Enabled(plugin)
                /\ identity.groups \in GroupLists

\* A call ends, with an answer or an exception, whatever happens to the streams.
CallsEnd == Waiting ~> ~Waiting

\* The thread of a connection ends when its client is gone.
SessionEnds == client = "closed" ~> session = "ended"
=============================================================================
