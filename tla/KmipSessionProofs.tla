--------------------------- MODULE KmipSessionProofs ---------------------------
(***************************************************************************)
(* Proofs about one connection, for any number of calls, any lengths of    *)
(* messages and any chain of plugins: requests, answers and calls belong   *)
(* together whatever times out, and each step of a reader brings its end   *)
(* nearer.                                                                 *)
(***************************************************************************)
EXTENDS KmipSession, TLAPS

-----------------------------------------------------------------------------
(* The types *)

(* The messages of both directions. *)
Kinds == {"request", "done", "tooLarge", "failed"} \cup Refusals
Messages == [kind : Kinds, for : Nat, nth : Nat, length : Nat]

(* A unit of a message, as it lies on the wire. *)
Bytes == [message : Messages, at : Nat]

(* The client's side of the state. *)
ClientTyped ==
    /\ client \in ClientStages /\ call \in 0..MaxCalls
    /\ cHave \in Seq(Bytes) /\ cNeed \in Nat /\ cNeed >= HeaderLength /\ Len(cHave) <= cNeed
    /\ taken \in Seq([call : Nat, answer : Messages])
    /\ Len(taken) <= call /\ (Waiting => Len(taken) < call)
    /\ client \in {"idle", "closed"} => cHave = << >> /\ cNeed = HeaderLength
    /\ client = "header" => cNeed = HeaderLength

(* The server's side of the state. *)
SessionTyped ==
    /\ session \in SessionStages
    /\ sHave \in Seq(Bytes) /\ sNeed \in Nat /\ sNeed >= HeaderLength /\ Len(sHave) <= sNeed
    /\ plugin \in 1..(Len(chain) + 1)
    /\ identity.groups \in GroupLists \cup {NoGroups}
    /\ executed \in Seq(Nat) /\ answers \in Seq(Messages)
    /\ session = "header" => sNeed = HeaderLength
    /\ session \in {"checking", "authenticating", "processing"} => Len(sHave) = sNeed
    /\ session \in {"authenticating", "processing"} => Whole(sHave)
    /\ session = "answering" => \E a \in Messages : answer = <<a>>

(* What both sides share. *)
WireTyped ==
    /\ up \in Seq(Bytes) /\ down \in Seq(Bytes)
    /\ server \in {"serving", "joining", "exited"}
    /\ certificate \in Certificates /\ chain \in Chains /\ reuses \in BOOLEAN
    /\ disturbed \in BOOLEAN

(* The types of both sides and of the wire. *)
Typed == WireTyped /\ ClientTyped /\ SessionTyped

-----------------------------------------------------------------------------
(* The framing of requests *)

\* The order in which the client sends.
Before(x, y) ==
    \/ x.message.for < y.message.for
    \/ x.message.for = y.message.for /\ x.at < y.at

(* Units lie in the order in which they were sent. *)
Ordered(s) == \A j, k \in DOMAIN s : j < k => Before(s[j], s[k])

\* What lies on the wire, and what was read of it, are units of requests.
FromRequests(s) ==
    \A k \in DOMAIN s : /\ s[k].message = Request(s[k].message.for)
                        /\ s[k].message.for \in 1..call
                        /\ s[k].at \in 1..(HeaderLength + RequestLength)

(* What was read comes before what is left, and all of it in order. *)
Framed ==
    /\ FromRequests(sHave) /\ FromRequests(up)
    /\ Ordered(sHave) /\ Ordered(up)
    /\ \A j \in DOMAIN sHave, k \in DOMAIN up : Before(sHave[j], up[k])

\* What the session has in hand was not processed.
Fresh == session \notin {"answering", "ended"}

\* n comes before every request that is still to be processed.
Past(n) ==
    /\ n \in 0..call
    /\ \A j \in DOMAIN up : n < up[j].message.for
    /\ Fresh => \A j \in DOMAIN sHave : n < sHave[j].message.for

(* Requests are processed in order, none twice, and only those that left the wire. *)
Processed ==
    /\ ProcessedOnce
    /\ \A k \in DOMAIN executed : Past(executed[k]) /\ executed[k] >= k

\* What the answer a says of its own request.
Tells(a) ==
    /\ a.kind \in {"done", "tooLarge"} => a.for \in Ranges(executed)
    /\ a.kind \in Refusals /\ a.for # 0 => a.for \notin Ranges(executed)

(* All answers tell the truth, of requests that are past. *)
Told ==
    /\ \A k \in DOMAIN answers : Tells(answers[k]) /\ Past(answers[k].for)
    /\ session = "answering" => Tells(answer[1]) /\ Past(answer[1].for)

\* No one gets past the certificate, or the chain of plugins, unverified.
Vouched ==
    /\ session \in {"authenticating", "processing"} => certificate.usage = "clientAuth"
    /\ IdentityVouched

-----------------------------------------------------------------------------
(* The turns of an undisturbed connection *)

\* One message m lies partly in what was read and partly on the stream.
Split(have, stream, m) ==
    /\ Len(have) + Len(stream) = HeaderLength + m.length
    /\ \A k \in DOMAIN have : have[k] = [message |-> m, at |-> k]
    /\ \A k \in DOMAIN stream : stream[k] = [message |-> m, at |-> Len(have) + k]

\* Nothing is under way in the direction of the client, or of the session.
NothingDown == down = << >> /\ cHave = << >> /\ client # "body"
NothingUp == up = << >> /\ sHave = << >> /\ session = "header"

\* The request of the call is on its way to the session, or there.
Asking ==
    /\ NothingDown
    /\ Split(sHave, up, Request(call))
    /\ session # "header" => Len(sHave) >= HeaderLength /\ sNeed = HeaderLength + RequestLength
    /\ session = "answering" => up = << >> /\ answer[1].for = call

\* The answer is on its way to the client, or there.
Answering ==
    \E m \in Messages :
        /\ m.for = call
        /\ Split(cHave, down, m)
        /\ client = "body" => Len(cHave) >= HeaderLength /\ cNeed = HeaderLength + m.length

(* While the client waits, its request is under way, or the answer, or both are lost;
   otherwise nothing is. *)
InTurn ==
    /\ Waiting => \/ session # "ended" /\ Asking
                  \/ (NothingUp \/ session = "ended") /\ (Answering \/ NothingDown)
    /\ ~Waiting => NothingDown /\ (NothingUp \/ session = "ended")

(* A connection without time-outs keeps its turns. *)
Turns == ~disturbed => AnswersInTurn /\ InTurn

(* The inductive invariant. *)
IInv == Typed /\ Framed /\ Processed /\ Told /\ Vouched /\ Turns

-----------------------------------------------------------------------------
(* Sequences *)

\* A stream is cut in two.
LEMMA Cut ==
    ASSUME NEW s \in Seq(Bytes), NEW n \in 0..Len(s)
    PROVE  /\ First(s, n) \in Seq(Bytes) /\ Len(First(s, n)) = n
           /\ \A k \in 1..n : First(s, n)[k] = s[k]
           /\ Rest(s, n) \in Seq(Bytes) /\ Len(Rest(s, n)) = Len(s) - n
           /\ \A k \in 1..Len(s) - n : Rest(s, n)[k] = s[n + k]
BY DEF First, Rest

\* Two sequences are put together.
LEMMA Joined ==
    ASSUME NEW r \in Seq(Bytes), NEW s \in Seq(Bytes)
    PROVE  /\ r \o s \in Seq(Bytes) /\ Len(r \o s) = Len(r) + Len(s)
           /\ \A k \in 1..Len(r) : (r \o s)[k] = r[k]
           /\ \A k \in 1..Len(s) : (r \o s)[Len(r) + k] = s[k]
OBVIOUS

\* A message on the wire.
LEMMA OnTheWire ==
    ASSUME NEW m \in Messages
    PROVE  /\ Wire(m) \in Seq(Bytes) /\ Len(Wire(m)) = HeaderLength + m.length
           /\ \A k \in 1..HeaderLength + m.length : Wire(m)[k] = [message |-> m, at |-> k]
<1>1. m.length \in Nat /\ HeaderLength \in Nat
  BY LengthAssumption DEF Messages
<1>2. \A k \in 1..HeaderLength + m.length : [message |-> m, at |-> k] \in Bytes
  BY <1>1 DEF Bytes
<1>3. QED
  BY <1>1, <1>2 DEF Wire

\* A request is a message.
LEMMA RequestIsMessage ==
    ASSUME NEW n \in Nat
    PROVE  Request(n) \in Messages /\ Request(n).for = n /\ Request(n).length = RequestLength
<1>1. RequestLength \in Nat
  BY LengthAssumption
<1>2. "request" \in Kinds
  BY DEF Kinds
<1>3. QED
  BY <1>1, <1>2 DEF Request, Messages

\* What a reader takes for the length is a number.
LEMMA AnnouncedIsNumber ==
    ASSUME NEW s \in Seq(Bytes), Len(s) = HeaderLength
    PROVE  Announced(s) \subseteq Nat
<1>1. s[1] \in Bytes
  BY LengthAssumption
<1>2. s[1].message.length \in Nat /\ Lengths \subseteq Nat
  BY <1>1, LengthAssumption DEF Bytes, Messages, Lengths
<1>3. Lengths \cup {0} \subseteq Nat
  BY <1>2
<1>4. QED
  BY <1>2, <1>3, Zenon DEF Announced

\* After reading n units of stream: had is have with them, left is the rest of stream.
Receives(have, stream, n, had, left) ==
    /\ had \in Seq(Bytes) /\ Len(had) = Len(have) + n
    /\ \A k \in 1..Len(have) : had[k] = have[k]
    /\ \A k \in 1..n : had[Len(have) + k] = stream[k]
    /\ left \in Seq(Bytes) /\ Len(left) = Len(stream) - n
    /\ \A k \in 1..Len(stream) - n : left[k] = stream[n + k]

\* Reading n units moves them from the stream to what was read.
LEMMA Moved ==
    ASSUME NEW have \in Seq(Bytes), NEW stream \in Seq(Bytes), NEW n \in 1..Len(stream)
    PROVE  Receives(have, stream, n, have \o First(stream, n), Rest(stream, n))
<1>1. n \in 0..Len(stream)
  OBVIOUS
<1>2. /\ First(stream, n) \in Seq(Bytes) /\ Len(First(stream, n)) = n
      /\ \A k \in 1..n : First(stream, n)[k] = stream[k]
  BY <1>1, Cut
<1> DEFINE f == First(stream, n)
<1>a. f \in Seq(Bytes) /\ Len(f) = n /\ \A k \in 1..n : f[k] = stream[k]
  BY <1>2
<1> HIDE DEF f
<1>3. /\ have \o f \in Seq(Bytes) /\ Len(have \o f) = Len(have) + n
      /\ \A k \in 1..Len(have) : (have \o f)[k] = have[k]
      /\ \A k \in 1..n : (have \o f)[Len(have) + k] = f[k]
  BY <1>a, Joined
<1>4. /\ Rest(stream, n) \in Seq(Bytes)
      /\ Len(Rest(stream, n)) = Len(stream) - n
      /\ \A k \in 1..Len(stream) - n : Rest(stream, n)[k] = stream[n + k]
  BY <1>1, Cut
<1>5. \A k \in 1..n : (have \o f)[Len(have) + k] = stream[k]
  BY ONLY <1>a, <1>3
<1>6. Receives(have, stream, n, have \o f, Rest(stream, n))
  BY ONLY <1>3, <1>4, <1>5 DEF Receives
<1>7. QED
  BY ONLY <1>6 DEF f

\* The first n units of stream were moved to have: had and left are the result.
MovedUnits(have, stream, n, had, left) ==
    /\ had \in Seq(Bytes) /\ Len(had) = Len(have) + n
    /\ left \in Seq(Bytes) /\ Len(left) = Len(stream) - n
    /\ \A k \in DOMAIN left : n + k \in DOMAIN stream /\ left[k] = stream[n + k]
    /\ \A k \in DOMAIN had : \/ k \in DOMAIN have /\ had[k] = have[k]
                             \/ /\ k \notin DOMAIN have /\ k - Len(have) \in 1..n
                                /\ k - Len(have) \in DOMAIN stream
                                /\ had[k] = stream[k - Len(have)]

(* Reading moves units. *)
LEMMA Moves ==
    ASSUME NEW have \in Seq(Bytes), NEW stream \in Seq(Bytes), NEW n \in 1..Len(stream),
           NEW had, had = have \o First(stream, n), NEW left, left = Rest(stream, n)
    PROVE  MovedUnits(have, stream, n, had, left)
<1>1. /\ had \in Seq(Bytes) /\ Len(had) = Len(have) + n
      /\ \A k \in 1..Len(have) : had[k] = have[k]
      /\ \A k \in 1..n : had[Len(have) + k] = stream[k]
      /\ left \in Seq(Bytes) /\ Len(left) = Len(stream) - n
      /\ \A k \in 1..Len(stream) - n : left[k] = stream[n + k]
  <2>1. Receives(have, stream, n, have \o First(stream, n), Rest(stream, n))
    BY Moved
  <2>2. QED
    BY ONLY <2>1, had = have \o First(stream, n), left = Rest(stream, n) DEF Receives
<1>2. /\ DOMAIN had = 1..Len(have) + n /\ DOMAIN left = 1..Len(stream) - n
      /\ DOMAIN have = 1..Len(have) /\ DOMAIN stream = 1..Len(stream)
      /\ Len(have) \in Nat /\ Len(stream) \in Nat
  <2>1. DOMAIN had = 1..Len(had) /\ DOMAIN left = 1..Len(left)
    BY ONLY <1>1
  <2>2. /\ DOMAIN have = 1..Len(have) /\ DOMAIN stream = 1..Len(stream)
        /\ Len(have) \in Nat /\ Len(stream) \in Nat
    BY ONLY have \in Seq(Bytes), stream \in Seq(Bytes)
  <2>3. QED
    BY <1>1, <2>1, <2>2
<1>3. ASSUME NEW k \in DOMAIN left PROVE n + k \in DOMAIN stream /\ left[k] = stream[n + k]
  <2>1. k \in 1..Len(stream) - n
    BY <1>2
  <2>2. n + k \in 1..Len(stream)
    BY <1>2, <2>1
  <2>3. QED
    BY <1>1, <1>2, <2>1, <2>2
<1>4. ASSUME NEW k \in DOMAIN had
      PROVE  \/ k \in DOMAIN have /\ had[k] = have[k]
             \/ /\ k \notin DOMAIN have /\ k - Len(have) \in 1..n
                /\ k - Len(have) \in DOMAIN stream
                /\ had[k] = stream[k - Len(have)]
  <2>1. CASE k <= Len(have)
    BY <1>1, <1>2, <2>1
  <2>2. CASE ~(k <= Len(have))
    <3>1. k - Len(have) \in 1..n /\ Len(have) + (k - Len(have)) = k
      BY <1>2, <2>2
    <3>2. had[k] = stream[k - Len(have)]
      BY <1>1, <3>1
    <3>3. QED
      BY <1>2, <2>2, <3>1, <3>2
  <2>3. QED
    BY <2>1, <2>2
<1>5. QED
  BY <1>1, <1>3, <1>4 DEF MovedUnits

\* A message, or its beginning, is put on a stream.
LEMMA Put ==
    ASSUME NEW m \in Messages, NEW stream \in Seq(Bytes), NEW n \in 0..HeaderLength + m.length
    PROVE  /\ stream \o First(Wire(m), n) \in Seq(Bytes)
           /\ Len(stream \o First(Wire(m), n)) = Len(stream) + n
           /\ \A k \in 1..Len(stream) : (stream \o First(Wire(m), n))[k] = stream[k]
           /\ \A k \in 1..n : (stream \o First(Wire(m), n))[Len(stream) + k] =
                                  [message |-> m, at |-> k]
<1>1. n \in 0..Len(Wire(m)) /\ Wire(m) \in Seq(Bytes)
  BY OnTheWire
<1> DEFINE w == Wire(m)
           f == First(w, n)
<1>0. w \in Seq(Bytes) /\ n \in 0..Len(w)
  BY <1>1
<1> HIDE DEF w
<1>2. f \in Seq(Bytes) /\ Len(f) = n /\ \A k \in 1..n : f[k] = w[k]
  BY <1>0, Cut
<1> HIDE DEF f
<1>3. /\ stream \o f \in Seq(Bytes) /\ Len(stream \o f) = Len(stream) + n
      /\ \A k \in 1..Len(stream) : (stream \o f)[k] = stream[k]
      /\ \A k \in 1..n : (stream \o f)[Len(stream) + k] = f[k]
  BY <1>2, Joined
<1>4. m.length \in Nat
  BY DEF Messages
<1>5. \A k \in 1..n : f[k] = [message |-> m, at |-> k]
  <2>1. \A k \in 1..HeaderLength + m.length : w[k] = [message |-> m, at |-> k]
    BY OnTheWire DEF w
  <2>2. 1..n \subseteq 1..HeaderLength + m.length
    BY <1>4, LengthAssumption
  <2>3. QED
    BY <1>2, <2>1, <2>2, Zenon
<1>6. QED
  BY <1>3, <1>5 DEF f, w

\* The first n units of m were put on stream: longer is the result.
PutUnits(m, stream, n, longer) ==
    /\ longer \in Seq(Bytes)
    /\ \A k \in DOMAIN longer : \/ k \in DOMAIN stream /\ longer[k] = stream[k]
                                \/ /\ k \notin DOMAIN stream /\ k - Len(stream) \in 1..n
                                   /\ longer[k] = [message |-> m, at |-> k - Len(stream)]

(* Sending puts them there. *)
LEMMA Puts ==
    ASSUME NEW m \in Messages, NEW stream \in Seq(Bytes), NEW n \in 0..HeaderLength + m.length,
           NEW longer, longer = stream \o First(Wire(m), n)
    PROVE  PutUnits(m, stream, n, longer)
<1>1. /\ longer \in Seq(Bytes) /\ Len(longer) = Len(stream) + n
      /\ \A k \in 1..Len(stream) : longer[k] = stream[k]
      /\ \A k \in 1..n : longer[Len(stream) + k] = [message |-> m, at |-> k]
  BY Put
<1>2. m.length \in Nat /\ n \in Nat
  BY LengthAssumption DEF Messages
<1>3. /\ DOMAIN longer = 1..Len(stream) + n
      /\ DOMAIN stream = 1..Len(stream) /\ Len(stream) \in Nat
  BY <1>1, <1>2
<1>4. ASSUME NEW k \in DOMAIN longer
      PROVE  \/ k \in DOMAIN stream /\ longer[k] = stream[k]
             \/ /\ k \notin DOMAIN stream /\ k - Len(stream) \in 1..n
                /\ longer[k] = [message |-> m, at |-> k - Len(stream)]
  <2>1. CASE k <= Len(stream)
    BY <1>1, <1>3, <2>1
  <2>2. CASE ~(k <= Len(stream))
    <3>1. k - Len(stream) \in 1..n /\ Len(stream) + (k - Len(stream)) = k
      BY <1>2, <1>3, <2>2
    <3>2. longer[k] = [message |-> m, at |-> k - Len(stream)]
      BY <1>1, <3>1
    <3>3. QED
      BY <1>3, <2>2, <3>1, <3>2
  <2>3. QED
    BY <2>1, <2>2
<1>5. QED
  BY <1>1, <1>4 DEF PutUnits

\* A whole message is its own beginning of full length.
LEMMA AllOfIt ==
    ASSUME NEW m \in Messages
    PROVE  Wire(m) = First(Wire(m), HeaderLength + m.length)
<1>1. Wire(m) \in Seq(Bytes) /\ Len(Wire(m)) = HeaderLength + m.length
  BY OnTheWire
<1>2. QED
  BY <1>1 DEF First

-----------------------------------------------------------------------------
(* Types *)

\* A request, or its beginning, is put on the wire.
Sends ==
    /\ call' = call + 1
    /\ \E n \in 0..HeaderLength + RequestLength :
           up' = up \o First(Wire(Request(call + 1)), n)
    /\ UNCHANGED <<sHave, session, executed, answers, answer>>

\* That is what a call does, also one that times out.
LEMMA CallSends == ASSUME Typed, Call \/ CallCutOff PROVE Sends
<1>1. Request(call + 1) \in Messages /\ Request(call + 1).length = RequestLength
  BY RequestIsMessage DEF Typed, ClientTyped
<1>2. CASE Call
  <2>1. Wire(Request(call + 1)) = First(Wire(Request(call + 1)), HeaderLength + RequestLength)
    BY <1>1, AllOfIt
  <2>2. up' = up \o Wire(Request(call + 1))
    BY <1>2 DEF Call
  <2>3. HeaderLength + RequestLength \in 0..HeaderLength + RequestLength
    BY LengthAssumption
  <2>4. \E n \in 0..HeaderLength + RequestLength :
            up' = up \o First(Wire(Request(call + 1)), n)
    BY <2>1, <2>2, <2>3
  <2>5. QED
    BY <1>2, <2>4 DEF Call, Sends, sessionVars
<1>3. CASE CallCutOff
  <2>1. \E n \in 0..(HeaderLength + RequestLength - 1) :
            up' = up \o First(Wire(Request(call + 1)), n)
    BY <1>3 DEF CallCutOff
  <2>2. 0..(HeaderLength + RequestLength - 1) \subseteq 0..HeaderLength + RequestLength
    BY LengthAssumption
  <2>3. \E n \in 0..HeaderLength + RequestLength :
            up' = up \o First(Wire(Request(call + 1)), n)
    BY <2>1, <2>2
  <2>4. QED
    BY <1>3, <2>3 DEF CallCutOff, Sends, sessionVars
<1>4. QED
  BY <1>2, <1>3

\* The step of one side leaves the other side's types alone.
LEMMA ClientStays == ASSUME Typed, UNCHANGED clientVars PROVE ClientTyped'
BY DEF Typed, ClientTyped, clientVars, Waiting

(* ... and the other way round. *)
LEMMA SessionStays == ASSUME Typed, UNCHANGED <<sessionVars, chain>> PROVE SessionTyped'
BY DEF Typed, SessionTyped, sessionVars, Whole

(* A call keeps the types. *)
LEMMA CallTyped == ASSUME Typed, Call \/ CallCutOff PROVE Typed'
<1>1. Request(call + 1) \in Messages /\ Request(call + 1).length = RequestLength
  BY RequestIsMessage DEF Typed, ClientTyped
<1>2. PICK n \in 0..HeaderLength + RequestLength :
          up' = up \o First(Wire(Request(call + 1)), n)
  BY CallSends DEF Sends
<1>3. up' \in Seq(Bytes)
  BY <1>1, <1>2, Put DEF Typed, WireTyped
<1>4. SessionTyped'
  BY SessionStays DEF Call, CallCutOff, fixed
<1>5. WireTyped'
  BY <1>3 DEF Typed, WireTyped, Call, CallCutOff, fixed
<1>6. /\ client' \in {"header", "idle", "closed"} /\ client = "idle"
      /\ call' = call + 1 /\ call + 1 <= MaxCalls
      /\ UNCHANGED <<cHave, cNeed, taken>>
  BY LengthAssumption DEF Typed, ClientTyped, Call, CallCutOff
<1>7. call \in Nat /\ call' \in 0..MaxCalls /\ Len(taken) \in Nat /\ Len(taken) <= call
  BY <1>6, LengthAssumption DEF Typed, ClientTyped
<1>8. ClientTyped'
  BY <1>6, <1>7 DEF Typed, ClientTyped, ClientStages, Waiting
<1>9. QED
  BY <1>4, <1>5, <1>8 DEF Typed

(* The client reads, returns or closes. *)
LEMMA ClientReadTyped == ASSUME Typed, ClientRead \/ Close PROVE Typed'
<1>1. SessionTyped'
  BY SessionStays DEF ClientRead, Close, ClientReceive, ClientHeader, Return, ClientParseError,
                      ClientTimeout, ClientEndOfStream, fixed
<1>2. CASE ClientReceive
  <2>1. PICK n \in 1..(cNeed - Len(cHave)) :
            /\ n <= Len(down) /\ cHave' = cHave \o First(down, n) /\ down' = Rest(down, n)
    BY <1>2 DEF ClientReceive
  <2>2. n \in 1..Len(down)
    BY <2>1 DEF Typed, WireTyped
  <2>3. cHave' \in Seq(Bytes) /\ Len(cHave') = Len(cHave) + n /\ down' \in Seq(Bytes)
    BY <2>1, <2>2, Moved DEF Receives, Typed, WireTyped, ClientTyped
  <2>4. QED
    BY <1>1, <1>2, <2>1, <2>3
       DEF Typed, WireTyped, ClientTyped, ClientReceive, fixed, Waiting, ClientStages
<1>3. CASE ClientHeader
  <2>1. \E length \in Nat : cNeed' = HeaderLength + length
    BY <1>3, AnnouncedIsNumber DEF ClientHeader, Typed, ClientTyped
  <2>2. QED
    BY <1>1, <1>3, <2>1, LengthAssumption
       DEF Typed, WireTyped, ClientTyped, ClientHeader, streams, fixed, Waiting, ClientStages
<1>4. CASE Return
  <2>1. cHave[1] \in Bytes
    BY <1>4, LengthAssumption DEF Return, Typed, ClientTyped
  <2>2. [call |-> call, answer |-> cHave[1].message] \in [call : Nat, answer : Messages]
    BY <2>1 DEF Bytes, Typed, ClientTyped
  <2>3. taken' \in Seq([call : Nat, answer : Messages]) /\ Len(taken') = Len(taken) + 1
    BY <1>4, <2>2 DEF Return, Typed, ClientTyped
  <2>4. QED
    BY <1>1, <1>4, <2>3, LengthAssumption
       DEF Typed, WireTyped, ClientTyped, Return, streams, fixed, Waiting, ClientStages
<1>5. CASE ClientParseError \/ ClientTimeout \/ ClientEndOfStream
  <2>1. /\ client' \in {"idle", "closed"} /\ cHave' = << >> /\ cNeed' = HeaderLength
        /\ UNCHANGED <<call, taken>>
    BY <1>5 DEF ClientParseError, ClientTimeout, ClientEndOfStream, Raise
  <2>2. ClientTyped'
    BY <2>1, LengthAssumption DEF Typed, ClientTyped, Waiting, ClientStages
  <2>3. WireTyped'
    BY <1>5 DEF Typed, WireTyped, ClientParseError, ClientTimeout, ClientEndOfStream, streams, fixed
  <2>4. QED
    BY <1>1, <2>2, <2>3 DEF Typed
<1>6. CASE Close
  BY <1>1, <1>6
     DEF Typed, WireTyped, ClientTyped, Close, streams, fixed, Waiting, ClientStages
<1>7. QED
  BY <1>2, <1>3, <1>4, <1>5, <1>6 DEF ClientRead

\* What the session answers is a message about the request it has in hand.
LEMMA AnswerIsMessage ==
    ASSUME Typed, session \in {"checking", "authenticating", "processing"},
           NEW kind \in Kinds, NEW length \in Nat
    PROVE  /\ Answer(kind, length) \in Messages
           /\ Answer(kind, length).kind = kind
           /\ Answer(kind, length).for = IF Whole(sHave) THEN sHave[1].message.for ELSE 0
           /\ sHave[1] \in Bytes /\ 1 \in DOMAIN sHave
<1>1. sHave[1] \in Bytes /\ 1 \in DOMAIN sHave
  BY LengthAssumption DEF Typed, SessionTyped
<1>2. sHave[1].message.for \in Nat
  BY <1>1 DEF Bytes, Messages
<1>3. Len(answers) + 1 \in Nat
  BY DEF Typed, SessionTyped
<1> DEFINE f == IF Whole(sHave) THEN sHave[1].message.for ELSE 0
<1>4. f \in Nat
  BY <1>2
<1> HIDE DEF f
<1>5. Answer(kind, length) = [kind |-> kind, for |-> f, nth |-> Len(answers) + 1, length |-> length]
  BY DEF Answer, f
<1>6. QED
  BY <1>1, <1>3, <1>4, <1>5 DEF Messages, f

\* The session reads: some units, a header, the end of a request.
LEMMA ReadTyped ==
    ASSUME Typed, SessionReceive \/ SessionHeader \/ SessionRequest \/ SessionEndOfStream
    PROVE  Typed'
<1>1. ClientTyped'
  BY ClientStays DEF SessionReceive, SessionHeader, SessionRequest, SessionEndOfStream
<1>2. CASE SessionReceive
  <2>1. PICK n \in 1..(sNeed - Len(sHave)) :
            /\ n <= Len(up) /\ sHave' = sHave \o First(up, n) /\ up' = Rest(up, n)
    BY <1>2 DEF SessionReceive
  <2>2. n \in 1..Len(up)
    BY <2>1 DEF Typed, WireTyped
  <2>3. sHave' \in Seq(Bytes) /\ Len(sHave') = Len(sHave) + n /\ up' \in Seq(Bytes)
    BY <2>1, <2>2, Moved DEF Receives, Typed, WireTyped, SessionTyped
  <2>4. QED
    BY <1>1, <1>2, <2>1, <2>3
       DEF Typed, WireTyped, SessionTyped, SessionReceive, Receiving, fixed
<1>3. CASE SessionHeader
  <2>1. \E length \in Nat : sNeed' = HeaderLength + length
    BY <1>3, AnnouncedIsNumber DEF SessionHeader, Typed, SessionTyped
  <2>2. QED
    BY <1>1, <1>3, <2>1, LengthAssumption
       DEF Typed, WireTyped, SessionTyped, SessionHeader, streams, fixed, SessionStages
<1>4. CASE SessionRequest \/ SessionEndOfStream
  BY <1>1, <1>4
     DEF Typed, WireTyped, SessionTyped, SessionRequest, SessionEndOfStream, streams, fixed,
         SessionStages
<1>5. QED
  BY <1>2, <1>3, <1>4

\* The session answers.
LEMMA AnswerTyped ==
    ASSUME Typed, CheckCertificate \/ ParseError \/ NotAuthenticated \/ Process \/ ProcessRaises
    PROVE  Typed'
<1>1. ClientTyped' /\ WireTyped'
  BY ClientStays
     DEF CheckCertificate, ParseError, NotAuthenticated, Process, ProcessRaises, streams, fixed,
         Typed, WireTyped
<1>2. session \in {"checking", "authenticating", "processing"}
  BY DEF CheckCertificate, ParseError, NotAuthenticated, Process, ProcessRaises
<1>3. \E kind \in Kinds, length \in Nat : AnswerWith(kind, length)
  <2>1. ErrorLength \in Nat /\ AnswerLengths \subseteq Nat
    BY LengthAssumption
  <2>2. CASE CheckCertificate \/ ParseError \/ NotAuthenticated \/ ProcessRaises
    BY <2>1, <2>2 DEF CheckCertificate, ParseError, NotAuthenticated, ProcessRaises, Kinds, Refusals
  <2>3. CASE Process
    <3>1. PICK length \in AnswerLengths :
              AnswerWith(DoneOrTooLarge(length),
                         IF length > MaxResponse THEN ErrorLength ELSE length)
      BY <2>3 DEF Process
    <3>2. DoneOrTooLarge(length) \in Kinds
      BY DEF DoneOrTooLarge, Kinds
    <3>3. (IF length > MaxResponse THEN ErrorLength ELSE length) \in Nat
      BY <2>1
    <3>4. QED
      BY <3>1, <3>2, <3>3
  <2>4. QED
    BY <2>2, <2>3
<1>4. session' = "answering" /\ \E a \in Messages : answer' = <<a>>
  BY <1>2, <1>3, AnswerIsMessage DEF AnswerWith
<1>5. executed' \in Seq(Nat)
  <2>1. sHave[1] \in Bytes
    BY <1>2, LengthAssumption DEF Typed, SessionTyped
  <2>2. sHave[1].message.for \in Nat /\ executed \in Seq(Nat)
    BY <2>1 DEF Bytes, Messages, Typed, SessionTyped
  <2>3. executed' = executed \/ executed' = Append(executed, sHave[1].message.for)
    BY DEF CheckCertificate, ParseError, NotAuthenticated, Process, ProcessRaises
  <2>4. QED
    BY <2>2, <2>3
<1>6. UNCHANGED <<sHave, sNeed, plugin, identity, answers, chain>>
  BY DEF CheckCertificate, ParseError, NotAuthenticated, Process, ProcessRaises, fixed
<1>7. SessionTyped'
  BY <1>4, <1>5, <1>6 DEF Typed, SessionTyped, SessionStages
<1>8. QED
  BY <1>1, <1>7 DEF Typed

\* The session verifies and identifies the client.
LEMMA AuthenticateTyped ==
    ASSUME Typed, Parse \/ SkipPlugin \/ PluginSucceeds \/ PluginFails \/ IdentifyByCertificate
    PROVE  Typed'
<1>1. ClientTyped' /\ WireTyped'
  BY ClientStays
     DEF Parse, SkipPlugin, PluginSucceeds, PluginFails, IdentifyByCertificate, streams, fixed,
         Typed, WireTyped
<1>2. /\ UNCHANGED <<sHave, sNeed, executed, answers, chain, answer>>
      /\ session \in {"checking", "authenticating"} /\ session' \in {"authenticating", "processing"}
  BY DEF Parse, SkipPlugin, PluginSucceeds, PluginFails, IdentifyByCertificate, fixed
<1>3. Whole(sHave)
  BY DEF Typed, SessionTyped, Parse, SkipPlugin, PluginSucceeds, PluginFails, IdentifyByCertificate
<1>4. plugin' \in 1..(Len(chain) + 1)
  <2>1. Len(chain) \in Nat
    BY SettingsAssumption DEF Typed, WireTyped
  <2>2. plugin' = plugin \/ (plugin' = plugin + 1 /\ plugin <= Len(chain))
    BY DEF Parse, SkipPlugin, PluginSucceeds, PluginFails, IdentifyByCertificate, MorePlugins
  <2>3. QED
    BY <2>1, <2>2 DEF Typed, SessionTyped
<1>5. identity'.groups \in GroupLists \cup {NoGroups}
  <2>1. CASE PluginSucceeds
    BY <2>1 DEF PluginSucceeds
  <2>2. CASE IdentifyByCertificate
    BY <2>2 DEF IdentifyByCertificate
  <2>3. CASE identity' = identity
    BY <2>3 DEF Typed, SessionTyped
  <2>4. QED
    BY <2>1, <2>2, <2>3 DEF Parse, SkipPlugin, PluginFails
<1>6. SessionTyped'
  BY <1>2, <1>3, <1>4, <1>5 DEF Typed, SessionTyped, SessionStages, Whole
<1>7. QED
  BY <1>1, <1>6 DEF Typed

\* The session returns to the beginning of its loop.
LEMMA LoopTyped ==
    ASSUME Typed, SessionTimeout \/ Send \/ SendCutOff \/ SendRaises
    PROVE  Typed'
<1>1. ClientTyped'
  BY ClientStays DEF SessionTimeout, Send, SendCutOff, SendRaises
<1>2. down' \in Seq(Bytes)
  <2>1. CASE Send \/ SendCutOff
    <3>1. PICK m \in Messages : answer = <<m>>
      BY <2>1 DEF Send, SendCutOff, Typed, SessionTyped
    <3>2. answer[1] = m /\ m.length \in Nat
      BY <3>1 DEF Messages
    <3>3. Wire(m) = First(Wire(m), HeaderLength + m.length)
      BY AllOfIt
    <3>4. HeaderLength + m.length \in 0..HeaderLength + m.length
      BY <3>2, LengthAssumption
    <3>5. 0..(HeaderLength + m.length - 1) \subseteq 0..HeaderLength + m.length
      BY <3>2, LengthAssumption
    <3>6. \E n \in 0..HeaderLength + m.length : down' = down \o First(Wire(m), n)
      BY <2>1, <3>2, <3>3, <3>4, <3>5 DEF Send, SendCutOff
    <3>7. QED
      BY <3>6, Put DEF Typed, WireTyped
  <2>2. CASE SessionTimeout \/ SendRaises
    BY <2>2 DEF SessionTimeout, SendRaises, streams, Typed, WireTyped
  <2>3. QED
    BY <2>1, <2>2
<1>3. WireTyped'
  BY <1>2 DEF Typed, WireTyped, SessionTimeout, Send, SendCutOff, SendRaises, streams, fixed
<1>4. answers' \in Seq(Messages)
  <2>1. CASE session = "answering" /\ answers' = Append(answers, answer[1])
    <3>1. PICK m \in Messages : answer = <<m>>
      BY <2>1 DEF Typed, SessionTyped
    <3>2. QED
      BY <2>1, <3>1 DEF Typed, SessionTyped
  <2>2. CASE answers' = answers
    BY <2>2 DEF Typed, SessionTyped
  <2>3. QED
    BY <2>1, <2>2 DEF SessionTimeout, Send, SendCutOff, SendRaises
<1>5. Loop /\ UNCHANGED <<executed, chain>>
  BY DEF SessionTimeout, Send, SendCutOff, SendRaises, fixed
<1>6. identity'.groups \in GroupLists \cup {NoGroups}
  BY <1>5 DEF Loop, Nobody
<1>7. plugin' \in 1..(Len(chain') + 1)
  BY <1>5, SettingsAssumption DEF Loop, Typed, WireTyped
<1>8. SessionTyped'
  BY <1>4, <1>5, <1>6, <1>7, LengthAssumption DEF Loop, Typed, SessionTyped, SessionStages
<1>9. QED
  BY <1>1, <1>3, <1>8 DEF Typed

\* Every step keeps the types.
LEMMA StepTyped == Typed /\ [Next]_vars => Typed'
<1> SUFFICES ASSUME Typed, [Next]_vars PROVE Typed'
  OBVIOUS
<1>1. CASE Stop \/ Exit
  <2>1. ClientTyped' /\ WireTyped'
    BY <1>1, ClientStays DEF Stop, Exit, streams, fixed, Typed, WireTyped
  <2>2. SessionTyped'
    BY <1>1 DEF Stop, Exit, fixed, sessionVars, Typed, SessionTyped, SessionStages, Whole
  <2>3. QED
    BY <2>1, <2>2 DEF Typed
<1>2. CASE UNCHANGED vars
  <2>1. ClientTyped' /\ WireTyped' /\ SessionTyped'
    BY <1>2, ClientStays, SessionStays DEF vars, streams, fixed, Typed, WireTyped
  <2>2. QED
    BY <2>1 DEF Typed
<1>3. QED
  BY <1>1, <1>2, CallTyped, ClientReadTyped, ReadTyped, AnswerTyped, AuthenticateTyped, LoopTyped
     DEF Next, SessionStep

(* A new connection is well formed. *)
LEMMA InitTyped == Init => Typed
<1> SUFFICES ASSUME Init PROVE Typed
  OBVIOUS
<1>1. WireTyped
  <2>1. << >> \in Seq(Bytes)
    OBVIOUS
  <2>2. QED
    BY <2>1, Zenon DEF Init, WireTyped
<1>a. 0 \in 0..MaxCalls /\ Len(<< >>) = 0 /\ << >> \in Seq(Bytes)
      /\ << >> \in Seq([call : Nat, answer : Messages]) /\ HeaderLength \in Nat
  BY LengthAssumption
<1>b. ClientTyped
  BY <1>a DEF Init, ClientTyped, ClientStages, Waiting
<1>2. Len(chain) \in Nat
  BY SettingsAssumption DEF Init
<1>3. SessionTyped
  BY <1>2, LengthAssumption DEF Init, SessionTyped, SessionStages, Nobody
<1>4. QED
  BY <1>1, <1>b, <1>3 DEF Typed

-----------------------------------------------------------------------------
(* The shapes of a step, as requests see it *)

\* Some of it is read.
Reads ==
    /\ Fresh
    /\ \E n \in 1..Len(up) : sHave' = sHave \o First(up, n) /\ up' = Rest(up, n)
    /\ UNCHANGED <<call, session, executed, answers, answer>>

\* What was read is dropped, perhaps after the answer to it was sent.
Drops ==
    /\ sHave' = << >> /\ session' = "header"
    /\ \/ answers' = answers
       \/ session = "answering" /\ answers' = Append(answers, answer[1])
    /\ UNCHANGED <<up, call, executed>>

\* What was read becomes an answer, with or without the engine.
Decides ==
    /\ session \in {"checking", "authenticating", "processing"} /\ session' = "answering"
    /\ \E kind \in Kinds, length \in Nat :
          /\ answer' = <<Answer(kind, length)>>
          /\ \/ executed' = executed /\ kind \notin {"done", "tooLarge"}
             \/ /\ session = "processing" /\ kind \notin Refusals
                /\ executed' = Append(executed, sHave[1].message.for)
    /\ UNCHANGED <<up, sHave, call, answers>>

\* Everything else.
Keeps ==
    /\ Fresh' => Fresh
    /\ session' = "answering" => session = "answering" /\ answer' = answer
    /\ UNCHANGED <<up, sHave, call, executed, answers>>

(* All answers are decisions about the request in hand. *)
LEMMA AnswerDecides ==
    ASSUME Typed, CheckCertificate \/ ParseError \/ NotAuthenticated \/ Process \/ ProcessRaises
    PROVE  Decides
<1>1. ErrorLength \in Nat /\ AnswerLengths \subseteq Nat
  BY LengthAssumption
<1> DEFINE Fits(kind, length) ==
               /\ answer' = <<Answer(kind, length)>>
               /\ \/ executed' = executed /\ kind \notin {"done", "tooLarge"}
                  \/ /\ session = "processing" /\ kind \notin Refusals
                     /\ executed' = Append(executed, sHave[1].message.for)
<1>2. \E kind \in Kinds, length \in Nat : Fits(kind, length)
  <2>1. CASE CheckCertificate
    <3>1. Fits("badCertificate", ErrorLength) /\ "badCertificate" \in Kinds
      BY <2>1 DEF CheckCertificate, AnswerWith, Kinds, Refusals
    <3>2. QED
      BY <1>1, <3>1, Zenon
  <2>2. CASE ParseError
    <3>1. Fits("badMessage", ErrorLength) /\ "badMessage" \in Kinds
      BY <2>2 DEF ParseError, AnswerWith, Kinds, Refusals
    <3>2. QED
      BY <1>1, <3>1, Zenon
  <2>3. CASE NotAuthenticated
    <3>1. Fits("notAuthenticated", ErrorLength) /\ "notAuthenticated" \in Kinds
      BY <2>3 DEF NotAuthenticated, AnswerWith, Kinds, Refusals
    <3>2. QED
      BY <1>1, <3>1, Zenon
  <2>4. CASE ProcessRaises
    <3>1. Fits("failed", ErrorLength) /\ "failed" \in Kinds
      BY <2>4 DEF ProcessRaises, AnswerWith, Kinds, Refusals
    <3>2. QED
      BY <1>1, <3>1, Zenon
  <2>5. CASE Process
    <3>1. PICK length \in AnswerLengths :
              AnswerWith(DoneOrTooLarge(length),
                         IF length > MaxResponse THEN ErrorLength ELSE length)
      BY <2>5 DEF Process
    <3>2. DoneOrTooLarge(length) \in Kinds \ Refusals
      BY DEF DoneOrTooLarge, Kinds, Refusals
    <3>3. Fits(DoneOrTooLarge(length), IF length > MaxResponse THEN ErrorLength ELSE length)
      BY <2>5, <3>1, <3>2 DEF Process, AnswerWith
    <3>4. (IF length > MaxResponse THEN ErrorLength ELSE length) \in Nat
      BY <1>1
    <3>5. QED
      BY <3>2, <3>3, <3>4
  <2>6. QED
    BY <2>1, <2>2, <2>3, <2>4, <2>5
<1>3. /\ session \in {"checking", "authenticating", "processing"} /\ session' = "answering"
      /\ UNCHANGED <<up, sHave, call, answers>>
  BY DEF CheckCertificate, ParseError, NotAuthenticated, Process, ProcessRaises, AnswerWith,
         streams, clientVars
<1>4. QED
  BY <1>2, <1>3 DEF Decides

(* Every step has one of the shapes. *)
LEMMA StepShape == Typed /\ [Next]_vars => Sends \/ Reads \/ Drops \/ Decides \/ Keeps
<1> SUFFICES ASSUME Typed, [Next]_vars PROVE Sends \/ Reads \/ Drops \/ Decides \/ Keeps
  OBVIOUS
<1>1. CASE SessionReceive
  <2>1. PICK n \in 1..(sNeed - Len(sHave)) :
            /\ n <= Len(up) /\ sHave' = sHave \o First(up, n) /\ up' = Rest(up, n)
    BY <1>1 DEF SessionReceive
  <2>2. n \in 1..Len(up)
    BY <2>1 DEF Typed, WireTyped
  <2>3. Reads
    BY <1>1, <2>1, <2>2 DEF Reads, SessionReceive, Receiving, Fresh, clientVars
  <2>4. QED
    BY <2>3
<1>2. CASE SessionTimeout \/ Send \/ SendCutOff \/ SendRaises
  BY <1>2 DEF Drops, SessionTimeout, Send, SendCutOff, SendRaises, Loop, streams, clientVars
<1>3. CASE \/ SessionHeader \/ SessionRequest \/ SessionEndOfStream
           \/ Parse \/ SkipPlugin \/ PluginSucceeds \/ PluginFails \/ IdentifyByCertificate
  BY <1>3
     DEF Keeps, Fresh, SessionHeader, SessionRequest, SessionEndOfStream, Receiving, Parse,
         SkipPlugin, PluginSucceeds, PluginFails, IdentifyByCertificate, streams, clientVars
<1>4. CASE ClientRead \/ Close
  BY <1>4
     DEF Keeps, Fresh, ClientRead, ClientReceive, ClientHeader, Return, ClientParseError, Raise,
         ClientTimeout, ClientEndOfStream, Close, streams, sessionVars
<1>5. CASE Stop \/ Exit \/ UNCHANGED vars
  BY <1>5 DEF Keeps, Fresh, Stop, Exit, vars, streams, sessionVars, clientVars
<1>6. QED
  BY <1>1, <1>2, <1>3, <1>4, <1>5, CallSends, AnswerDecides DEF Next, SessionStep

-----------------------------------------------------------------------------
(* Requests are framed, processed once and answered truthfully *)

(* The part of the invariant that speaks of requests. *)
Order == Framed /\ Processed /\ Told

\* The units on the wire and in hand have numbers.
LEMMA Numbers ==
    ASSUME Typed, Framed
    PROVE  /\ call \in Nat /\ HeaderLength \in Nat \ {0} /\ RequestLength \in Nat
           /\ \A k \in DOMAIN up : up[k].message.for \in Nat /\ up[k].at \in Nat
           /\ \A k \in DOMAIN sHave : sHave[k].message.for \in Nat /\ sHave[k].at \in Nat
           /\ \A k \in DOMAIN executed : executed[k] \in Nat
           /\ up \in Seq(Bytes) /\ sHave \in Seq(Bytes) /\ executed \in Seq(Nat)
           /\ answers \in Seq(Messages)
<1>1. \A b \in Bytes : b.message.for \in Nat /\ b.at \in Nat
  BY DEF Bytes, Messages
<1>2. /\ up \in Seq(Bytes) /\ sHave \in Seq(Bytes) /\ executed \in Seq(Nat)
      /\ answers \in Seq(Messages)
  BY DEF Typed, WireTyped, SessionTyped
<1>3. call \in Nat /\ HeaderLength \in Nat \ {0} /\ RequestLength \in Nat
  BY LengthAssumption DEF Typed, ClientTyped
<1>4. \A s \in Seq(Bytes) : \A k \in DOMAIN s : s[k].message.for \in Nat /\ s[k].at \in Nat
  <2>1. \A s \in Seq(Bytes) : \A k \in DOMAIN s : s[k] \in Bytes
    OBVIOUS
  <2>2. QED
    BY ONLY <1>1, <2>1
<1>5. \A k \in DOMAIN executed : executed[k] \in Nat
  BY <1>2
<1>6. QED
  BY ONLY <1>2, <1>3, <1>4, <1>5

\* A request that is sent comes after all others.
LEMMA SendsOrdered == ASSUME Typed, Order, Sends PROVE Order'
<1>1. PICK n \in 0..HeaderLength + RequestLength :
          up' = up \o First(Wire(Request(call + 1)), n)
  BY DEF Sends
<1> DEFINE r == Request(call + 1)
<1>2. r \in Messages /\ r.length = RequestLength /\ r.for = call + 1 /\ r = Request(r.for)
  BY Numbers, RequestIsMessage DEF Order
<1>b. r \in Messages /\ n \in 0..HeaderLength + r.length
  BY <1>2
<1>3. up \in Seq(Bytes) /\ DOMAIN up = 1..Len(up) /\ Len(up) \in Nat
  BY Numbers DEF Order
<1>d. PutUnits(r, up, n, up')
  BY <1>1, <1>b, <1>3, Puts
<1>4. ASSUME NEW k \in DOMAIN up'
      PROVE  \/ k \in DOMAIN up /\ up'[k] = up[k]
             \/ /\ k \notin DOMAIN up /\ k - Len(up) \in 1..n
                /\ up'[k] = [message |-> r, at |-> k - Len(up)]
  BY <1>d, Zenon DEF PutUnits
<1>c. up' \in Seq(Bytes)
  BY <1>d DEF PutUnits
<1>a. DOMAIN up' \subseteq Nat \ {0}
  BY <1>c
<1> HIDE DEF r
<1>5. call' = call + 1 /\ UNCHANGED <<sHave, session, executed, answers, answer>>
  BY DEF Sends
<1>6. /\ \A k \in DOMAIN up : up[k].message.for \in 1..call
      /\ \A k \in DOMAIN sHave : sHave[k].message.for \in 1..call
  BY DEF Order, Framed, FromRequests
<1>7. Framed'
  <2>1. FromRequests(sHave)'
    BY <1>5, Numbers DEF Order, Framed, FromRequests
  <2>2. FromRequests(up)'
    <3> SUFFICES ASSUME NEW k \in DOMAIN up'
                 PROVE  /\ up'[k].message = Request(up'[k].message.for)
                        /\ up'[k].message.for \in 1..call + 1
                        /\ up'[k].at \in 1..(HeaderLength + RequestLength)
      BY <1>5 DEF FromRequests
    <3>1. CASE k \in DOMAIN up /\ up'[k] = up[k]
      BY <3>1, Numbers DEF Order, Framed, FromRequests
    <3>2. CASE k - Len(up) \in 1..n /\ up'[k] = [message |-> r, at |-> k - Len(up)]
      BY <3>2, <1>2, Numbers DEF Order
    <3>3. QED
      BY <1>4, <3>1, <3>2
  <2>3. Ordered(up)'
    <3> SUFFICES ASSUME NEW j \in DOMAIN up', NEW k \in DOMAIN up', j < k
                 PROVE  Before(up'[j], up'[k])
      BY DEF Ordered
    <3>1. CASE k \in DOMAIN up
      <4>1. j \in DOMAIN up
        BY <3>1, <1>3, <1>a
      <4>2. up'[j] = up[j] /\ up'[k] = up[k]
        BY <3>1, <4>1, <1>4
      <4>3. QED
        BY <3>1, <4>1, <4>2 DEF Order, Framed, Ordered
    <3>2. CASE k \notin DOMAIN up /\ j \in DOMAIN up
      BY <3>2, <1>2, <1>4, <1>6, Numbers DEF Before, Order
    <3>3. CASE k \notin DOMAIN up /\ j \notin DOMAIN up
      <4>1. /\ up'[j] = [message |-> r, at |-> j - Len(up)]
            /\ up'[k] = [message |-> r, at |-> k - Len(up)]
        BY <3>3, <1>4
      <4>2. j - Len(up) < k - Len(up)
        BY <1>3, <1>a
      <4>3. QED
        BY <4>1, <4>2 DEF Before
    <3>4. QED
      BY <3>1, <3>2, <3>3
  <2>4. \A j \in DOMAIN sHave, k \in DOMAIN up' : Before(sHave[j], up'[k])
    <3> SUFFICES ASSUME NEW j \in DOMAIN sHave, NEW k \in DOMAIN up'
                 PROVE  Before(sHave[j], up'[k])
      OBVIOUS
    <3>1. CASE k \in DOMAIN up /\ up'[k] = up[k]
      BY <3>1 DEF Order, Framed
    <3>2. CASE up'[k] = [message |-> r, at |-> k - Len(up)]
      <4>1. sHave[j].message.for < r.for
        BY <1>2, <1>6, Numbers DEF Order
      <4>2. QED
        BY <3>2, <4>1 DEF Before
    <3>3. QED
      BY <1>4, <3>1, <3>2
  <2>5. QED
    BY <1>5, <2>1, <2>2, <2>3, <2>4 DEF Order, Framed
<1>8. \A m : Past(m) => Past(m)'
  <2> SUFFICES ASSUME NEW m, Past(m) PROVE Past(m)'
    OBVIOUS
  <2>1. m \in 0..call + 1 /\ m < call + 1
    BY Numbers DEF Past, Order
  <2>2. \A j \in DOMAIN up' : m < up'[j].message.for
    BY <2>1, <1>2, <1>4 DEF Past
  <2>3. QED
    BY <2>1, <2>2, <1>5 DEF Past, Fresh
<1>9. Processed' /\ Told'
  BY <1>5, <1>8 DEF Order, Processed, ProcessedOnce, Told, Tells, Ranges
<1>10. QED
  BY <1>7, <1>9 DEF Order

\* Reading keeps the order.
LEMMA ReadsOrdered == ASSUME Typed, Order, Reads PROVE Order'
<1>1. PICK n \in 1..Len(up) : sHave' = sHave \o First(up, n) /\ up' = Rest(up, n)
  BY DEF Reads
<1>2. up \in Seq(Bytes) /\ sHave \in Seq(Bytes)
  BY Numbers DEF Order
<1>3. UNCHANGED <<call, session, executed, answers, answer>> /\ Fresh
  BY DEF Reads
<1>c. MovedUnits(sHave, up, n, sHave', up')
  BY <1>1, <1>2, Moves
<1>4. ASSUME NEW k \in DOMAIN up' PROVE n + k \in DOMAIN up /\ up'[k] = up[n + k]
  BY <1>c DEF MovedUnits
<1>b. ASSUME NEW k \in DOMAIN sHave'
      PROVE  \/ k \in DOMAIN sHave /\ sHave'[k] = sHave[k]
             \/ /\ k \notin DOMAIN sHave /\ k - Len(sHave) \in 1..n
                /\ k - Len(sHave) \in DOMAIN up
                /\ sHave'[k] = up[k - Len(sHave)]
  BY <1>c, Zenon DEF MovedUnits
<1>5. sHave' \in Seq(Bytes) /\ up' \in Seq(Bytes)
  BY <1>c DEF MovedUnits
<1>a. /\ DOMAIN sHave = 1..Len(sHave) /\ Len(sHave) \in Nat
      /\ DOMAIN up' \subseteq Nat \ {0} /\ DOMAIN sHave' \subseteq Nat \ {0}
  BY <1>2, <1>5
<1>6. Framed'
  <2>1. FromRequests(sHave)' /\ FromRequests(up)'
    BY <1>3, <1>4, <1>b, Zenon DEF Order, Framed, FromRequests
  <2>2. Ordered(up)'
    <3> SUFFICES ASSUME NEW j \in DOMAIN up', NEW k \in DOMAIN up', j < k
                 PROVE  Before(up'[j], up'[k])
      BY DEF Ordered
    <3>1. n + j < n + k
      BY <1>a
    <3>2. QED
      BY <1>4, <3>1 DEF Order, Framed, Ordered
  <2>3. Ordered(sHave)'
    <3> SUFFICES ASSUME NEW j \in DOMAIN sHave', NEW k \in DOMAIN sHave', j < k
                 PROVE  Before(sHave'[j], sHave'[k])
      BY DEF Ordered
    <3>1. CASE k \in DOMAIN sHave
      <4>1. j \in DOMAIN sHave
        BY <3>1, <1>a
      <4>2. sHave'[j] = sHave[j] /\ sHave'[k] = sHave[k]
        BY <1>b, <3>1, <4>1
      <4>3. QED
        BY <3>1, <4>1, <4>2 DEF Order, Framed, Ordered
    <3>2. CASE k \notin DOMAIN sHave /\ j \in DOMAIN sHave
      BY <3>2, <1>b DEF Order, Framed
    <3>3. CASE k \notin DOMAIN sHave /\ j \notin DOMAIN sHave
      <4>1. /\ j - Len(sHave) \in DOMAIN up /\ k - Len(sHave) \in DOMAIN up
            /\ sHave'[j] = up[j - Len(sHave)] /\ sHave'[k] = up[k - Len(sHave)]
        BY <3>3, <1>b
      <4>2. j - Len(sHave) < k - Len(sHave)
        BY <1>a
      <4>3. QED
        BY <4>1, <4>2 DEF Order, Framed, Ordered
    <3>4. QED
      BY <3>1, <3>2, <3>3
  <2>4. \A j \in DOMAIN sHave', k \in DOMAIN up' : Before(sHave'[j], up'[k])
    <3> SUFFICES ASSUME NEW j \in DOMAIN sHave', NEW k \in DOMAIN up'
                 PROVE  Before(sHave'[j], up'[k])
      OBVIOUS
    <3>1. CASE j \in DOMAIN sHave
      BY <3>1, <1>4, <1>b DEF Order, Framed
    <3>2. CASE j \notin DOMAIN sHave
      <4>1. j - Len(sHave) \in DOMAIN up /\ sHave'[j] = up[j - Len(sHave)]
            /\ j - Len(sHave) \in 1..n
        BY <3>2, <1>b
      <4>2. j - Len(sHave) < n + k
        BY <4>1, <1>a
      <4>3. QED
        BY <4>1, <4>2, <1>4 DEF Order, Framed, Ordered
    <3>3. QED
      BY <3>1, <3>2
  <2>5. QED
    BY <2>1, <2>2, <2>3, <2>4 DEF Framed
<1>7. \A m : Past(m) => Past(m)'
  BY <1>3, <1>4, <1>b DEF Past, Fresh
<1>8. Processed' /\ Told'
  BY <1>3, <1>7 DEF Order, Processed, ProcessedOnce, Told, Tells, Ranges
<1>9. QED
  BY <1>6, <1>8 DEF Order

\* What was read may be dropped.
LEMMA DropsOrdered == ASSUME Typed, Order, Drops PROVE Order'
<1>1. sHave' = << >> /\ session' = "header" /\ UNCHANGED <<up, call, executed>>
  BY DEF Drops
<1>2. DOMAIN sHave' = {}
  BY <1>1
<1>3. Framed'
  BY <1>1, <1>2 DEF Order, Framed, FromRequests, Ordered
<1>4. \A m : Past(m) => Past(m)'
  BY <1>1, <1>2 DEF Past
<1>5. Processed'
  BY <1>1, <1>4 DEF Order, Processed, ProcessedOnce
<1>6. \A k \in DOMAIN answers' : Tells(answers'[k]) /\ Past(answers'[k].for)
  <2>1. CASE answers' = answers
    BY <2>1 DEF Order, Told
  <2>2. CASE session = "answering" /\ answers' = Append(answers, answer[1])
    <3>1. \A k \in DOMAIN answers' : \/ k \in DOMAIN answers /\ answers'[k] = answers[k]
                                     \/ answers'[k] = answer[1]
      BY <2>2, Numbers DEF Order
    <3>2. QED
      BY <2>2, <3>1 DEF Order, Told
  <2>3. QED
    BY <2>1, <2>2 DEF Drops
<1>7. Told'
  BY <1>1, <1>4, <1>6 DEF Told, Tells, Ranges
<1>8. QED
  BY <1>3, <1>5, <1>7 DEF Order

\* Steps that touch neither requests nor answers.
LEMMA KeepsOrder == ASSUME Typed, Order, Keeps PROVE Order'
<1>1. (Fresh' => Fresh) /\ UNCHANGED <<up, sHave, call, executed, answers>>
  BY DEF Keeps
<1>2. Framed'
  BY <1>1 DEF Order, Framed, FromRequests, Ordered
<1>3. \A m : Past(m) => Past(m)'
  BY <1>1 DEF Past
<1>4. Processed'
  BY <1>1, <1>3 DEF Order, Processed, ProcessedOnce
<1>5. Told'
  BY <1>1, <1>3 DEF Order, Told, Tells, Ranges, Keeps
<1>6. QED
  BY <1>2, <1>4, <1>5 DEF Order

\* Nothing of a request that is wholly in hand is left on the wire.
LEMMA WholeIsPast ==
    ASSUME Typed, Framed, Len(sHave) = sNeed, Whole(sHave)
    PROVE  /\ sHave[1].message.for \in 1..call
           /\ \A j \in DOMAIN up : sHave[1].message.for < up[j].message.for
<1> DEFINE m == sHave[1].message
           last == HeaderLength + RequestLength
<1>1. sHave[1] \in Bytes /\ 1 \in DOMAIN sHave
  BY LengthAssumption DEF Typed, SessionTyped
<1>2. m \in Messages
  BY <1>1 DEF Bytes
<1>3. m = Request(m.for) /\ m.for \in 1..call
  BY <1>1 DEF Framed, FromRequests
<1>4. m.length = RequestLength
  BY <1>3 DEF Request
<1>5. sHave = Wire(m)
  BY DEF Whole
<1>6. last \in 1..HeaderLength + m.length /\ last \in Nat
  BY <1>4, LengthAssumption
<1>7. last \in DOMAIN sHave /\ sHave[last] = [message |-> m, at |-> last]
  BY <1>2, <1>5, <1>6, OnTheWire
<1>8. ASSUME NEW j \in DOMAIN up PROVE m.for < up[j].message.for
  <2>1. Before(sHave[last], up[j])
    BY <1>7 DEF Framed
  <2>2. up[j].at \in 1..last
    BY DEF Framed, FromRequests
  <2>3. ~(last < up[j].at)
    BY <2>2, <1>6
  <2>4. QED
    BY <2>1, <2>3, <1>7 DEF Before
<1>9. QED
  BY <1>3, <1>8

\* A decision is about a request that was not processed before.
LEMMA DecidesOrder == ASSUME Typed, Order, Decides PROVE Order'
<1>1. PICK kind \in Kinds, length \in Nat :
          /\ answer' = <<Answer(kind, length)>>
          /\ \/ executed' = executed /\ kind \notin {"done", "tooLarge"}
             \/ /\ session = "processing" /\ kind \notin Refusals
                /\ executed' = Append(executed, sHave[1].message.for)
  BY DEF Decides
<1>a. PICK a : a = Answer(kind, length)
  OBVIOUS
<1>b. PICK f : f = sHave[1].message.for
  OBVIOUS
<1>2. /\ session \in {"checking", "authenticating", "processing"} /\ session' = "answering"
      /\ UNCHANGED <<up, sHave, call, answers>>
  BY DEF Decides
<1>3. a.kind = kind /\ a.for = (IF Whole(sHave) THEN f ELSE 0) /\ 1 \in DOMAIN sHave
  BY <1>2, <1>a, <1>b, AnswerIsMessage
<1>4. session = "processing" => Whole(sHave)
  BY DEF Typed, SessionTyped
<1>5. Len(sHave) = sNeed
  BY <1>2 DEF Typed, SessionTyped
<1>6. Whole(sHave) => f \in 1..call /\ \A j \in DOMAIN up : f < up[j].message.for
  BY <1>5, <1>b, WholeIsPast DEF Order
<1>7. answer'[1] = a
  BY <1>1, <1>a
<1>8. \A m : Past(m) => Past(m)' /\ m < f
  BY <1>2, <1>3, <1>b DEF Past, Fresh
<1>9. Past(a.for)'
  <2>1. \A j \in DOMAIN up : 0 < up[j].message.for
    BY Numbers DEF Order, Framed, FromRequests
  <2>2. a.for \in 0..call /\ \A j \in DOMAIN up : a.for < up[j].message.for
    BY <2>1, <1>3, <1>6, Numbers DEF Order
  <2>3. QED
    BY <2>2, <1>2 DEF Past, Fresh
<1>10. Framed'
  BY <1>2 DEF Order, Framed, FromRequests, Ordered
<1>11. CASE executed' = executed /\ kind \notin {"done", "tooLarge"}
  <2>1. Processed'
    BY <1>8, <1>11 DEF Order, Processed, ProcessedOnce
  <2>2. \A b \in Messages : Tells(b) => Tells(b)'
    BY <1>11 DEF Tells, Ranges
  <2>3. a.for # 0 => a.for \notin Ranges(executed)
    <3> SUFFICES ASSUME a.for # 0, NEW k \in DOMAIN executed PROVE executed[k] # a.for
      BY DEF Ranges
    <3>1. a.for = f
      BY <1>3
    <3>2. executed[k] < f /\ executed[k] \in Nat
      BY <1>8, Numbers DEF Order, Processed
    <3>3. f \in Nat
      BY <1>3, <1>6, <3>1, Numbers DEF Order
    <3>4. QED
      BY <3>1, <3>2, <3>3
  <2>4. Tells(a)'
    BY <1>3, <1>11, <2>3 DEF Tells, Ranges
  <2>5. Told'
    BY <1>2, <1>7, <1>8, <1>9, <2>2, <2>4, Numbers DEF Order, Told
  <2>6. QED
    BY <1>10, <2>1, <2>5 DEF Order
<1>12. CASE /\ session = "processing" /\ kind \notin Refusals
            /\ executed' = Append(executed, f)
  <2>1. a.for = f /\ f \in 1..call /\ f \in Nat /\ executed \in Seq(Nat)
    BY <1>3, <1>4, <1>6, <1>12, Numbers DEF Order
  <2>2. /\ DOMAIN executed' = 1..Len(executed) + 1 /\ DOMAIN executed = 1..Len(executed)
        /\ Len(executed) \in Nat
        /\ executed'[Len(executed) + 1] = f
        /\ \A k \in 1..Len(executed) : executed'[k] = executed[k]
    BY <1>12, <2>1
  <2>3. \A k \in 1..Len(executed) : executed[k] < f /\ executed[k] >= k /\ executed[k] \in Nat
    BY <1>8, <2>1, <2>2 DEF Order, Processed
  <2>4. f >= Len(executed) + 1
    <3>1. CASE Len(executed) = 0
      BY <3>1, <2>1
    <3>2. CASE Len(executed) # 0
      <4>1. Len(executed) \in 1..Len(executed)
        BY <2>2, <3>2
      <4>2. QED
        BY <2>1, <2>2, <2>3, <4>1
    <3>3. QED
      BY <3>1, <3>2
  <2>5. Ranges(executed') = Ranges(executed) \cup {f}
    BY <2>2 DEF Ranges
  <2>6. Past(f)'
    BY <1>9, <2>1
  <2>7. \A k \in DOMAIN executed' : (\A m : m = executed'[k] => Past(m)') /\ executed'[k] >= k
    <3> SUFFICES ASSUME NEW k \in DOMAIN executed', NEW m, m = executed'[k]
                 PROVE  Past(m)' /\ m >= k
      OBVIOUS
    <3>1. CASE k \in 1..Len(executed)
      <4>1. m = executed[k] /\ k \in DOMAIN executed
        BY <2>2, <3>1
      <4>2. Past(m) /\ m >= k
        BY <4>1 DEF Order, Processed
      <4>3. QED
        BY <1>8, <4>2
    <3>2. CASE k = Len(executed) + 1
      BY <2>2, <2>4, <2>6, <3>2
    <3>3. QED
      BY <2>2, <3>1, <3>2
  <2>8. ProcessedOnce'
    <3> SUFFICES ASSUME NEW j \in DOMAIN executed', NEW k \in DOMAIN executed', j < k
                 PROVE  executed'[j] < executed'[k]
      BY DEF ProcessedOnce
    <3>1. CASE k \in 1..Len(executed)
      BY <2>2, <3>1 DEF Order, Processed, ProcessedOnce
    <3>2. CASE k = Len(executed) + 1
      BY <2>2, <2>3, <3>2
    <3>3. QED
      BY <2>2, <3>1, <3>2
  <2>9. \A b \in Messages : Tells(b) /\ Past(b.for) => Tells(b)'
    <3> SUFFICES ASSUME NEW b \in Messages, Tells(b), Past(b.for) PROVE Tells(b)'
      OBVIOUS
    <3>1. b.for < f /\ b.for \in Nat
      BY <1>8 DEF Messages
    <3>2. QED
      BY <3>1, <2>1, <2>5 DEF Tells
  <2>10. Tells(a)'
    BY <1>3, <1>12, <2>1, <2>5 DEF Tells
  <2>11. Told'
    BY <1>2, <1>7, <1>8, <1>9, <2>9, <2>10, Numbers DEF Order, Told
  <2>12. QED
    BY <1>10, <2>7, <2>8, <2>11 DEF Order, Processed
<1>13. QED
  BY <1>1, <1>11, <1>12, <1>b

\* Every step keeps the order of the requests.
LEMMA StepOrdered == Typed /\ Order /\ [Next]_vars => Order'
BY StepShape, SendsOrdered, ReadsOrdered, DropsOrdered, DecidesOrder, KeepsOrder

(* A new connection has no requests. *)
LEMMA InitOrdered == Init => Order
<1> SUFFICES ASSUME Init PROVE Order
  OBVIOUS
<1>1. up = << >> /\ sHave = << >> /\ executed = << >> /\ answers = << >> /\ session = "header"
  BY DEF Init
<1>2. DOMAIN up = {} /\ DOMAIN sHave = {} /\ DOMAIN executed = {} /\ DOMAIN answers = {}
  BY <1>1
<1>3. QED
  BY <1>1, <1>2
     DEF Order, Framed, FromRequests, Ordered, Processed, ProcessedOnce, Told

-----------------------------------------------------------------------------
(* Who is served *)

\* The certificate is verified first, and the chain has the last word.
LEMMA StepVouched == Typed /\ Vouched /\ [Next]_vars => Vouched'
<1> SUFFICES ASSUME Typed, Vouched, [Next]_vars PROVE Vouched'
  OBVIOUS
<1>1. CASE Parse
  BY <1>1 DEF Parse, BadCertificate, Vouched, IdentityVouched, fixed
<1>2. CASE SkipPlugin \/ PluginFails
  BY <1>2 DEF SkipPlugin, PluginFails, Vouched, IdentityVouched, fixed
<1>3. CASE PluginSucceeds
  <2>1. certificate = [usage |-> "clientAuth", names |-> 1]
    <3>1. certificate \in [usage : STRING, names : Nat]
      BY SettingsAssumption DEF Typed, WireTyped
    <3>2. certificate.usage = "clientAuth" /\ certificate.names = 1
      BY <1>3 DEF PluginSucceeds, Vouched
    <3>3. QED
      BY <3>1, <3>2
  <2>2. plugin \in 1..Len(chain)
    BY <1>3, SettingsAssumption DEF PluginSucceeds, MorePlugins, Typed, WireTyped, SessionTyped
  <2>3. ~NoPluginEnabled
    BY <1>3, <2>2 DEF PluginSucceeds, NoPluginEnabled
  <2>4. UNCHANGED <<certificate, chain, plugin>> /\ session' = "processing"
    BY <1>3 DEF PluginSucceeds, fixed
  <2>5. \E groups \in GroupLists : identity' = [user |-> User, groups |-> groups]
    BY <1>3 DEF PluginSucceeds
  <2>6. MorePlugins /\ Enabled(plugin)
    BY <1>3 DEF PluginSucceeds
  <2>7. QED
    BY <2>1, <2>3, <2>4, <2>5, <2>6
       DEF Vouched, IdentityVouched, NoPluginEnabled, MorePlugins, Enabled
<1>4. CASE IdentifyByCertificate
  <2>1. certificate = [usage |-> "clientAuth", names |-> 1]
    <3>1. certificate \in [usage : STRING, names : Nat]
      BY SettingsAssumption DEF Typed, WireTyped
    <3>2. certificate.usage = "clientAuth" /\ certificate.names = 1
      BY <1>4 DEF IdentifyByCertificate, Vouched
    <3>3. QED
      BY <3>1, <3>2
  <2>2. /\ UNCHANGED <<certificate, chain, plugin>> /\ session' = "processing"
        /\ identity' = [user |-> User, groups |-> NoGroups] /\ NoPluginEnabled
    BY <1>4 DEF IdentifyByCertificate, fixed
  <2>3. QED
    BY <2>1, <2>2 DEF Vouched, IdentityVouched, NoPluginEnabled, Enabled
<1>5. CASE session' \notin {"authenticating", "processing"}
  BY <1>5 DEF Vouched, IdentityVouched
<1>6. CASE UNCHANGED <<session, certificate, chain, plugin, identity>>
  BY <1>6 DEF Vouched, IdentityVouched, NoPluginEnabled, MorePlugins, Enabled
<1>7. QED
  <2>1. CASE SessionReceive \/ SessionHeader \/ SessionRequest \/ SessionTimeout \/ SessionEndOfStream
    BY <2>1, <1>5, <1>6
       DEF SessionReceive, SessionHeader, SessionRequest, SessionTimeout, SessionEndOfStream, Loop,
           fixed
  <2>2. CASE \/ CheckCertificate \/ ParseError \/ NotAuthenticated \/ Process \/ ProcessRaises
             \/ Send \/ SendCutOff \/ SendRaises
    BY <2>2, <1>5
       DEF CheckCertificate, ParseError, NotAuthenticated, Process, ProcessRaises, AnswerWith,
           Send, SendCutOff, SendRaises, Loop
  <2>3. CASE Call \/ CallCutOff \/ Close \/ ClientRead \/ UNCHANGED vars \/ Stop
    BY <2>3, <1>6
       DEF Call, CallCutOff, Close, ClientRead, ClientReceive, ClientHeader, Return,
           ClientParseError, ClientTimeout, ClientEndOfStream, Stop, vars, sessionVars, fixed
  <2>4. CASE Exit
    BY <2>4, <1>5 DEF Exit
  <2>5. QED
    BY <1>1, <1>2, <1>3, <1>4, <2>1, <2>2, <2>3, <2>4 DEF Next, SessionStep

(* No one is served at first. *)
LEMMA InitVouched == Init => Vouched
BY DEF Init, Vouched, IdentityVouched

-----------------------------------------------------------------------------
(* An undisturbed connection keeps its turns *)

\* Reading a part of the one message.
LEMMA SplitMoves ==
    ASSUME NEW have \in Seq(Bytes), NEW stream \in Seq(Bytes), NEW n \in 1..Len(stream),
           NEW m \in Messages, Split(have, stream, m)
    PROVE  /\ Split(have \o First(stream, n), Rest(stream, n), m)
           /\ Len(have \o First(stream, n)) = Len(have) + n
<1>a. PICK had : had = have \o First(stream, n)
  OBVIOUS
<1>b. PICK left : left = Rest(stream, n)
  OBVIOUS
<1>1. MovedUnits(have, stream, n, had, left)
  BY <1>a, <1>b, Moves
<1>2. /\ Len(had) = Len(have) + n /\ Len(left) = Len(stream) - n
      /\ Len(have) \in Nat /\ Len(stream) \in Nat /\ n \in Nat
      /\ DOMAIN left \subseteq Nat /\ DOMAIN had \subseteq Nat
  BY <1>1 DEF MovedUnits
<1>3. Len(had) + Len(left) = HeaderLength + m.length
  BY <1>2 DEF Split
<1>4. ASSUME NEW k \in DOMAIN left PROVE left[k] = [message |-> m, at |-> Len(had) + k]
  <2>1. n + k \in DOMAIN stream /\ left[k] = stream[n + k]
    BY <1>1 DEF MovedUnits
  <2>2. stream[n + k] = [message |-> m, at |-> Len(have) + (n + k)]
    BY <2>1 DEF Split
  <2>3. Len(have) + (n + k) = Len(had) + k
    BY <1>2
  <2>4. QED
    BY <2>1, <2>2, <2>3
<1>5. ASSUME NEW k \in DOMAIN had PROVE had[k] = [message |-> m, at |-> k]
  <2>1. CASE k \in DOMAIN have /\ had[k] = have[k]
    BY <2>1 DEF Split
  <2>2. CASE k - Len(have) \in DOMAIN stream /\ had[k] = stream[k - Len(have)]
    <3>1. had[k] = [message |-> m, at |-> Len(have) + (k - Len(have))]
      BY <2>2 DEF Split
    <3>2. Len(have) + (k - Len(have)) = k
      BY <1>2
    <3>3. QED
      BY <3>1, <3>2
  <2>3. QED
    BY <1>1, <2>1, <2>2 DEF MovedUnits
<1>6. QED
  BY <1>a, <1>b, <1>2, <1>3, <1>4, <1>5 DEF Split

\* All of the one message was read.
LEMMA SplitRead ==
    ASSUME NEW have \in Seq(Bytes), NEW stream \in Seq(Bytes), NEW m \in Messages,
           Split(have, stream, m), Len(have) = HeaderLength + m.length
    PROVE  stream = << >> /\ have = Wire(m) /\ have[1].message = m
<1>1. m.length \in Nat /\ HeaderLength \in Nat \ {0}
  BY LengthAssumption DEF Messages
<1>2. Len(stream) = 0
  BY <1>1 DEF Split
<1>3. stream = << >>
  BY <1>2
<1>4. DOMAIN have = 1..HeaderLength + m.length
  OBVIOUS
<1>5. have = [k \in 1..HeaderLength + m.length |-> have[k]]
  BY <1>4
<1>6. \A k \in 1..HeaderLength + m.length : have[k] = [message |-> m, at |-> k]
  BY <1>4 DEF Split
<1>7. 1 \in 1..HeaderLength + m.length
  BY <1>1
<1>8. have[1].message = m
  <2>1. have[1] = [message |-> m, at |-> 1]
    BY <1>6, <1>7
  <2>2. QED
    BY <2>1
<1>9. have = [k \in 1..HeaderLength + m.length |-> [message |-> m, at |-> k]]
  BY <1>5, <1>6, Zenon
<1>10. QED
  BY <1>3, <1>8, <1>9 DEF Wire

\* The header of the one message was read.
LEMMA SplitHeader ==
    ASSUME NEW have \in Seq(Bytes), NEW stream \in Seq(Bytes), NEW m \in Messages,
           Split(have, stream, m), Len(have) = HeaderLength
    PROVE  Announced(have) = {m.length}
<1>1. DOMAIN have = 1..HeaderLength /\ 1 \in 1..HeaderLength
  BY LengthAssumption
<1>2. \A k \in 1..HeaderLength : have[k] = [message |-> m, at |-> k]
  BY <1>1 DEF Split
<1>3. have[1].message = m
  BY <1>1, <1>2
<1>4. QED
  BY <1>2, <1>3 DEF Announced

\* All of the one message is on the stream.
LEMMA SplitSent ==
    ASSUME NEW m \in Messages
    PROVE  Split(<< >>, << >> \o Wire(m), m)
<1>1. Wire(m) \in Seq(Bytes) /\ Len(Wire(m)) = HeaderLength + m.length
  BY OnTheWire
<1>2. << >> \o Wire(m) = Wire(m)
  BY <1>1
<1>3. DOMAIN Wire(m) = 1..HeaderLength + m.length /\ Len(<< >>) = 0 /\ DOMAIN << >> = {}
  BY <1>1
<1>4. \A k \in DOMAIN Wire(m) : Wire(m)[k] = [message |-> m, at |-> 0 + k]
  BY <1>3, OnTheWire
<1>5. m.length \in Nat /\ HeaderLength \in Nat
  BY LengthAssumption DEF Messages
<1>6. 0 + Len(Wire(m)) = HeaderLength + m.length
  BY <1>1, <1>5
<1>7. Split(<< >>, Wire(m), m)
  BY <1>3, <1>4, <1>6 DEF Split
<1>8. QED
  BY <1>2, <1>7

\* Only time-outs disturb, and what they disturbed stays so.
LEMMA Undisturbed ==
    ASSUME Typed, [Next]_vars, ~disturbed'
    PROVE  ~disturbed /\ ~CallCutOff /\ ~ClientTimeout /\ ~SessionTimeout /\ ~SendCutOff
<1>1. disturbed' # TRUE
  OBVIOUS
<1>2. ~CallCutOff /\ ~ClientTimeout /\ ~SessionTimeout /\ ~SendCutOff
  BY <1>1 DEF CallCutOff, ClientTimeout, SessionTimeout, SendCutOff
<1>3. disturbed' = disturbed
  BY <1>2
     DEF Next, Call, Close, ClientRead, ClientReceive, ClientHeader, Return, ClientParseError,
         ClientEndOfStream, SessionStep, SessionReceive, SessionHeader, SessionRequest,
         SessionEndOfStream, CheckCertificate, ParseError, Parse, SkipPlugin, PluginSucceeds,
         PluginFails, IdentifyByCertificate, NotAuthenticated, Process, ProcessRaises, Send,
         SendRaises, Stop, Exit, vars
<1>4. QED
  BY <1>2, <1>3

(* What holds while nothing was disturbed. *)
Turn == AnswersInTurn /\ InTurn

\* The client calls, and waits.
LEMMA CallKeepsTurn ==
    ASSUME Typed, ~disturbed, Turn, Call PROVE Turn'
<1>1. NothingDown /\ (NothingUp \/ session = "ended")
  BY DEF Call, Turn, InTurn, Waiting
<1>2. /\ client' = "header" /\ call' = call + 1
      /\ up' = up \o Wire(Request(call + 1))
      /\ UNCHANGED <<down, cHave, cNeed, taken, session, sHave, sNeed, answer, disturbed>>
  BY DEF Call, sessionVars
<1>3. NothingDown'
  BY <1>1, <1>2 DEF NothingDown
<1>4. CASE NothingUp
  <2>1. Request(call + 1) \in Messages
    BY RequestIsMessage DEF Typed, ClientTyped
  <2>2. Split(<< >>, up', Request(call + 1))
    BY <1>2, <1>4, <2>1, SplitSent DEF NothingUp
  <2>3. Split(sHave, up, Request(call))'
    BY <1>2, <1>4, <2>2 DEF NothingUp, Split
  <2>4. session' = "header"
    BY <1>2, <1>4 DEF NothingUp
  <2>5. Asking'
    BY <1>3, <2>3, <2>4 DEF Asking
  <2>6. QED
    BY <1>2, <2>4, <2>5 DEF Turn, InTurn, Waiting, AnswersInTurn
<1>5. CASE session = "ended"
  BY <1>2, <1>3, <1>5 DEF Turn, InTurn, Waiting, AnswersInTurn
<1>6. QED
  BY <1>1, <1>4, <1>5

\* The client reads the answer to its call.
LEMMA ClientKeepsTurn ==
    ASSUME Typed, ~disturbed, Turn,
           \/ ClientReceive \/ ClientHeader \/ Return \/ ClientParseError
           \/ ClientEndOfStream \/ Close
    PROVE  Turn'
<1>0. /\ down \in Seq(Bytes) /\ cHave \in Seq(Bytes) /\ cNeed \in Nat
      /\ taken \in Seq([call : Nat, answer : Messages])
      /\ HeaderLength \in Nat \ {0}
      /\ client = "header" => cNeed = HeaderLength
  BY LengthAssumption DEF Typed, WireTyped, ClientTyped
<1>a. UNCHANGED <<up, session, sHave, sNeed, answer, call, disturbed>>
  BY DEF ClientReceive, ClientHeader, Return, ClientParseError, ClientEndOfStream, Close,
         sessionVars, streams, Raise
<1>b. NothingUp => NothingUp'
  BY <1>a DEF NothingUp
<1>1. CASE ClientReceive
  <2>1. PICK n \in 1..(cNeed - Len(cHave)) :
            /\ n <= Len(down) /\ cHave' = cHave \o First(down, n) /\ down' = Rest(down, n)
    BY <1>1 DEF ClientReceive
  <2>2. n \in 1..Len(down) /\ ~NothingDown
    BY <1>0, <2>1 DEF NothingDown
  <2>3. (NothingUp \/ session = "ended") /\ Answering /\ Waiting
    BY <1>1, <2>2 DEF ClientReceive, Turn, InTurn, Asking
  <2>4. PICK m \in Messages :
            /\ m.for = call /\ Split(cHave, down, m)
            /\ client = "body" => Len(cHave) >= HeaderLength /\ cNeed = HeaderLength + m.length
    BY <2>3 DEF Answering
  <2>5. Split(cHave', down', m) /\ Len(cHave') = Len(cHave) + n
    BY <1>0, <2>1, <2>2, <2>4, SplitMoves
  <2>6. UNCHANGED <<client, cNeed, taken>>
    BY <1>1 DEF ClientReceive
  <2>7. client' = "body" => Len(cHave') >= HeaderLength /\ cNeed' = HeaderLength + m.length
    BY <1>0, <2>4, <2>5, <2>6
  <2>8. Split(cHave, down, m)'
    BY <2>5 DEF Split
  <2>9. Answering'
    BY <1>a, <2>4, <2>7, <2>8 DEF Answering
  <2>10. QED
    BY <1>a, <1>b, <2>3, <2>6, <2>9 DEF Turn, InTurn, Waiting, AnswersInTurn
<1>2. CASE ClientHeader
  <2>1. client = "header" /\ Len(cHave) = HeaderLength /\ ~NothingDown
    BY <1>0, <1>2 DEF ClientHeader, NothingDown
  <2>2. (NothingUp \/ session = "ended") /\ Answering
    BY <2>1 DEF Turn, InTurn, Waiting, Asking
  <2>3. PICK m \in Messages : m.for = call /\ Split(cHave, down, m)
    BY <2>2 DEF Answering
  <2>4. Announced(cHave) = {m.length}
    BY <1>0, <2>1, <2>3, SplitHeader
  <2>5. /\ client' = "body" /\ cNeed' = HeaderLength + m.length
        /\ UNCHANGED <<down, cHave, taken>>
    BY <1>2, <2>4 DEF ClientHeader, streams
  <2>6. Split(cHave, down, m)'
    BY <2>3, <2>5 DEF Split
  <2>7. Answering'
    BY <1>0, <1>a, <2>1, <2>3, <2>5, <2>6 DEF Answering
  <2>8. QED
    BY <1>a, <1>b, <2>2, <2>5, <2>7 DEF Turn, InTurn, Waiting, AnswersInTurn
<1>3. CASE Return \/ ClientParseError
  <2>1. client = "body" /\ Len(cHave) = cNeed
    BY <1>3 DEF Return, ClientParseError
  <2>2. (NothingUp \/ session = "ended") /\ Answering
    BY <2>1 DEF Turn, InTurn, Waiting, Asking, NothingDown
  <2>3. PICK m \in Messages :
            m.for = call /\ Split(cHave, down, m) /\ cNeed = HeaderLength + m.length
    BY <2>1, <2>2 DEF Answering
  <2>4. down = << >> /\ cHave = Wire(m) /\ cHave[1].message = m
    BY <1>0, <2>1, <2>3, SplitRead
  <2>5. Whole(cHave)
    BY <2>4 DEF Whole
  <2>6. /\ taken' = Append(taken, [call |-> call, answer |-> m])
        /\ client' = "idle" /\ cHave' = << >> /\ down' = << >>
    BY <1>3, <2>4, <2>5 DEF Return, ClientParseError, streams
  <2>7. NothingDown' /\ ~Waiting'
    BY <2>6 DEF NothingDown, Waiting
  <2>8. AnswersInTurn'
    <3>1. \A k \in DOMAIN taken' : \/ k \in DOMAIN taken /\ taken'[k] = taken[k]
                                   \/ taken'[k] = [call |-> call, answer |-> m]
      BY <1>0, <2>6
    <3>2. \A t \in Ranges(taken') : t \in Ranges(taken) \/ t = [call |-> call, answer |-> m]
      BY <3>1 DEF Ranges
    <3>3. QED
      BY <2>3, <3>2 DEF Turn, AnswersInTurn
  <2>9. QED
    BY <1>a, <1>b, <2>2, <2>7, <2>8 DEF Turn, InTurn
<1>4. CASE ClientEndOfStream
  <2>1. /\ session = "ended" /\ down' = << >> /\ cHave' = << >>
        /\ client' \in {"idle", "closed"} /\ taken' = taken
    BY <1>4 DEF ClientEndOfStream, Raise, streams
  <2>2. QED
    BY <1>a, <2>1 DEF Turn, InTurn, Waiting, NothingDown, AnswersInTurn
<1>5. CASE Close
  <2>1. /\ NothingDown /\ (NothingUp \/ session = "ended")
        /\ client' = "closed" /\ UNCHANGED <<down, cHave, taken>>
    BY <1>5 DEF Close, Turn, InTurn, Waiting, streams
  <2>2. QED
    BY <1>a, <1>b, <2>1 DEF Turn, InTurn, Waiting, NothingDown, AnswersInTurn
<1>6. QED
  BY <1>1, <1>2, <1>3, <1>4, <1>5

\* When the session reads, thinks or answers, the request of the call is what it has.
LEMMA SessionHasRequest ==
    ASSUME Typed, Turn, session # "ended", ~NothingUp
    PROVE  Waiting /\ Asking
BY DEF Turn, InTurn

\* The session reads the request.
LEMMA ReadKeepsTurn ==
    ASSUME Typed, ~disturbed, Turn,
           SessionReceive \/ SessionHeader \/ SessionRequest \/ SessionEndOfStream
    PROVE  Turn'
<1>0. /\ up \in Seq(Bytes) /\ sHave \in Seq(Bytes) /\ sNeed \in Nat /\ call \in Nat
      /\ HeaderLength \in Nat \ {0} /\ RequestLength \in Nat
      /\ Request(call) \in Messages /\ Request(call).length = RequestLength
  BY LengthAssumption, RequestIsMessage DEF Typed, WireTyped, ClientTyped, SessionTyped
<1>a. UNCHANGED <<down, client, call, cHave, cNeed, taken, answer, disturbed>>
  BY DEF SessionReceive, SessionHeader, SessionRequest, SessionEndOfStream, streams, clientVars
<1>b. (NothingDown => NothingDown') /\ (AnswersInTurn => AnswersInTurn') /\ Waiting' = Waiting
  BY <1>a DEF NothingDown, AnswersInTurn, Waiting
<1>c. session \in {"header", "body"}
  BY DEF SessionReceive, SessionHeader, SessionRequest, SessionEndOfStream, Receiving
<1>1. CASE SessionReceive
  <2>1. PICK n \in 1..(sNeed - Len(sHave)) :
            /\ n <= Len(up) /\ sHave' = sHave \o First(up, n) /\ up' = Rest(up, n)
    BY <1>1 DEF SessionReceive
  <2>2. n \in 1..Len(up) /\ ~NothingUp
    BY <1>0, <2>1 DEF NothingUp
  <2>3. Waiting /\ Asking
    BY <1>c, <2>2, SessionHasRequest
  <2>4. Split(sHave, up, Request(call))
    BY <2>3 DEF Asking
  <2>5. Split(sHave', up', Request(call)) /\ Len(sHave') = Len(sHave) + n
    BY <1>0, <2>1, <2>2, <2>4, SplitMoves
  <2>6. Split(sHave, up, Request(call))'
    BY <1>a, <2>5 DEF Split
  <2>7. UNCHANGED <<session, sNeed>>
    BY <1>1 DEF SessionReceive
  <2>8. session # "header" => Len(sHave') >= HeaderLength /\ sNeed = HeaderLength + RequestLength
    BY <1>0, <2>3, <2>5 DEF Asking
  <2>9. Asking'
    BY <1>b, <1>c, <2>3, <2>6, <2>7, <2>8 DEF Asking
  <2>10. QED
    BY <1>b, <1>c, <2>3, <2>7, <2>9 DEF Turn, InTurn
<1>2. CASE SessionHeader
  <2>1. session = "header" /\ Len(sHave) = HeaderLength /\ ~NothingUp
    BY <1>0, <1>2 DEF SessionHeader, NothingUp
  <2>2. Waiting /\ Asking
    BY <1>c, <2>1, SessionHasRequest
  <2>3. Split(sHave, up, Request(call))
    BY <2>2 DEF Asking
  <2>4. Announced(sHave) = {RequestLength}
    BY <1>0, <2>1, <2>3, SplitHeader
  <2>5. /\ session' = "body" /\ sNeed' = HeaderLength + RequestLength
        /\ UNCHANGED <<up, sHave>>
    BY <1>2, <2>4 DEF SessionHeader, streams
  <2>6. Split(sHave, up, Request(call))'
    BY <1>a, <2>3, <2>5 DEF Split
  <2>7. Asking'
    BY <1>0, <1>b, <2>1, <2>2, <2>5, <2>6 DEF Asking
  <2>8. QED
    BY <1>b, <2>2, <2>5, <2>7 DEF Turn, InTurn
<1>3. CASE SessionRequest
  <2>1. session = "body" /\ session' = "checking" /\ UNCHANGED <<up, sHave, sNeed>>
    BY <1>3 DEF SessionRequest, streams
  <2>2. Waiting /\ Asking
    BY <2>1, SessionHasRequest DEF NothingUp
  <2>3. Split(sHave, up, Request(call))'
    BY <1>a, <2>1, <2>2 DEF Asking, Split
  <2>4. Asking'
    BY <1>b, <2>1, <2>2, <2>3 DEF Asking
  <2>5. QED
    BY <1>b, <2>1, <2>2, <2>4 DEF Turn, InTurn
<1>4. CASE SessionEndOfStream
  <2>1. ~Waiting /\ session' = "ended"
    BY <1>4 DEF SessionEndOfStream, Waiting
  <2>2. QED
    BY <1>b, <2>1 DEF Turn, InTurn
<1>5. QED
  BY <1>1, <1>2, <1>3, <1>4

\* The session authenticates the client, and answers.
LEMMA HandleKeepsTurn ==
    ASSUME Typed, ~disturbed, Turn,
           \/ CheckCertificate \/ ParseError \/ Parse
           \/ SkipPlugin \/ PluginSucceeds \/ PluginFails \/ IdentifyByCertificate
           \/ NotAuthenticated \/ Process \/ ProcessRaises
    PROVE  Turn'
<1>0. /\ up \in Seq(Bytes) /\ sHave \in Seq(Bytes) /\ call \in Nat
      /\ Request(call) \in Messages /\ Request(call).length = RequestLength
      /\ Request(call).for = call
  BY RequestIsMessage DEF Typed, WireTyped, ClientTyped, SessionTyped
<1>1. /\ UNCHANGED <<up, down, client, call, cHave, cNeed, taken, sHave, sNeed, disturbed>>
      /\ session \in {"checking", "authenticating", "processing"}
      /\ session' \in {"authenticating", "processing", "answering"}
  BY DEF CheckCertificate, ParseError, Parse, SkipPlugin, PluginSucceeds, PluginFails,
         IdentifyByCertificate, NotAuthenticated, Process, ProcessRaises, AnswerWith,
         streams, clientVars
<1>2. Waiting /\ Asking
  BY <1>1, SessionHasRequest DEF NothingUp
<1>3. Len(sHave) = HeaderLength + RequestLength
  BY <1>1, <1>2 DEF Asking, Typed, SessionTyped
<1>4. up = << >> /\ Whole(sHave) /\ sHave[1].message.for = call
  <2>1. Split(sHave, up, Request(call))
    BY <1>2 DEF Asking
  <2>2. up = << >> /\ sHave = Wire(Request(call)) /\ sHave[1].message = Request(call)
    BY <1>0, <1>3, <2>1, SplitRead
  <2>3. QED
    BY <1>0, <2>2 DEF Whole
<1>5. session' = "answering" => answer'[1].for = call
  <2> SUFFICES ASSUME session' = "answering" PROVE answer'[1].for = call
    OBVIOUS
  <2>1. CheckCertificate \/ ParseError \/ NotAuthenticated \/ Process \/ ProcessRaises
    BY DEF Parse, SkipPlugin, PluginSucceeds, PluginFails, IdentifyByCertificate
  <2>2. Decides
    BY <2>1, AnswerDecides
  <2>3. PICK kind \in Kinds, length \in Nat : answer' = <<Answer(kind, length)>>
    BY <2>2 DEF Decides
  <2>4. Answer(kind, length).for = call
    BY <1>1, <1>4, AnswerIsMessage
  <2>5. QED
    BY <2>3, <2>4
<1>6. Split(sHave, up, Request(call))'
  BY <1>1, <1>2 DEF Asking, Split
<1>7. Asking'
  BY <1>1, <1>2, <1>4, <1>5, <1>6 DEF Asking, NothingDown
<1>8. QED
  BY <1>1, <1>2, <1>7 DEF Turn, InTurn, Waiting, AnswersInTurn

\* The session sends its answer, or cannot.
LEMMA SendKeepsTurn ==
    ASSUME Typed, ~disturbed, Turn, Send \/ SendRaises
    PROVE  Turn'
<1>1. /\ session = "answering" /\ session' = "header" /\ sHave' = << >>
      /\ UNCHANGED <<up, client, call, cHave, cNeed, taken, disturbed>>
  BY DEF Send, SendRaises, Loop, streams, clientVars
<1>2. Waiting /\ Asking
  BY <1>1, SessionHasRequest DEF NothingUp
<1>3. NothingUp'
  BY <1>1, <1>2 DEF Asking, NothingUp
<1>4. CASE Send
  <2>1. PICK m \in Messages : answer = <<m>>
    BY <1>1 DEF Typed, SessionTyped
  <2>2. m.for = call /\ down' = << >> \o Wire(m)
    BY <1>1, <1>2, <1>4, <2>1 DEF Asking, NothingDown, Send
  <2>3. Split(<< >>, down', m)
    BY <2>2, SplitSent
  <2>4. cHave' = << >> /\ client' # "body" /\ call' = call
    BY <1>1, <1>2 DEF Asking, NothingDown
  <2>5. Split(cHave, down, m)'
    BY <2>3, <2>4 DEF Split
  <2>6. Answering'
    BY <2>2, <2>4, <2>5 DEF Answering
  <2>7. QED
    BY <1>1, <1>2, <1>3, <2>6 DEF Turn, InTurn, Waiting, AnswersInTurn
<1>5. CASE SendRaises
  <2>1. NothingDown'
    BY <1>1, <1>2, <1>5 DEF SendRaises, streams, Asking, NothingDown
  <2>2. QED
    BY <1>1, <1>2, <1>3, <2>1 DEF Turn, InTurn, Waiting, AnswersInTurn
<1>6. QED
  BY <1>4, <1>5

\* The server stops.
LEMMA StopKeepsTurn ==
    ASSUME Typed, ~disturbed, Turn, Stop \/ Exit \/ UNCHANGED vars
    PROVE  Turn'
<1>1. UNCHANGED <<up, down, client, call, cHave, cNeed, taken, sHave, sNeed, answer, disturbed>>
  BY DEF Stop, Exit, vars, streams, clientVars, sessionVars
<1>2. (NothingDown => NothingDown') /\ (AnswersInTurn => AnswersInTurn') /\ Waiting' = Waiting
  BY <1>1 DEF NothingDown, AnswersInTurn, Waiting
<1>3. Answering => Answering'
  BY <1>1 DEF Answering, Split
<1>4. CASE session' = session
  BY <1>1, <1>2, <1>3, <1>4 DEF Turn, InTurn, Asking, NothingUp, Split
<1>5. CASE session' = "ended"
  BY <1>2, <1>3, <1>5 DEF Turn, InTurn, Asking
<1>6. QED
  BY <1>4, <1>5 DEF Stop, Exit, vars, sessionVars

(* Every step keeps the turns. *)
LEMMA StepTurns == Typed /\ Turns /\ [Next]_vars => Turns'
<1> SUFFICES ASSUME Typed, Turns, [Next]_vars, ~disturbed' PROVE Turn'
  BY DEF Turns, Turn
<1>1. ~disturbed /\ ~CallCutOff /\ ~ClientTimeout /\ ~SessionTimeout /\ ~SendCutOff
  BY Undisturbed
<1>2. Turn
  BY <1>1 DEF Turns, Turn
<1>3. QED
  BY <1>1, <1>2, CallKeepsTurn, ClientKeepsTurn, ReadKeepsTurn, HandleKeepsTurn, SendKeepsTurn,
     StopKeepsTurn
     DEF Next, ClientRead, SessionStep

(* No one has called at first. *)
LEMMA InitTurns == Init => Turns
<1> SUFFICES ASSUME Init PROVE Turn
  BY DEF Turns, Turn
<1>1. taken = << >> /\ DOMAIN taken = {}
  BY DEF Init
<1>2. NothingDown /\ NothingUp /\ ~Waiting
  BY DEF Init, NothingDown, NothingUp, Waiting
<1>3. QED
  BY <1>1, <1>2 DEF Turn, InTurn, AnswersInTurn, Ranges

-----------------------------------------------------------------------------
(* Theorems *)

\* The inductive invariant holds of every connection.
LEMMA Invariance == Spec => []IInv
<1>1. Init => IInv
  BY InitTyped, InitOrdered, InitVouched, InitTurns DEF IInv, Order
<1>2. IInv /\ [Next]_vars => IInv'
  BY StepTyped, StepOrdered, StepVouched, StepTurns DEF IInv, Order
<1>3. QED
  BY <1>1, <1>2, PTL DEF Spec

\* The connection's state is well formed at every cut of the streams, and the engine
\* never processed, nor the client took, more than was called for.
THEOREM TypeCorrect == Spec => []TypeOK
<1>1. IInv => TypeOK
  <2> SUFFICES ASSUME IInv PROVE TypeOK
    OBVIOUS
  <2>1. Typed /\ Processed
    BY DEF IInv
  <2>2. Len(executed) <= call
    <3>1. executed \in Seq(Nat) /\ call \in Nat
      BY <2>1 DEF Typed, ClientTyped, SessionTyped
    <3>2. CASE Len(executed) = 0
      BY <3>1, <3>2
    <3>3. CASE Len(executed) # 0
      <4>1. Len(executed) \in DOMAIN executed /\ Len(executed) \in Nat
        BY <3>1, <3>3
      <4>2. executed[Len(executed)] >= Len(executed) /\ executed[Len(executed)] \in 0..call
        BY <2>1, <4>1 DEF Processed, Past
      <4>3. QED
        BY <3>1, <4>1, <4>2
    <3>4. QED
      BY <3>2, <3>3
  <2>3. session = "answering" => Len(answer) = 1
    BY <2>1 DEF Typed, SessionTyped
  <2>4. QED
    BY <2>1, <2>2, <2>3 DEF Typed, WireTyped, ClientTyped, SessionTyped, TypeOK
<1>2. QED
  BY <1>1, Invariance, PTL

\* The engine processes every request at most once and in the order of the calls, also
\* when time-outs cut requests and answers anywhere (_receive_request).
THEOREM RequestsProcessedOnce == Spec => []ProcessedOnce
<1>1. IInv => ProcessedOnce
  BY DEF IInv, Processed
<1>2. QED
  BY <1>1, Invariance, PTL

\* An answer says of its request what became of it (_handle_message_loop).
THEOREM AnswersAreTrue == Spec => []AnswersTellOutcome
<1>1. IInv => AnswersTellOutcome
  BY DEF IInv, Told, Tells, AnswersTellOutcome, Ranges
<1>2. QED
  BY <1>1, Invariance, PTL

\* Only a client whom the certificate and the chain of plugins vouch for is served, for
\* chains of any length (authenticate).
THEOREM OnlyVouchedServed == Spec => []IdentityVouched
<1>1. IInv => IdentityVouched
  BY DEF IInv, Vouched
<1>2. QED
  BY <1>1, Invariance, PTL

\* Without a time-out every call takes the answer to itself, although neither end
\* compares the two (KMIPProtocol.read, _receive_request).
THEOREM AnswersFollowCalls == Spec => []AnswersInTurn
<1>1. IInv => AnswersInTurn
  BY DEF IInv, Turns, AnswersInTurn
<1>2. QED
  BY <1>1, Invariance, PTL

-----------------------------------------------------------------------------
(* Both ends come to their end *)

\* The thread of the session goes on to a later stage of the request in hand.
Onward ==
    \/ session = "header" /\ session' = "body"
    \/ session = "body" /\ session' = "checking"
    \/ session = "checking" /\ session' \in {"authenticating", "answering"}
    \/ session = "authenticating" /\ session' \in {"processing", "answering"}
    \/ session = "processing" /\ session' = "answering"

\* A step brings the end of the thread nearer: less is left on the stream, or what was
\* read is dropped, or its handling is at a later stage or at a later plugin.
SessionNearsEnd ==
    \/ session' = "ended"
    \/ Len(up') < Len(up)
    \/ up' = up /\ sHave # << >> /\ sHave' = << >>
    \/ UNCHANGED <<up, sHave>> /\ Onward
    \/ UNCHANGED <<up, sHave, session>> /\ plugin < plugin' /\ plugin' <= Len(chain) + 1

\* Once the client is gone, it stays away, only the thread of the session brings its end
\* nearer, and nothing undoes that.
EndsWithoutClient ==
    client = "closed" =>
        /\ client' = "closed"
        /\ IF SessionStep THEN SessionNearsEnd
           ELSE session' = "ended" \/ UNCHANGED <<up, sHave, session, plugin>>

\* A read of the client ends its call, or brings its end nearer: it is at the body, or
\* has more of what it needs; and nobody else touches a call.
CallNearsEnd ==
    Waiting =>
        IF ClientRead
        THEN \/ ~Waiting'
             \/ client = "header" /\ client' = "body" /\ call' = call
             \/ /\ UNCHANGED <<client, call, cNeed>>
                /\ Len(cHave) < Len(cHave') /\ Len(cHave') <= cNeed
        ELSE UNCHANGED clientVars

\* A thread that is not at a header has something in hand.
InHand == session \notin {"header", "ended"} => sHave # << >>

\* What was read is only dropped when the loop begins again.
LEMMA InHandInvariant == Spec => []InHand
<1>1. Init => InHand
  BY DEF Init, InHand
<1>2. Typed /\ InHand /\ [Next]_vars => InHand'
  <2> SUFFICES ASSUME Typed, InHand, [Next]_vars PROVE InHand'
    OBVIOUS
  <2>1. CASE SessionReceive
    <3>1. PICK n \in 1..(sNeed - Len(sHave)) :
              /\ n <= Len(up) /\ sHave' = sHave \o First(up, n) /\ up' = Rest(up, n)
      BY <2>1 DEF SessionReceive
    <3>2. sHave \in Seq(Bytes) /\ up \in Seq(Bytes) /\ n \in 1..Len(up)
      BY <3>1 DEF Typed, SessionTyped, WireTyped
    <3>3. Len(sHave') = Len(sHave) + n
      <4>1. MovedUnits(sHave, up, n, sHave', up')
        BY ONLY <3>1, <3>2, Moves
      <4> QED
        BY ONLY <4>1 DEF MovedUnits
    <3>4. Len(sHave') # 0
      BY <3>2, <3>3
    <3> QED
      BY <3>4 DEF InHand
  <2>2. CASE SessionHeader
    <3>1. Len(sHave) = HeaderLength /\ HeaderLength # 0 /\ sHave' = sHave
      BY <2>2, LengthAssumption DEF SessionHeader
    <3> QED
      BY <3>1 DEF InHand
  <2>3. CASE SessionTimeout \/ Send \/ SendCutOff \/ SendRaises \/ SessionEndOfStream \/ Exit
    BY <2>3 DEF SessionTimeout, Send, SendCutOff, SendRaises, SessionEndOfStream, Exit, Loop, InHand
  <2>4. CASE \/ SessionRequest \/ CheckCertificate \/ ParseError \/ Parse
             \/ SkipPlugin \/ PluginSucceeds \/ PluginFails \/ IdentifyByCertificate
             \/ NotAuthenticated \/ Process \/ ProcessRaises
    BY <2>4 DEF SessionRequest, CheckCertificate, ParseError, Parse, SkipPlugin, PluginSucceeds,
                PluginFails, IdentifyByCertificate, NotAuthenticated, Process, ProcessRaises, InHand
  <2>5. CASE Call \/ CallCutOff \/ Close \/ ClientRead \/ Stop \/ UNCHANGED vars
    BY <2>5 DEF Call, CallCutOff, Close, ClientRead, ClientReceive, ClientHeader, Return,
                ClientParseError, ClientTimeout, ClientEndOfStream, Stop, vars, sessionVars, InHand
  <2> QED
    BY <2>1, <2>2, <2>3, <2>4, <2>5 DEF Next, SessionStep
<1> QED
  BY <1>1, <1>2, Invariance, PTL DEF Spec, IInv

\* What a step of the session does when the client is gone.
LEMMA SessionStepNears ==
    ASSUME Typed, InHand, SessionStep, client = "closed"
    PROVE  SessionNearsEnd /\ client' = "closed"
<1>0. client' = "closed"
  BY DEF SessionStep, SessionReceive, SessionHeader, SessionRequest, SessionTimeout,
         SessionEndOfStream, CheckCertificate, ParseError, Parse, SkipPlugin, PluginSucceeds,
         PluginFails, IdentifyByCertificate, NotAuthenticated, Process, ProcessRaises, Send,
         SendCutOff, SendRaises, clientVars
<1>1. CASE SessionReceive
  <2>1. PICK n \in 1..(sNeed - Len(sHave)) :
            /\ n <= Len(up) /\ sHave' = sHave \o First(up, n) /\ up' = Rest(up, n)
    BY <1>1 DEF SessionReceive
  <2>2. sHave \in Seq(Bytes) /\ up \in Seq(Bytes) /\ n \in 1..Len(up)
    BY <2>1 DEF Typed, SessionTyped, WireTyped
  <2>3. Len(up') = Len(up) - n
    <3>1. MovedUnits(sHave, up, n, sHave', up')
      BY ONLY <2>1, <2>2, Moves
    <3> QED
      BY ONLY <3>1 DEF MovedUnits
  <2>4. Len(up') < Len(up)
    BY <2>2, <2>3
  <2> QED
    BY <1>0, <2>4 DEF SessionNearsEnd
<1>2. CASE SessionTimeout \/ SendRaises
  BY <1>0, <1>2 DEF SessionTimeout, SendRaises, Loop, SessionNearsEnd, InHand, streams
<1>3. CASE SessionEndOfStream
  BY <1>0, <1>3 DEF SessionEndOfStream, SessionNearsEnd
<1>4. CASE SessionHeader \/ SessionRequest \/ Parse
  BY <1>0, <1>4 DEF SessionHeader, SessionRequest, Parse, SessionNearsEnd, Onward, streams
<1>5. CASE CheckCertificate \/ ParseError \/ NotAuthenticated \/ Process \/ ProcessRaises
  BY <1>0, <1>5 DEF CheckCertificate, ParseError, NotAuthenticated, Process, ProcessRaises,
                    AnswerWith, SessionNearsEnd, Onward, streams
<1>6. CASE PluginSucceeds \/ IdentifyByCertificate
  BY <1>0, <1>6 DEF PluginSucceeds, IdentifyByCertificate, SessionNearsEnd, Onward, streams
<1>7. CASE SkipPlugin \/ PluginFails
  <2>1. /\ plugin <= Len(chain) /\ plugin' = plugin + 1
        /\ UNCHANGED <<up, sHave, session>>
    BY <1>7 DEF SkipPlugin, PluginFails, MorePlugins, streams
  <2>2. plugin \in Nat /\ Len(chain) \in Nat
    BY SettingsAssumption DEF Typed, SessionTyped, WireTyped
  <2>3. plugin < plugin' /\ plugin' <= Len(chain) + 1
    BY <2>1, <2>2
  <2> QED
    BY <1>0, <2>1, <2>3 DEF SessionNearsEnd
<1>8. ~Send /\ ~SendCutOff
  BY DEF Send, SendCutOff
<1> QED
  BY <1>1, <1>2, <1>3, <1>4, <1>5, <1>6, <1>7, <1>8 DEF SessionStep

\* What any other step does then.
LEMMA OthersKeepSession ==
    ASSUME Typed, [Next]_vars, ~SessionStep, client = "closed"
    PROVE  client' = "closed" /\ (session' = "ended" \/ UNCHANGED <<up, sHave, session, plugin>>)
BY DEF Next, Call, CallCutOff, Close, ClientRead, ClientReceive, ClientHeader, Return,
       ClientParseError, ClientTimeout, ClientEndOfStream, Waiting, Stop, Exit, vars, streams,
       sessionVars, clientVars

\* What a read of the client does to the call.
LEMMA ReadNears ==
    ASSUME Typed, Waiting, ClientRead
    PROVE  CallNearsEnd
<1>1. CASE ClientReceive
  <2>1. PICK n \in 1..(cNeed - Len(cHave)) :
            /\ n <= Len(down) /\ cHave' = cHave \o First(down, n) /\ down' = Rest(down, n)
    BY <1>1 DEF ClientReceive
  <2>2. cHave \in Seq(Bytes) /\ down \in Seq(Bytes) /\ n \in 1..Len(down) /\ cNeed \in Nat
    BY <2>1 DEF Typed, ClientTyped, WireTyped
  <2>3. Len(cHave') = Len(cHave) + n
    <3>1. MovedUnits(cHave, down, n, cHave', down')
      BY ONLY <2>1, <2>2, Moves
    <3> QED
      BY ONLY <3>1 DEF MovedUnits
  <2>4. Len(cHave) < Len(cHave') /\ Len(cHave') <= cNeed
    BY <2>1, <2>2, <2>3
  <2>5. UNCHANGED <<client, call, cNeed>>
    BY <1>1 DEF ClientReceive
  <2> QED
    BY <2>4, <2>5 DEF CallNearsEnd
<1>2. CASE ClientHeader
  BY <1>2 DEF ClientHeader, CallNearsEnd
<1>3. CASE Return \/ ClientParseError \/ ClientTimeout \/ ClientEndOfStream
  BY <1>3 DEF Return, ClientParseError, ClientTimeout, ClientEndOfStream, Raise, Waiting,
              CallNearsEnd
<1> QED
  BY <1>1, <1>2, <1>3 DEF ClientRead

\* What any other step does to it.
LEMMA OthersKeepCall ==
    ASSUME [Next]_vars, Waiting, ~ClientRead
    PROVE  UNCHANGED clientVars
<1>1. CASE SessionStep
  BY <1>1 DEF SessionStep, SessionReceive, SessionHeader, SessionRequest, SessionTimeout,
         SessionEndOfStream, CheckCertificate, ParseError, Parse, SkipPlugin, PluginSucceeds,
         PluginFails, IdentifyByCertificate, NotAuthenticated, Process, ProcessRaises, Send,
         SendCutOff, SendRaises
<1>2. CASE Call \/ CallCutOff \/ Close
  BY <1>2 DEF Call, CallCutOff, Close, Waiting
<1>3. CASE Stop \/ Exit \/ UNCHANGED vars
  BY <1>3 DEF Stop, Exit, vars
<1> QED
  BY <1>1, <1>2, <1>3 DEF Next

\* Neither a call nor, once its client is gone, the thread of a connection goes on for
\* ever, whatever the streams, the plugins and the engine do: each step of its own brings
\* its end nearer, and no other step takes it away.  With reads and writes that return or
\* time out that is how calls and sessions end (CallsEnd, SessionEnds).
THEOREM EndsComeNearer == Spec => [][EndsWithoutClient /\ CallNearsEnd]_vars
<1>1. Typed /\ InHand /\ [Next]_vars => [EndsWithoutClient /\ CallNearsEnd]_vars
  <2> SUFFICES ASSUME Typed, InHand, [Next]_vars PROVE EndsWithoutClient /\ CallNearsEnd
    OBVIOUS
  <2>1. EndsWithoutClient
    BY SessionStepNears, OthersKeepSession DEF EndsWithoutClient
  <2>2. CallNearsEnd
    <3>1. CASE ClientRead /\ Waiting
      BY <3>1, ReadNears
    <3>2. CASE ~ClientRead /\ Waiting
      BY <3>2, OthersKeepCall DEF CallNearsEnd
    <3>3. CASE ~Waiting
      BY <3>3 DEF CallNearsEnd
    <3> QED
      BY <3>1, <3>2, <3>3
  <2> QED
    BY <2>1, <2>2
<1> QED
  BY <1>1, InHandInvariant, Invariance, PTL DEF Spec, IInv
=============================================================================
