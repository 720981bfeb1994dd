------------------------------- MODULE PNMIpc -------------------------------
(***************************************************************************)
(* One connection between the compaction service and the worker, byte by   *)
(* byte: the loops of tools/pnm_ipc.h over a stream socket that moves any  *)
(* number of bytes at a time, the message that Schedule builds from three  *)
(* fields and handle_job takes apart, and the answer that Wait reads.      *)
(*                                                                         *)
(* send() and recv() interrupted by a signal are repeated with nothing     *)
(* changed, so EINTR is a stuttering step.  The socket is external: it     *)
(* keeps bytes in order, holds at most Capacity of them, gives a reader    *)
(* what was sent before the end of the stream, and refuses bytes for a     *)
(* peer that has closed.                                                   *)
(***************************************************************************)
EXTENDS Integers, Sequences

CONSTANTS
  Base,            \* values of a byte (256)
  Capacity,        \* bytes the socket holds
  Jobs,            \* <<db_name, job_id_str, input>> that may be sent
  Answers,         \* byte strings handle_job may answer with
  Faults,          \* which failures may happen, a subset of AllFaults
  None,            \* no frame, no job, no fields yet
  Failed,          \* a receive call returned false
  Malformed        \* handle_job could not take the message apart

AllFaults == {"error", "crash"}

Byte == 0 .. Base - 1

ASSUME IpcAssumption ==
  /\ Base \in Nat /\ Base > 1
  /\ Capacity \in Nat \ {0}
  /\ Jobs \subseteq Seq(Byte) \X Seq(Byte) \X Seq(Byte)
  /\ Answers \subseteq Seq(Byte)
  /\ Faults \subseteq AllFaults
  /\ None \notin Seq(Byte) \cup Jobs \cup {"kUseLocal", "kSuccess", "kFailure"}
  /\ Failed \notin Seq(Byte) \cup {None}
  /\ Malformed \notin Jobs \cup {None}

Directions == {"job", "reply"}
Sender     == [job |-> "client", reply |-> "server"]
Receiver   == [job |-> "server", reply |-> "client"]

VARIABLES
  open,            \* each side's end of the connection is open
  data,            \* argument of pnm_send_frame, None before the call
  spc, left,       \* where that call is, and the bytes of its send_all left
  wire,            \* bytes in the socket
  rpc, need, buf,  \* where pnm_recv_frame is, bytes missing, bytes read
  job,             \* the job that was sent, None before
  parsed,          \* the fields handle_job found, or Malformed, or None
  outcome          \* status the primary gets from Schedule or Wait, or None

vars == <<open, data, spc, left, wire, rpc, need, buf, job, parsed, outcome>>

-----------------------------------------------------------------------------
(* Lengths are uint32_t, sent in four bytes, least significant first.      *)
Modulus == Base * Base * Base * Base

Header(n) ==
  LET n1 == n \div Base
      n2 == n1 \div Base
      n3 == n2 \div Base
  IN  <<n % Base, n1 % Base, n2 % Base, n3 % Base>>

(* Mutant: the bytes are read one place too high.                          *)
Length_Shifted(h) == Base * (h[1] + Base * (h[2] + Base * (h[3] + Base * h[4])))

Length(h) == h[1] + Base * (h[2] + Base * (h[3] + Base * h[4]))

(* What pnm_send_frame sends of its argument after the header.             *)
Body(s) == SubSeq(s, 1, Len(s) % Modulus)

append_frame(msg, s) == msg \o Header(Len(s) % Modulus) \o s

Message(j) == append_frame(append_frame(append_frame(<<>>, j[1]), j[2]), j[3])

(* Mutant: a field that ends with the message is refused.                  *)
parse_field_OffByOne(msg, pos) ==
  LET n == Length(SubSeq(msg, pos + 1, pos + 4))
  IN  IF pos + 4 > Len(msg) \/ pos + 4 + n >= Len(msg)
      THEN [ok |-> FALSE, pos |-> pos, field |-> <<>>]
      ELSE [ok |-> TRUE, pos |-> pos + 4 + n,
            field |-> SubSeq(msg, pos + 5, pos + 4 + n)]

(* A field and the position after it; two early returns.                   *)
parse_field(msg, pos) ==
  LET n == Length(SubSeq(msg, pos + 1, pos + 4))
  IN  IF pos + 4 > Len(msg) \/ pos + 4 + n > Len(msg)
      THEN [ok |-> FALSE, pos |-> pos, field |-> <<>>]
      ELSE [ok |-> TRUE, pos |-> pos + 4 + n,
            field |-> SubSeq(msg, pos + 5, pos + 4 + n)]

Parse(msg) ==
  LET a == parse_field(msg, 0)
      b == parse_field(msg, a.pos)
      c == parse_field(msg, b.pos)
  IN  IF a.ok /\ b.ok /\ c.ok THEN <<a.field, b.field, c.field>>
      ELSE Malformed

-----------------------------------------------------------------------------
Init ==
  /\ open = [e \in {"client", "server"} |-> TRUE]
  /\ data = [d \in Directions |-> None]
  /\ spc = [d \in Directions |-> "idle"]
  /\ left = [d \in Directions |-> <<>>]
  /\ wire = [d \in Directions |-> <<>>]
  /\ rpc = [d \in Directions |-> IF d = "job" THEN "header" ELSE "idle"]
  /\ need = [d \in Directions |-> IF d = "job" THEN 4 ELSE 0]
  /\ buf = [d \in Directions |-> <<>>]
  /\ job = None /\ parsed = None /\ outcome = None

(* The call of pnm_send_frame: the length, then the first send_all.        *)
BeginSend(d, s) ==
  /\ data' = [data EXCEPT ![d] = s]
  /\ spc' = [spc EXCEPT ![d] = "header"]
  /\ left' = [left EXCEPT ![d] = Header(Len(s) % Modulus)]

BeginRecv(d) ==
  /\ rpc' = [rpc EXCEPT ![d] = "header"]
  /\ need' = [need EXCEPT ![d] = 4]

Close(e) == open' = [open EXCEPT ![e] = FALSE]

(* One send(): it takes n bytes, perhaps not all.  When the header is out, *)
(* the body follows unless it is empty.                                    *)
SendSome(d) ==
  /\ spc[d] \in {"header", "body"} /\ open[Sender[d]] /\ open[Receiver[d]]
  /\ \E n \in 1 .. Len(left[d]) :
       /\ Len(wire[d]) + n <= Capacity
       /\ wire' = [wire EXCEPT ![d] = @ \o SubSeq(left[d], 1, n)]
       /\ LET rest == SubSeq(left[d], n + 1, Len(left[d]))
              body == spc[d] = "header" /\ Body(data[d]) # <<>>
          IN  IF rest # <<>>
              THEN left' = [left EXCEPT ![d] = rest] /\ UNCHANGED spc
              ELSE /\ spc' = [spc EXCEPT ![d] = IF body THEN "body" ELSE "ok"]
                   /\ left' = [left EXCEPT ![d] = IF body THEN Body(data[d])
                                                          ELSE <<>>]
  /\ UNCHANGED <<open, data, rpc, need, buf, job, parsed, outcome>>

(* send() fails: the peer has closed, or another error.                    *)
SendFails(d) ==
  /\ spc[d] \in {"header", "body"} /\ open[Sender[d]]
  /\ ~open[Receiver[d]] \/ "error" \in Faults
  /\ spc' = [spc EXCEPT ![d] = "failed"]
  /\ left' = [left EXCEPT ![d] = <<>>]
  /\ UNCHANGED <<open, data, wire, rpc, need, buf, job, parsed, outcome>>

(* One recv(): n bytes, perhaps not all.  The header's bytes are the       *)
(* length of the body.                                                     *)
RecvSome(d) ==
  /\ rpc[d] \in {"header", "body"} /\ open[Receiver[d]]
  /\ \E n \in 1 .. Len(wire[d]) :
       /\ n <= need[d]
       /\ wire' = [wire EXCEPT ![d] = SubSeq(@, n + 1, Len(@))]
       /\ LET read == buf[d] \o SubSeq(wire[d], 1, n)
              size == Length(read)
          IN  IF n < need[d]
              THEN /\ need' = [need EXCEPT ![d] = @ - n]
                   /\ buf' = [buf EXCEPT ![d] = read]
                   /\ UNCHANGED rpc
              ELSE IF rpc[d] = "header"
              THEN /\ need' = [need EXCEPT ![d] = size]
                   /\ buf' = [buf EXCEPT ![d] = <<>>]
                   /\ rpc' = [rpc EXCEPT ![d] = IF size = 0 THEN "ok"
                                                            ELSE "body"]
              ELSE /\ need' = [need EXCEPT ![d] = 0]
                   /\ buf' = [buf EXCEPT ![d] = read]
                   /\ rpc' = [rpc EXCEPT ![d] = "ok"]
  /\ UNCHANGED <<open, data, spc, left, job, parsed, outcome>>

EndOfStream(d) == wire[d] = <<>> /\ ~open[Sender[d]]

(* Mutant: the end of the stream counts as the end of the frame.           *)
RecvFails_EndIsOk(d) ==
  /\ rpc[d] \in {"header", "body"} /\ open[Receiver[d]]
  /\ EndOfStream(d)
  /\ rpc' = [rpc EXCEPT ![d] = "ok"]
  /\ UNCHANGED <<open, data, spc, left, wire, need, buf, job, parsed, outcome>>

(* recv() returns 0 at the end of the stream, or an error.                 *)
RecvFails(d) ==
  /\ rpc[d] \in {"header", "body"} /\ open[Receiver[d]]
  /\ EndOfStream(d) \/ "error" \in Faults
  /\ rpc' = [rpc EXCEPT ![d] = "failed"]
  /\ UNCHANGED <<open, data, spc, left, wire, need, buf, job, parsed, outcome>>

-----------------------------------------------------------------------------
(* The service.                                                            *)
Schedule ==
  /\ job = None /\ open["client"]
  /\ \E j \in Jobs : job' = j /\ BeginSend("job", Message(j))
  /\ UNCHANGED <<open, wire, rpc, need, buf, parsed, outcome>>

Wait ==
  /\ spc["job"] = "ok" /\ rpc["reply"] = "idle" /\ open["client"]
  /\ BeginRecv("reply")
  /\ UNCHANGED <<open, data, spc, left, wire, buf, job, parsed, outcome>>

(* A job that could not be sent, or has no answer, is compacted locally.   *)
UseLocal ==
  /\ spc["job"] = "failed" \/ rpc["reply"] = "failed"
  /\ open["client"]
  /\ Close("client")
  /\ outcome' = "kUseLocal"
  /\ UNCHANGED <<data, spc, left, wire, rpc, need, buf, job, parsed>>

(* Mutant: any answer is a success.                                        *)
Status_IgnoresByte(resp) == IF resp # <<>> THEN "kSuccess" ELSE "kFailure"

(* The first byte of the answer is the status.                             *)
Status(resp) == IF resp # <<>> /\ resp[1] = 0 THEN "kSuccess" ELSE "kFailure"

Answered ==
  /\ rpc["reply"] = "ok" /\ open["client"]
  /\ Close("client")
  /\ outcome' = Status(buf["reply"])
  /\ UNCHANGED <<data, spc, left, wire, rpc, need, buf, job, parsed>>

-----------------------------------------------------------------------------
(* The worker: handle_job, and the close after it.                         *)
HandleJob ==
  /\ rpc["job"] = "ok" /\ spc["reply"] = "idle" /\ open["server"]
  /\ parsed' = Parse(buf["job"])
  /\ \E a \in Answers :
       /\ parsed' = Malformed => a = <<1>>
       /\ BeginSend("reply", a)
  /\ UNCHANGED <<open, wire, rpc, need, buf, job, outcome>>

(* Mutant: no close on the early return of handle_job.                     *)
CloseConnection_NotOnFailure ==
  /\ spc["reply"] \in {"ok", "failed"}
  /\ open["server"]
  /\ Close("server")
  /\ UNCHANGED <<data, spc, left, wire, rpc, need, buf, job, parsed, outcome>>

CloseConnection ==
  /\ rpc["job"] = "failed" \/ spc["reply"] \in {"ok", "failed"}
  /\ open["server"]
  /\ Close("server")
  /\ UNCHANGED <<data, spc, left, wire, rpc, need, buf, job, parsed, outcome>>

(* The process dies and the kernel closes its end.                         *)
Crash(e) ==
  /\ "crash" \in Faults /\ open[e]
  /\ Close(e)
  /\ UNCHANGED <<data, spc, left, wire, rpc, need, buf, job, parsed, outcome>>

Transfer(d) == SendSome(d) \/ SendFails(d) \/ RecvSome(d) \/ RecvFails(d)

Client == Schedule \/ Wait \/ UseLocal \/ Answered
Server == HandleJob \/ CloseConnection

Ended == ~open["client"] /\ ~open["server"]

Next == \/ \E d \in Directions : Transfer(d)
        \/ Client \/ Server
        \/ \E e \in {"client", "server"} : Crash(e)
        \/ Ended /\ UNCHANGED vars

(* Both processes run, and a socket that holds bytes, has room or has lost *)
(* its peer lets a blocked call go on.  No other error has to happen.      *)
Fairness ==
  /\ WF_vars(Client) /\ WF_vars(Server)
  /\ \A d \in Directions :
       /\ WF_vars(SendSome(d) \/ (~open[Receiver[d]] /\ SendFails(d)))
       /\ WF_vars(RecvSome(d) \/ (EndOfStream(d) /\ RecvFails(d)))

Spec == Init /\ [][Next]_vars /\ Fairness

-----------------------------------------------------------------------------
Bytes     == Seq(Byte)
CallState == {"idle", "header", "body", "ok", "failed"}

(* Bytes are bytes, the socket does not overflow, and a call that waits    *)
(* for bytes never has room for more than the frame.                       *)
IpcTypeOK ==
  /\ open \in [{"client", "server"} -> BOOLEAN]
  /\ \A d \in Directions :
       /\ data[d] \in Bytes \cup {None}
       /\ left[d] \in Bytes /\ wire[d] \in Bytes /\ buf[d] \in Bytes
       /\ spc[d] \in CallState /\ rpc[d] \in CallState
       /\ Len(wire[d]) <= Capacity
       /\ need[d] \in 0 .. Modulus - 1
       /\ rpc[d] = "body" => need[d] > 0
       /\ Len(buf[d]) + need[d] < Modulus
  /\ job \in Jobs \cup {None}
  /\ outcome \in {None, "kUseLocal", "kSuccess", "kFailure"}

(* A direction of the connection as FrameChannel sees it.                  *)
FrameOf(d) == IF data[d] = None THEN None ELSE Body(data[d])
ResultOf(d) == CASE rpc[d] = "ok"     -> buf[d]
                 [] rpc[d] = "failed" -> Failed
                 [] OTHER             -> None

JobChannel == INSTANCE FrameChannel WITH
                Frames <- {Body(Message(j)) : j \in Jobs},
                NoFrame <- None, sent <- FrameOf("job"), got <- ResultOf("job")

ReplyChannel == INSTANCE FrameChannel WITH
                Frames <- {Body(a) : a \in Answers},
                NoFrame <- None, sent <- FrameOf("reply"), got <- ResultOf("reply")

(* pnm_ipc.h: whatever the sizes of the single transfers, and whenever a   *)
(* side dies, the receiver obtains the frame that was sent or an error.    *)
(* The frame is the argument of pnm_send_frame without what is cut from it *)
(* when it has 2^32 bytes or more.                                         *)
WholeFrames == JobChannel!Spec /\ ReplyChannel!Spec

(* pnm_unit_main.cc:74: the fields that handle_job works on are those that *)
(* Schedule was given.  A message that the 32-bit length cuts is found     *)
(* malformed, as long as no single field has 2^32 bytes.                   *)
FieldsAsSent ==
  parsed # None =>
    /\ Len(Message(job)) < Modulus => parsed = job
    /\ (\A i \in 1 .. 3 : Len(job[i]) < Modulus) =>
         parsed \in {job, Malformed}

(* pnm_compaction_service.h:162-173: a job succeeds only when the worker   *)
(* answered with success, on the job it was sent; it is reported as failed *)
(* only when the worker said so or its answer was cut to nothing.          *)
OutcomeIsAnswer ==
  /\ outcome = "kSuccess" =>
       /\ data["reply"][1] = 0 /\ parsed # Malformed
       /\ Len(data["reply"]) < Modulus => buf["reply"] = data["reply"]
  /\ outcome = "kFailure" =>
       data["reply"][1] # 0 \/ Len(data["reply"]) % Modulus = 0

(* Nobody waits for ever for bytes of the other: a job that was begun gets *)
(* a status, unless the service's own process dies.                        *)
ExchangeEnds == job # None ~> (outcome # None \/ ~open["client"])

=============================================================================
