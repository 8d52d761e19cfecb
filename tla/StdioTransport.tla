--------------------------- MODULE StdioTransport ---------------------------
(***************************************************************************)
(* The stdio transport (src/mma_mcp/stdio_transport.py) between an MCP     *)
(* client, which holds the other ends of stdin and stdout, and the session *)
(* of the MCP SDK.  Both ends are external.                                *)
(*                                                                         *)
(* readline blocks in a thread of its own; all the rest runs in one event  *)
(* loop, where stdout_writer writes without awaiting: while the client     *)
(* does not empty a full pipe nothing else in the loop runs.  The streams  *)
(* to and from the session hold nothing: sending is handing over.          *)
(***************************************************************************)
EXTENDS Naturals, Sequences, SequencesExt

CONSTANTS
  PipeSize,              \* how many replies fit into the stdout pipe
  MaxLines, MaxReplies   \* bounds of a run

ASSUME StdioAssumption == PipeSize \in Nat \ {0} /\ MaxLines \in Nat /\ MaxReplies \in Nat

VARIABLES
  client,   \* "open", "closed" (its end of stdin), "failed" (reading), "gone"
  lines,    \* what it has written: "text" or "blank"
  taken,    \* how many of them readline has returned
  line,     \* what readline has returned and stdin_reader has not dealt with
  reader,   \* stdin_reader
  inbox,    \* the numbers of the lines the session has received
  session,  \* the SDK: "running", or how it ended
  sent,     \* how many messages the session has sent
  writer,   \* stdout_writer; "write": it holds message number sent
  pipe,     \* the numbers of the messages that are in the stdout pipe
  outbox,   \* those the client has read
  group     \* the task group: "open", or how it was left

stdinVars  == <<lines, taken, line, reader, inbox>>
stdoutVars == <<sent, writer, pipe, outbox>>
stdioVars  == <<client, stdinVars, session, stdoutVars, group>>

StdioInit ==
  /\ client = "open" /\ session = "running" /\ group = "open"
  /\ lines = << >> /\ taken = 0 /\ line = "none" /\ reader = "run" /\ inbox = << >>
  /\ sent = 0 /\ writer = "idle" /\ pipe = << >> /\ outbox = << >>

Loop == group = "open" /\ writer # "write"   \* the event loop is not in write()

-----------------------------------------------------------------------------
(* The client.                                                             *)

Type ==
  /\ client = "open" /\ group = "open" /\ Len(lines) < MaxLines
  /\ \E kind \in {"text", "blank"} : lines' = Append(lines, kind)
  /\ UNCHANGED <<client, taken, line, reader, inbox, session, stdoutVars, group>>

Leaves ==
  /\ client = "open" /\ group = "open"
  /\ client' \in {"closed", "failed", "gone"}
  /\ UNCHANGED <<stdinVars, session, stdoutVars, group>>

Read ==
  /\ client # "gone" /\ pipe # << >>
  /\ outbox' = Append(outbox, Head(pipe)) /\ pipe' = Tail(pipe)
  /\ UNCHANGED <<client, stdinVars, session, sent, writer, group>>

-----------------------------------------------------------------------------
(* stdin_reader: readline in its thread, and what it does with the result. *)

Readline ==
  /\ group = "open" /\ reader = "run" /\ line = "none"
  /\ \/ taken < Len(lines) /\ client # "failed" /\ taken' = taken + 1 /\ line' = lines[taken']
     \/ taken = Len(lines) /\ client \in {"closed", "gone"} /\ line' = "end" /\ UNCHANGED taken
     \/ client = "failed" /\ line' = "error" /\ UNCHANGED taken
  /\ UNCHANGED <<client, lines, reader, inbox, session, stdoutVars, group>>

(* No bytes end the loop, white space does not.  Mutants: the line is      *)
(* stripped first, and then either ends the loop or does not.              *)
DoneStripped(l) == l \in {"end", "blank"}
DoneNever(l) == FALSE
Done(l) == l = "end"

(* A line is sent on, parsed or as the exception of the parser; so is the  *)
(* exception of readline.  Sending to a session that has ended raises,     *)
(* and raises again in the handler, which ends the reader.                 *)
Handle ==
  /\ Loop /\ reader = "run" /\ line # "none"
  /\ IF Done(line) THEN reader' = "ended" /\ UNCHANGED <<line, inbox>>
     ELSE IF line \in {"blank", "end"} THEN line' = "none" /\ UNCHANGED <<reader, inbox>>
     ELSE IF session # "running" THEN reader' = "crashed" /\ UNCHANGED <<line, inbox>>
     ELSE IF line = "error" THEN reader' = "ended" /\ UNCHANGED <<line, inbox>>
     ELSE inbox' = Append(inbox, taken) /\ line' = "none" /\ UNCHANGED reader
  /\ UNCHANGED <<client, lines, taken, session, stdoutVars, group>>

-----------------------------------------------------------------------------
(* The session, as the SDK behaves: it sends what and when it likes, ends  *)
(* after the read stream has, and may end earlier or raise.                *)

SessionSends ==
  /\ Loop /\ session = "running" /\ writer = "idle" /\ sent < MaxReplies
  /\ sent' = sent + 1 /\ writer' = "write"
  /\ UNCHANGED <<client, stdinVars, session, pipe, outbox, group>>

SessionEnds(how) ==
  /\ Loop /\ session = "running"
  /\ session' = how
  /\ UNCHANGED <<client, stdinVars, stdoutVars, group>>

-----------------------------------------------------------------------------
(* stdout_writer, and leaving the task group.                              *)

(* Dumping or encoding the message may raise, before anything is written,  *)
(* and writing raises when the client is gone.                             *)
Write ==
  /\ group = "open" /\ writer = "write"
  /\ \/ writer' = "crashed" /\ UNCHANGED pipe
     \/ /\ client # "gone" /\ Len(pipe) < PipeSize
        /\ pipe' = Append(pipe, sent) /\ writer' = "idle"
  /\ UNCHANGED <<client, stdinVars, session, sent, outbox, group>>

WriterEnds ==
  /\ Loop /\ writer = "idle" /\ session # "running"
  /\ writer' = "ended"
  /\ UNCHANGED <<client, stdinVars, session, sent, pipe, outbox, group>>

(* The group waits for both tasks, unless something was raised: then the   *)
(* tasks are cancelled, and a readline that does not return is abandoned.  *)
Leave ==
  /\ Loop
  /\ IF "crashed" \in {reader, writer} \/ session = "raised" THEN group' = "crashed"
     ELSE reader = "ended" /\ writer = "ended" /\ session = "returned" /\ group' = "left"
  /\ UNCHANGED <<client, stdinVars, session, stdoutVars>>

StdioNext ==
  \/ Type \/ Leaves \/ Read \/ Readline \/ Handle
  \/ SessionSends \/ SessionEnds("returned") \/ SessionEnds("raised")
  \/ Write \/ WriterEnds \/ Leave
=============================================================================
