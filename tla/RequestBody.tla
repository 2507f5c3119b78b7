----------------------------- MODULE RequestBody -----------------------------
(* Request.body and Request.form of flasgo/request.py: the body of a request *)
(* is read piece by piece from the server, joined, and kept; text and json   *)
(* only decode what body returns, and form parses it once.  Tasks of the     *)
(* application (the handler, what it gathers or spawns) may call them at any *)
(* time, also while another reads, and may be cancelled, as by wait_for.     *)
(* The client sends, stalls or leaves as it likes.                           *)
EXTENDS Integers, Sequences

CONSTANTS
  Task,       \* tasks that share the Request
  Size,       \* sizes of a piece
  Limit,      \* max_request_body_bytes
  MaxPieces   \* bound: pieces a client's body comes in

ASSUME RequestBodyAssumption ==
  Size \subseteq Nat /\ Limit \in Nat \ {0} /\ MaxPieces \in Nat \ {0}

VARIABLES
  body,      \* sizes of the pieces the client means to send
  kind,      \* what the content type and the body are to form()
  arrived,   \* pieces the server has
  at,        \* pieces the server handed to a task
  gone,      \* the client has disconnected
  pc,        \* pc[t]: "idle", or what t reads the body for
  chunks,    \* chunks[t]: pieces of the read of t
  seen,      \* seen[t]: their size
  stored,    \* _body: nothing, or the pieces it was joined from
  form,      \* _form when _form_loaded: nothing, or the pieces it was parsed from
  torn       \* history: two reads overlapped, or one ended without a body

request == <<body, kind>>
server == <<arrived, at, gone>>
reading == <<pc, chunks, seen>>
vars == <<request, server, reading, stored, form, torn>>

Pieces == UNION {[1..n -> Size] : n \in 1..MaxPieces}
Whole == [i \in DOMAIN body |-> i]

\* A form that parses, one that does not, a multipart form without boundary,
\* and a content type that is no form.
Kind == {"form", "malformed", "no boundary", "other"}
Purpose == {"body", "form"}

Init ==
  /\ body \in Pieces
  /\ kind \in Kind
  /\ arrived = 0 /\ at = 0 /\ gone = FALSE
  /\ pc = [t \in Task |-> "idle"]
  /\ chunks = [t \in Task |-> <<>>]
  /\ seen = [t \in Task |-> 0]
  /\ stored = {} /\ form = {}
  /\ torn = FALSE

----------------------------------------------------------------------------
\* The client, and the server that receives from it.
Arrive ==
  /\ ~gone /\ arrived < Len(body)
  /\ arrived' = arrived + 1
  /\ UNCHANGED <<request, at, gone, reading, stored, form, torn>>

Leave ==
  /\ ~gone
  /\ gone' = TRUE
  /\ UNCHANGED <<request, arrived, at, reading, stored, form, torn>>

----------------------------------------------------------------------------
Reading(t) == pc[t] # "idle"

\* body() with nothing kept yet: t starts to read for p.
StartReading(t, p) ==
  /\ pc' = [pc EXCEPT ![t] = p]
  /\ chunks' = [chunks EXCEPT ![t] = <<>>]
  /\ seen' = [seen EXCEPT ![t] = 0]
  /\ torn' = (torn \/ \E u \in Task : Reading(u))
  /\ UNCHANGED <<request, server, stored, form>>

Idle(t) == /\ pc' = [pc EXCEPT ![t] = "idle"]
           /\ chunks' = [chunks EXCEPT ![t] = <<>>]
           /\ seen' = [seen EXCEPT ![t] = 0]

\* Mutant: the form counts as loaded before the body is parsed.
FormFromUnparsed(b) == form' = {b}

\* What form() does with body b: a form that parses is kept, and another is a
\* 400 each time.  Whether part of a body parses is anyone's guess.
FormFrom(b) ==
  \/ /\ b = Whole => kind = "form"
     /\ form' = {b}
  \/ /\ b = Whole => kind = "malformed"
     /\ UNCHANGED form

\* A call that finds _body, or the form, returns it.
Body(t) ==
  /\ ~Reading(t) /\ stored = {}
  /\ StartReading(t, "body")

Form(t) ==
  /\ ~Reading(t) /\ form = {} /\ kind \in {"form", "malformed"}
  /\ IF stored = {}
       THEN StartReading(t, "form")
       ELSE /\ \E b \in stored : FormFrom(b)
            /\ UNCHANGED <<request, server, reading, stored, torn>>

\* Without a form's content type the empty form is kept and nothing is read;
\* without a boundary (400) nothing is.
FormWithoutBody(t) ==
  /\ ~Reading(t) /\ form = {} /\ kind = "other"
  /\ form' = {<<>>}
  /\ UNCHANGED <<request, server, reading, stored, torn>>

----------------------------------------------------------------------------
\* Mutant: each piece is held to the limit by itself.
SeenOfPiece(t) == body[at + 1]

\* `seen` with the next piece.
SeenNext(t) == seen[t] + body[at + 1]

Receives(t) == Reading(t) /\ at < arrived

\* Mutant: an empty piece is taken for the last one.
TakeStopsAtEmpty(t) ==
  /\ Receives(t) /\ at + 1 < Len(body)
  /\ SeenNext(t) <= Limit
  /\ at' = at + 1
  /\ IF body[at + 1] = 0
       THEN stored' = {chunks[t]} /\ Idle(t)
       ELSE /\ seen' = [seen EXCEPT ![t] = SeenNext(t)]
            /\ chunks' = [chunks EXCEPT ![t] = Append(@, at + 1)]
            /\ UNCHANGED <<pc, stored>>
  /\ UNCHANGED <<request, arrived, gone, form, torn>>

\* A piece with more to come.
Take(t) ==
  /\ Receives(t) /\ at + 1 < Len(body)
  /\ SeenNext(t) <= Limit
  /\ at' = at + 1
  /\ seen' = [seen EXCEPT ![t] = SeenNext(t)]
  /\ chunks' = [chunks EXCEPT ![t] = Append(@, at + 1)]
  /\ UNCHANGED <<request, arrived, gone, pc, stored, form, torn>>

\* The last piece: the joined body is kept, and parsed when form() asked.
TakeLast(t) ==
  /\ Receives(t) /\ at + 1 = Len(body)
  /\ SeenNext(t) <= Limit
  /\ at' = at + 1
  /\ stored' = {Append(chunks[t], at + 1)}
  /\ IF pc[t] = "form" THEN FormFrom(Append(chunks[t], at + 1)) ELSE UNCHANGED form
  /\ Idle(t)
  /\ UNCHANGED <<request, arrived, gone, torn>>

\* 413: the piece and those before it are lost to later calls.
TooBig(t) ==
  /\ Receives(t)
  /\ SeenNext(t) > Limit
  /\ at' = at + 1
  /\ Idle(t)
  /\ torn' = TRUE
  /\ UNCHANGED <<request, arrived, gone, stored, form>>

\* Mutant: the disconnect is skipped like an unknown message.
DisconnectedSkipped(t) ==
  /\ Reading(t) /\ gone
  /\ UNCHANGED vars

\* Mutant: what was read before the disconnect is kept as the body.
DisconnectedKeeps(t) ==
  /\ Reading(t) /\ gone
  /\ stored' = {chunks[t]}
  /\ Idle(t)
  /\ torn' = TRUE
  /\ UNCHANGED <<request, server, form>>

\* 400.  A server may drop the pieces it still has when the client is gone.
Disconnected(t) ==
  /\ Reading(t) /\ gone
  /\ Idle(t)
  /\ torn' = TRUE
  /\ UNCHANGED <<request, server, stored, form>>

Cancel(t) ==
  /\ Reading(t)
  /\ Idle(t)
  /\ torn' = TRUE
  /\ UNCHANGED <<request, server, stored, form>>

Receive(t) == Take(t) \/ TakeLast(t) \/ TooBig(t) \/ Disconnected(t)

Next ==
  \/ Arrive \/ Leave
  \/ \E t \in Task : Body(t) \/ Form(t) \/ FormWithoutBody(t) \/ Receive(t) \/ Cancel(t)

Spec == Init /\ [][Next]_vars

\* A task that can receive does; the client owes nothing.
FairSpec == Spec /\ \A t \in Task : WF_vars(Receive(t))

----------------------------------------------------------------------------
\* Every variable has its type.
TypeOK ==
  /\ body \in Pieces /\ kind \in Kind
  /\ arrived \in 0..Len(body) /\ at \in 0..arrived /\ gone \in BOOLEAN
  /\ pc \in [Task -> Purpose \cup {"idle"}]
  /\ chunks \in [Task -> Seq(DOMAIN body)]
  /\ seen \in [Task -> 0..Limit]
  /\ stored \subseteq Seq(DOMAIN body)
  /\ form \subseteq Seq(DOMAIN body)
  /\ torn \in BOOLEAN

\* As long as no two reads overlapped and none failed or was cancelled, the
\* body that is kept, and so what every call returns, is what the client sent:
\* every piece once and in order, empty ones too (request.py 245-270).
WholeBody == stored # {} /\ ~torn => stored = {Whole}

\* The first n pieces and no more than the limit: total[i] is the size of the
\* first i pieces together.
Totals(n) ==
  {total \in [0..n -> 0..Limit] :
     total[0] = 0 /\ \A i \in 1..n : total[i] = total[i - 1] + body[i]}

\* However the body is cut in pieces, a first read keeps none that is over the
\* limit, and refuses one (it takes a piece, and fails) only when the pieces up to
\* that one are over it: a body of exactly the limit is kept (request.py 263-266).
Limited ==
  [][/\ stored' # {} /\ ~torn' => Totals(Len(body)) # {}
     /\ ~torn /\ torn' /\ at' # at => Totals(at') = {}]_vars

\* Whatever reads overlap, fail and are tried again, the body that one call
\* returned is the body every later call returns.
OneBody == [][stored # {} => stored' = stored]_stored

\* The form that is kept is of the body that is kept, and it parsed, whichever
\* of the overlapping calls of body() and form() came to it first.
FormOfBody ==
  form # {} => \/ kind = "other" /\ form = {<<>>}
               \/ kind # "other" /\ form = stored /\ (form = {Whole} => kind = "form")

\* A read ends when the client leaves, and when its whole body is there and no
\* other read took part of it.
ReadEnds ==
  \A t \in Task :
    /\ (Reading(t) /\ gone) ~> ~Reading(t)
    /\ (Reading(t) /\ arrived = Len(body) /\ ~torn) ~> (~Reading(t) \/ torn)
=============================================================================
