------------------------------- MODULE Recorder -------------------------------
(***************************************************************************)
(* The recorder of API traffic (behavior/src/services/browser/recorder.ts) *)
(* on the one page of a command.  Every finished or failed request is      *)
(* recorded by an asynchronous handler nobody waits for: it awaits the     *)
(* answer and its body, then reads the page and takes a sequence number in *)
(* one synchronous stretch, then appends its line.  Only requests it would *)
(* record (same origin, xhr, fetch or document) are in the model.          *)
(***************************************************************************)
EXTENDS Integers, Sequences, SequencesExt, FiniteSets

CONSTANTS
    MaxMishaps,  \* bound of the model: what fails, is lost or interferes
    MaxUnderWay  \* bound of the model: handlers under way at once

VARIABLES
    page,      \* the screen the page is at
    requests,  \* the requests of this run in the order they were fired
    lines,     \* <runId>.transactions.jsonl
    nextSeq,   \* the closure's seq
    closed,    \* whether the browser has been closed
    mishaps

recorderVars == <<page, requests, lines, nextSeq, closed>>

Mishap == mishaps < MaxMishaps /\ mishaps' = mishaps + 1
NoMishap == UNCHANGED mishaps

\* The class of a status code; "none" when there was no answer.
Status == {"2xx", "3xx", "4xx", "none"}

Line(n, request, number, at, status) ==
    [seq |-> number, request |-> n, method |-> request.method, path |-> request.path,
     page |-> at, ok |-> status \in {"2xx", "3xx"}]

\* A request from the page, and what became of it: answered, the handler is
\* under way (remembered: the pages until then, and the lines before it).
Fired(method, path, status) ==
    [method |-> method, path |-> path, from |-> page, status |-> status,
     stage |-> "answered", seen |-> {page}, after |-> Len(lines), line |-> <<>>]

Pending == {n \in DOMAIN requests : requests[n].stage \in {"answered", "noted"}}

MayFire == Cardinality(Pending) < MaxUnderWay

\* Nothing is awaited for a request that failed.
FireAndFail(method, path) ==
    LET request == Fired(method, path, "none")
        n == Len(requests) + 1
    IN /\ MayFire
       /\ requests' = Append(requests, [request EXCEPT !.stage = "noted",
                                  !.line = <<Line(n, request, nextSeq, page, "none")>>])
       /\ nextSeq' = nextSeq + 1
       /\ UNCHANGED <<page, lines, closed>>

\* The page goes to a screen, and a request has been fired from where it was.
FireAndMove(method, path, status, to) ==
    /\ MayFire
    /\ requests' = [n \in 1..Len(requests) + 1 |->
           LET r == Append(requests, Fired(method, path, status))[n]
           IN IF r.stage = "answered" THEN [r EXCEPT !.seen = @ \cup {to}] ELSE r]
    /\ page' = to
    /\ UNCHANGED <<lines, nextSeq, closed>>

\* Faulty variant: numbered by the lines that are in the file.
TakeNumberOfFile == nextSeq' = Len(lines) + 1

TakeNumber == nextSeq' = nextSeq + 1

\* The answer and its body have come; after the browser is closed neither may.
Note(n) ==
    /\ requests[n].stage = "answered"
    /\ \E status \in {requests[n].status} \cup (IF closed THEN {"none"} ELSE {}) :
          requests' = [requests EXCEPT ![n].stage = "noted",
                           ![n].line = <<Line(n, requests[n], nextSeq, page, status)>>]
    /\ TakeNumber /\ NoMishap
    /\ UNCHANGED <<page, lines, closed>>

\* write: appends overtake one another, and a failing one is only logged.
Write(n) ==
    /\ requests[n].stage = "noted"
    /\ \/ /\ lines' = lines \o requests[n].line /\ NoMishap
          /\ requests' = [requests EXCEPT ![n].stage = "kept", ![n].line = <<>>]
       \/ /\ Mishap /\ UNCHANGED lines
          /\ requests' = [requests EXCEPT ![n].stage = "lost", ![n].line = <<>>]
    /\ UNCHANGED <<page, nextSeq, closed>>

\* createRecorder: a new file and a new count.
Fresh(at) ==
    /\ page' = at /\ requests' = <<>> /\ lines' = <<>> /\ nextSeq' = 0 /\ closed' = FALSE

RecorderInit(at) ==
    /\ page = at /\ requests = <<>> /\ lines = <<>> /\ nextSeq = 0 /\ closed = TRUE
    /\ mishaps = 0

RecorderStep == \E n \in Pending : Note(n) \/ Write(n)
=============================================================================
