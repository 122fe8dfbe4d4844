---------------------------- MODULE Exercise_proofs ----------------------------
(***************************************************************************)
(* Proofs about the recorder under explore and crud, about the gaps that   *)
(* are reported and the verdicts that are given, for any screens, routes,  *)
(* databases and commands, any number of requests, of handlers under way   *)
(* and of mishaps.                                                         *)
(***************************************************************************)
EXTENDS Exercise, Induction, SequenceTheorems

IsSequence(s) == \E S : s \in Seq(S)

Fields == {"method", "path", "from", "status", "stage", "seen", "after", "line"}

\* A request as it was fired, and what its handler may still rely on.
RequestsOK ==
    \A n \in DOMAIN requests :
        /\ Fields \subseteq DOMAIN requests[n]
        /\ requests[n].stage \in {"answered", "noted", "kept", "lost"}
        /\ requests[n].after \in 0..Len(lines)
        /\ requests[n].from \in requests[n].seen
        /\ requests[n].stage = "answered" => page \in requests[n].seen

\* What a line says of request n: its number has been given out, and is above
\* those of the lines that were there when the request was fired.
Tells(l, n) ==
    /\ l.request = n
    /\ l.seq \in 0..nextSeq - 1
    /\ l.ok => requests[n].status \in {"2xx", "3xx"}
    /\ l.page = requests[n].from \/ {l.page, requests[n].from} \subseteq requests[n].seen
    /\ \A i \in 1..requests[n].after : lines[i].seq < l.seq

IsNoted(n) == n \in DOMAIN requests /\ requests[n].stage = "noted"

\* The line a handler is about to append.
Noted(n) == requests[n].line[1]

NotedTell == \A n \in DOMAIN requests :
    IsNoted(n) => requests[n].line = <<Noted(n)>> /\ Tells(Noted(n), n)

LinesTell == \A j \in DOMAIN lines :
    /\ lines[j].request \in DOMAIN requests
    /\ requests[lines[j].request].stage = "kept"
    /\ Tells(lines[j], lines[j].request)

\* No number is in two places, whether written or about to be.
NumbersDiffer ==
    /\ \A i, j \in DOMAIN lines :
          i # j => lines[i].seq # lines[j].seq /\ lines[i].request # lines[j].request
    /\ \A n, m \in DOMAIN requests :
          n # m /\ IsNoted(n) /\ IsNoted(m) => Noted(n).seq # Noted(m).seq
    /\ \A n \in DOMAIN requests, j \in DOMAIN lines :
          IsNoted(n) => Noted(n).seq # lines[j].seq

\* The inductive invariant of the recorder alone.
RecorderInv ==
    /\ IsSequence(requests) /\ IsSequence(lines) /\ nextSeq \in Nat
    /\ RequestsOK /\ NotedTell /\ LinesTell /\ NumbersDiffer

NothingLeftBehind == pc = "idle" => Pending = {}

IInv == RecorderInv /\ NothingLeftBehind

-------------------------------------------------------------------------------
(* Lemmas about sequences. *)

LEMMA SequenceFacts ==
    ASSUME NEW s, IsSequence(s)
    PROVE  Len(s) \in Nat /\ DOMAIN s = 1..Len(s)
BY DEF IsSequence

LEMMA AppendFacts ==
    ASSUME NEW s, IsSequence(s), NEW x, NEW t, t = Append(s, x)
    PROVE  /\ IsSequence(t) /\ t = s \o <<x>>
           /\ Len(t) = Len(s) + 1
           /\ DOMAIN t = 1..Len(s) + 1
           /\ \A i \in 1..Len(s) : t[i] = s[i]
           /\ t[Len(s) + 1] = x
<1>1. PICK S : s \in Seq(S)
  BY DEF IsSequence
<1> DEFINE T == S \cup {x}
<1>2. s \in Seq(T) /\ x \in T
  BY <1>1
<1>3. Append(s, x) \in Seq(T)
  BY <1>2
<1>4. Append(s, x) = s \o <<x>>
  BY <1>2
<1> QED BY <1>2, <1>3, <1>4 DEF IsSequence

LEMMA UpdateFacts ==
    ASSUME NEW s, IsSequence(s), NEW n \in DOMAIN s, NEW x
    PROVE  /\ IsSequence([s EXCEPT ![n] = x])
           /\ DOMAIN [s EXCEPT ![n] = x] = DOMAIN s
<1>1. PICK S : s \in Seq(S)
  BY DEF IsSequence
<1>2. [s EXCEPT ![n] = x] \in Seq(S \cup {x})
  BY <1>1
<1> QED BY <1>2 DEF IsSequence

LEMMA MapFacts ==
    ASSUME NEW k \in Nat, NEW f, DOMAIN f = 1..k, f = [i \in 1..k |-> f[i]]
    PROVE  IsSequence(f) /\ Len(f) = k
<1>1. f \in [1..k -> {f[i] : i \in 1..k}]
  OBVIOUS
<1>2. f \in Seq({f[i] : i \in 1..k})
  BY <1>1, SeqDef
<1>3. Len(f) \in Nat /\ 1..Len(f) = 1..k
  BY <1>2
<1>4. Len(f) = k
  <2>1. \A i \in Int : i \in 1..Len(f) <=> i \in 1..k
    BY <1>3
  <2>2. (Len(f) >= 1 => Len(f) <= k) /\ (k >= 1 => k <= Len(f))
    BY <2>1, <1>3
  <2> QED BY <2>2, <1>3
<1> QED BY <1>2, <1>4 DEF IsSequence

-------------------------------------------------------------------------------
(* The steps of the recorder keep its invariant. *)

LEMMA NothingHappens ==
    ASSUME RecorderInv, page' = page, requests' = requests, lines' = lines, nextSeq' = nextSeq
    PROVE  RecorderInv'
BY DEF RecorderInv, IsSequence, RequestsOK, NotedTell, LinesTell, NumbersDiffer, Tells, IsNoted, Noted

\* A new recorder has nothing to tell.
LEMMA FreshKeeps ==
    ASSUME NEW at, Fresh(at)
    PROVE  RecorderInv' /\ Pending' = {}
<1>1. requests' = <<>> /\ lines' = <<>> /\ nextSeq' = 0
  BY DEF Fresh
<1>2. IsSequence(<<>>) /\ DOMAIN <<>> = {}
  <2>1. <<>> \in Seq({})
    OBVIOUS
  <2> QED BY <2>1 DEF IsSequence
<1>3. DOMAIN requests' = {} /\ DOMAIN lines' = {}
  BY <1>1, <1>2
<1>4. RequestsOK' /\ NotedTell' /\ LinesTell' /\ NumbersDiffer'
  BY <1>3 DEF RequestsOK, NotedTell, LinesTell, NumbersDiffer
<1>5. Pending' = {}
  BY <1>3 DEF Pending
<1> QED BY <1>1, <1>2, <1>4, <1>5 DEF RecorderInv

\* What stays of a request when only the screens it has seen grow.
Same(old, new) ==
    /\ Fields \subseteq DOMAIN new
    /\ new.stage = old.stage /\ new.after = old.after /\ new.from = old.from
    /\ new.status = old.status /\ new.line = old.line
    /\ old.seen \subseteq new.seen

LEMMA MoveKeeps ==
    ASSUME RecorderInv, NEW method, NEW path, NEW status, NEW to, FireAndMove(method, path, status, to)
    PROVE  RecorderInv'
<1> DEFINE N == Len(requests) + 1
           r0 == Fired(method, path, status)
           all == Append(requests, r0)
<1>1. /\ Len(requests) \in Nat /\ DOMAIN requests = 1..Len(requests)
      /\ Len(lines) \in Nat /\ DOMAIN lines = 1..Len(lines) /\ nextSeq \in Nat
  BY SequenceFacts DEF RecorderInv
<1>2. /\ \A n \in DOMAIN requests : all[n] = requests[n]
      /\ all[N] = r0 /\ N \in Nat
  BY <1>1, AppendFacts DEF RecorderInv
<1>3. /\ requests' = [n \in 1..N |-> IF all[n].stage = "answered"
                                     THEN [all[n] EXCEPT !.seen = @ \cup {to}] ELSE all[n]]
      /\ page' = to /\ lines' = lines /\ nextSeq' = nextSeq
  BY DEF FireAndMove
<1>4. DOMAIN requests' = 1..N /\ IsSequence(requests')
  BY <1>2, <1>3, MapFacts
<1>5. \A n \in DOMAIN requests :
         /\ n \in DOMAIN requests'
         /\ Same(requests[n], requests'[n])
         /\ requests[n].stage = "answered" => to \in requests'[n].seen
  <2> TAKE n \in DOMAIN requests
  <2>1. n \in 1..N /\ all[n] = requests[n] /\ Fields \subseteq DOMAIN requests[n]
    BY <1>1, <1>2 DEF RecorderInv, RequestsOK
  <2>2. CASE requests[n].stage = "answered"
    <3>1. requests'[n] = [requests[n] EXCEPT !.seen = @ \cup {to}]
      BY <1>3, <2>1, <2>2
    <3> QED BY <1>4, <2>1, <3>1 DEF Same, Fields
  <2>3. CASE requests[n].stage # "answered"
    <3>1. requests'[n] = requests[n]
      BY <1>3, <2>1, <2>3
    <3> QED BY <1>4, <2>1, <2>3, <3>1 DEF Same, Fields
  <2> QED BY <2>2, <2>3
<1>6. /\ N \in DOMAIN requests' /\ N \notin DOMAIN requests
      /\ Fields \subseteq DOMAIN requests'[N] /\ requests'[N].stage = "answered"
      /\ requests'[N].after = Len(lines) /\ requests'[N].from = page
      /\ requests'[N].seen = {page, to}
  <2>1. N \in 1..N /\ r0.stage = "answered"
    BY <1>1 DEF Fired
  <2>2. all[N].stage = "answered"
    BY <1>2, <2>1
  <2>3. requests'[N] = [all[N] EXCEPT !.seen = @ \cup {to}]
    BY <1>3, <2>1, <2>2
  <2>4. requests'[N] = [r0 EXCEPT !.seen = @ \cup {to}]
    BY <1>2, <2>3
  <2> QED BY <1>1, <1>4, <2>4 DEF Fired, Fields
<1>7. \A n \in DOMAIN requests' : n = N \/ n \in DOMAIN requests
  BY <1>1, <1>4
<1>8. RequestsOK'
  <2> SUFFICES ASSUME NEW n \in DOMAIN requests'
               PROVE  /\ Fields \subseteq DOMAIN requests'[n]
                      /\ requests'[n].stage \in {"answered", "noted", "kept", "lost"}
                      /\ requests'[n].after \in 0..Len(lines)
                      /\ requests'[n].from \in requests'[n].seen
                      /\ requests'[n].stage = "answered" => to \in requests'[n].seen
    BY <1>3 DEF RequestsOK
  <2>1. CASE n = N
    BY <1>1, <1>6, <2>1
  <2>2. CASE n \in DOMAIN requests
    BY <1>5, <2>2 DEF Same, RecorderInv, RequestsOK
  <2> QED BY <1>7, <2>1, <2>2
<1>9. \A n \in DOMAIN requests' : IsNoted(n)' => n \in DOMAIN requests /\ IsNoted(n) /\ Noted(n)' = Noted(n)
  BY <1>5, <1>6, <1>7 DEF IsNoted, Noted, Same
<1>10. \A n \in DOMAIN requests : \A l : Tells(l, n) => Tells(l, n)'
  BY <1>3, <1>5 DEF Tells, Same
<1>11. NotedTell'
  BY <1>5, <1>9, <1>10 DEF NotedTell, RecorderInv, Same
<1>12. LinesTell'
  BY <1>3, <1>5, <1>10 DEF LinesTell, RecorderInv, Same
<1>13. NumbersDiffer'
  BY <1>3, <1>9 DEF NumbersDiffer, RecorderInv
<1> QED BY <1>3, <1>4, <1>8, <1>11, <1>12, <1>13 DEF RecorderInv

\* The line of a failed request is noted as it is fired.
LEMMA FailKeeps ==
    ASSUME RecorderInv, NEW method, NEW path, FireAndFail(method, path)
    PROVE  RecorderInv'
<1>a. PICK N : N = Len(requests) + 1
  OBVIOUS
<1> DEFINE r0 == Fired(method, path, "none")
<1>b. PICK l0 : l0 = Line(N, r0, nextSeq, page, "none")
  OBVIOUS
<1>c. PICK r1 : r1 = [r0 EXCEPT !.stage = "noted", !.line = <<l0>>]
  OBVIOUS
<1>1. /\ Len(requests) \in Nat /\ DOMAIN requests = 1..Len(requests)
      /\ Len(lines) \in Nat /\ DOMAIN lines = 1..Len(lines) /\ nextSeq \in Nat
  BY SequenceFacts DEF RecorderInv
<1>2. requests' = Append(requests, r1) /\ nextSeq' = nextSeq + 1 /\ page' = page /\ lines' = lines
  BY <1>a, <1>b, <1>c DEF FireAndFail
<1>3. /\ IsSequence(requests') /\ DOMAIN requests' = 1..N
      /\ \A n \in DOMAIN requests : requests'[n] = requests[n]
      /\ requests'[N] = r1
  <2>1. IsSequence(requests)
    BY DEF RecorderInv
  <2>0. requests' = Append(requests, r1)
    BY <1>2
  <2>2. IsSequence(requests')
    BY <2>0, <2>1, AppendFacts
  <2>3. DOMAIN requests' = 1..Len(requests) + 1
    BY <2>0, <2>1, AppendFacts
  <2>4. \A n \in 1..Len(requests) : requests'[n] = requests[n]
    BY <2>0, <2>1, AppendFacts
  <2>5. requests'[Len(requests) + 1] = r1
    BY <2>0, <2>1, AppendFacts
  <2> QED BY <1>a, <1>1, <2>2, <2>3, <2>4, <2>5
<1>4. /\ Fields \subseteq DOMAIN r1 /\ r1.stage = "noted" /\ r1.after = Len(lines)
      /\ r1.from = page /\ r1.seen = {page} /\ r1.line = <<l0>>
  BY <1>c DEF Fired, Fields
<1>5. l0.request = N /\ l0.seq = nextSeq /\ l0.page = page /\ ~l0.ok
  BY <1>b DEF Line
<1>6. \A n \in DOMAIN requests' : n = N \/ (n \in DOMAIN requests /\ n # N)
  BY <1>a, <1>1, <1>3
<1>7. \A n \in DOMAIN requests : \A l : Tells(l, n) => Tells(l, n)'
  BY <1>1, <1>2, <1>3 DEF Tells
<1>8. RequestsOK'
  BY <1>1, <1>2, <1>3, <1>4, <1>6 DEF RequestsOK, RecorderInv
<1>9. Noted(N)' = l0 /\ Tells(l0, N)'
  <2>1. Noted(N)' = l0
    BY <1>3, <1>4 DEF Noted
  <2>2. \A i \in 1..Len(lines) : lines[i].seq < nextSeq
    BY <1>1 DEF RecorderInv, LinesTell, Tells
  <2> QED BY <1>1, <1>2, <1>3, <1>4, <1>5, <2>1, <2>2 DEF Tells
<1>10. NotedTell'
  <2> SUFFICES ASSUME NEW n \in DOMAIN requests', IsNoted(n)'
               PROVE  requests'[n].line = <<Noted(n)'>> /\ Tells(Noted(n), n)'
    BY DEF NotedTell
  <2>1. CASE n = N
    BY <1>3, <1>4, <1>9, <2>1
  <2>2. CASE n \in DOMAIN requests
    <3>1. IsNoted(n) /\ Noted(n)' = Noted(n) /\ requests'[n].line = requests[n].line
      BY <1>3, <2>2 DEF IsNoted, Noted
    <3> QED BY <1>7, <2>2, <3>1 DEF NotedTell, RecorderInv
  <2> QED BY <1>6, <2>1, <2>2
<1>11. LinesTell'
  <2>1. DOMAIN requests \subseteq DOMAIN requests'
    BY <1>a, <1>1, <1>3
  <2> QED BY <1>1, <1>2, <1>3, <1>7, <2>1 DEF LinesTell, RecorderInv
<1>12. NumbersDiffer'
  <2>1. \A n \in DOMAIN requests : IsNoted(n) => Noted(n).seq < nextSeq
    BY <1>1 DEF RecorderInv, NotedTell, Tells
  <2>2. \A j \in DOMAIN lines : lines[j].seq < nextSeq
    BY <1>1 DEF RecorderInv, LinesTell, Tells
  <2>3. \A n \in DOMAIN requests : IsNoted(n)' => IsNoted(n) /\ Noted(n)' = Noted(n)
    BY <1>3 DEF IsNoted, Noted
  <2>4. \A n \in DOMAIN requests : IsNoted(n) => Noted(n).seq \in Int
    BY <1>1 DEF RecorderInv, NotedTell, Tells
  <2>5. \A j \in DOMAIN lines : lines[j].seq \in Int
    BY <1>1 DEF RecorderInv, LinesTell, Tells
  <2>6. \A n, m \in DOMAIN requests' :
           n # m /\ IsNoted(n)' /\ IsNoted(m)' => Noted(n)'.seq # Noted(m)'.seq
    BY <1>1, <1>5, <1>6, <1>9, <2>1, <2>3, <2>4 DEF RecorderInv, NumbersDiffer
  <2>7. \A n \in DOMAIN requests', j \in DOMAIN lines :
           IsNoted(n)' => Noted(n)'.seq # lines[j].seq
    BY <1>1, <1>5, <1>6, <1>9, <2>2, <2>3, <2>5 DEF RecorderInv, NumbersDiffer
  <2> QED BY <1>2, <2>6, <2>7 DEF NumbersDiffer, RecorderInv
<1> QED BY <1>1, <1>2, <1>3, <1>8, <1>10, <1>11, <1>12 DEF RecorderInv

\* What a step changes of one request: its stage and its line.
Settles(n, stage, line) ==
    requests' = [requests EXCEPT ![n].stage = stage, ![n].line = line]

LEMMA SettleFacts ==
    ASSUME RecorderInv, NEW n \in DOMAIN requests, NEW stage, NEW line, Settles(n, stage, line)
    PROVE  /\ IsSequence(requests') /\ DOMAIN requests' = DOMAIN requests
           /\ \A m \in DOMAIN requests : m # n => requests'[m] = requests[m]
           /\ Fields \subseteq DOMAIN requests'[n]
           /\ requests'[n].stage = stage /\ requests'[n].line = line
           /\ requests'[n].after = requests[n].after /\ requests'[n].from = requests[n].from
           /\ requests'[n].seen = requests[n].seen /\ requests'[n].status = requests[n].status
<1>a. PICK r : r = [requests[n] EXCEPT !.stage = stage, !.line = line]
  OBVIOUS
<1>1. requests' = [requests EXCEPT ![n] = r]
  BY <1>a DEF Settles
<1>2. IsSequence(requests') /\ DOMAIN requests' = DOMAIN requests
  BY <1>1, UpdateFacts DEF RecorderInv
<1>3. Fields \subseteq DOMAIN requests[n]
  BY DEF RecorderInv, RequestsOK
<1> QED BY <1>a, <1>1, <1>2, <1>3 DEF Fields

\* A handler that has its answer takes a number above all others.
LEMMA NoteKeeps ==
    ASSUME RecorderInv, NEW n \in Pending, Note(n)
    PROVE  RecorderInv'
<1>a. PICK status \in {requests[n].status} \cup (IF closed THEN {"none"} ELSE {}) :
       requests' = [requests EXCEPT ![n].stage = "noted",
                        ![n].line = <<Line(n, requests[n], nextSeq, page, status)>>]
  BY DEF Note
<1>b. PICK l : l = Line(n, requests[n], nextSeq, page, status)
  OBVIOUS
<1>1. /\ n \in DOMAIN requests /\ requests[n].stage = "answered"
      /\ nextSeq' = nextSeq + 1 /\ page' = page /\ lines' = lines
      /\ Settles(n, "noted", <<l>>)
  BY <1>a, <1>b DEF Note, Pending, TakeNumber, Settles
<1>2. /\ IsSequence(requests') /\ DOMAIN requests' = DOMAIN requests
      /\ \A m \in DOMAIN requests : m # n => requests'[m] = requests[m]
      /\ Fields \subseteq DOMAIN requests'[n]
      /\ requests'[n].stage = "noted" /\ requests'[n].line = <<l>>
      /\ requests'[n].after = requests[n].after /\ requests'[n].from = requests[n].from
      /\ requests'[n].seen = requests[n].seen /\ requests'[n].status = requests[n].status
  BY <1>1, SettleFacts
<1>3. /\ l.request = n /\ l.seq = nextSeq /\ l.page = page
      /\ l.ok => requests[n].status \in {"2xx", "3xx"}
  BY <1>a, <1>b DEF Line
<1>4. nextSeq \in Nat /\ IsSequence(lines) /\ Len(lines) \in Nat /\ DOMAIN lines = 1..Len(lines)
  BY SequenceFacts DEF RecorderInv
<1>5. RequestsOK'
  BY <1>1, <1>2 DEF RequestsOK, RecorderInv
<1>6. \A m \in DOMAIN requests : \A x : Tells(x, m) => Tells(x, m)'
  BY <1>1, <1>2, <1>4 DEF Tells
<1>7. Noted(n)' = l /\ Tells(l, n)'
  <2>1. Noted(n)' = l
    BY <1>2 DEF Noted
  <2>2. \A i \in 1..Len(lines) : lines[i].seq < nextSeq
    BY <1>4 DEF RecorderInv, LinesTell, Tells
  <2>3. page \in requests[n].seen /\ requests[n].from \in requests[n].seen
        /\ requests[n].after \in 0..Len(lines)
    BY <1>1 DEF RecorderInv, RequestsOK
  <2> QED BY <1>1, <1>2, <1>3, <1>4, <2>1, <2>2, <2>3 DEF Tells
<1>8. \A m \in DOMAIN requests : m # n =>
         (IsNoted(m)' <=> IsNoted(m)) /\ Noted(m)' = Noted(m)
  BY <1>2 DEF IsNoted, Noted
<1>9. NotedTell'
  BY <1>2, <1>6, <1>7, <1>8 DEF NotedTell, RecorderInv
<1>10. LinesTell'
  BY <1>1, <1>2, <1>6 DEF LinesTell, RecorderInv
<1>11. NumbersDiffer'
  <2>1. \A m \in DOMAIN requests : IsNoted(m) => Noted(m).seq \in 0..nextSeq - 1
    BY DEF RecorderInv, NotedTell, Tells
  <2>2. \A j \in DOMAIN lines : lines[j].seq \in 0..nextSeq - 1
    BY DEF RecorderInv, LinesTell, Tells
  <2>3. \A m, k \in DOMAIN requests :
           m # k /\ IsNoted(m)' /\ IsNoted(k)' => Noted(m)'.seq # Noted(k)'.seq
    BY <1>3, <1>4, <1>7, <1>8, <2>1 DEF RecorderInv, NumbersDiffer
  <2>4. \A m \in DOMAIN requests, j \in DOMAIN lines :
           IsNoted(m)' => Noted(m)'.seq # lines[j].seq
    BY <1>3, <1>4, <1>7, <1>8, <2>2 DEF RecorderInv, NumbersDiffer
  <2> QED BY <1>1, <1>2, <2>3, <2>4 DEF NumbersDiffer, RecorderInv
<1> QED BY <1>1, <1>2, <1>4, <1>5, <1>9, <1>10, <1>11 DEF RecorderInv

\* A line that is appended has the number its handler took.
LEMMA WriteKeeps ==
    ASSUME RecorderInv, NEW n \in Pending, Write(n)
    PROVE  RecorderInv'
<1>1. /\ n \in DOMAIN requests /\ requests[n].stage = "noted" /\ IsNoted(n)
      /\ nextSeq' = nextSeq /\ page' = page
  BY DEF Write, Pending, IsNoted
<1>2. /\ nextSeq \in Nat /\ IsSequence(lines) /\ Len(lines) \in Nat /\ DOMAIN lines = 1..Len(lines)
      /\ \A m \in DOMAIN requests : requests[m].after \in 0..Len(lines)
  BY SequenceFacts DEF RecorderInv, RequestsOK
<1>3. CASE lines' = lines \o requests[n].line /\ Settles(n, "kept", <<>>)
  <2>a. PICK l : l = Noted(n)
    OBVIOUS
  <2>1. requests[n].line = <<l>> /\ Tells(l, n)
    BY <1>1, <2>a DEF RecorderInv, NotedTell
  <2>2. lines' = Append(lines, l)
    <3>1. Append(lines, l) = lines \o <<l>>
      BY <1>2, AppendFacts
    <3> QED BY <1>3, <2>1, <3>1
  <2>3. IsSequence(lines')
    BY <1>2, <2>2, AppendFacts
  <2>4. Len(lines') = Len(lines) + 1
    BY <1>2, <2>2, AppendFacts
  <2>5. DOMAIN lines' = 1..Len(lines) + 1
    BY <1>2, <2>2, AppendFacts
  <2>6. \A i \in 1..Len(lines) : lines'[i] = lines[i]
    BY <1>2, <2>2, AppendFacts
  <2>7. lines'[Len(lines) + 1] = l
    BY <1>2, <2>2, AppendFacts
  <2>8. /\ IsSequence(requests') /\ DOMAIN requests' = DOMAIN requests
        /\ \A m \in DOMAIN requests : m # n => requests'[m] = requests[m]
        /\ Fields \subseteq DOMAIN requests'[n]
        /\ requests'[n].stage = "kept"
        /\ requests'[n].after = requests[n].after /\ requests'[n].from = requests[n].from
        /\ requests'[n].seen = requests[n].seen /\ requests'[n].status = requests[n].status
    BY <1>1, <1>3, SettleFacts
  <2>9. RequestsOK'
    BY <1>1, <1>2, <2>4, <2>8 DEF RequestsOK, RecorderInv
  <2>10. \A m \in DOMAIN requests : \A x : Tells(x, m) => Tells(x, m)'
    <3> SUFFICES ASSUME NEW m \in DOMAIN requests, NEW x, Tells(x, m)
                 PROVE  Tells(x, m)'
      OBVIOUS
    <3>1. /\ requests'[m].after = requests[m].after /\ requests'[m].from = requests[m].from
          /\ requests'[m].seen = requests[m].seen /\ requests'[m].status = requests[m].status
      BY <2>8
    <3>2. \A i \in 1..requests[m].after : lines'[i].seq < x.seq
      BY <1>2, <2>6 DEF Tells
    <3> QED BY <1>1, <3>1, <3>2 DEF Tells
  <2>11. \A m \in DOMAIN requests : IsNoted(m)' => m # n /\ IsNoted(m) /\ Noted(m)' = Noted(m)
    BY <2>8 DEF IsNoted, Noted
  <2>12. NotedTell'
    BY <2>8, <2>10, <2>11 DEF NotedTell, RecorderInv
  <2>13. \A j \in DOMAIN lines' : j = Len(lines) + 1 \/ (j \in DOMAIN lines /\ j # Len(lines) + 1)
    BY <1>2, <2>5
  <2>14. \A j \in DOMAIN lines : lines[j].request # n
    BY <1>1 DEF RecorderInv, LinesTell
  <2>15. LinesTell'
    <3>1. \A x, k : k = n /\ x = l => k \in DOMAIN requests' /\ requests'[k].stage = "kept" /\ Tells(x, k)'
      BY <1>1, <2>1, <2>8, <2>10
    <3>2. \A x, k : k # n /\ k \in DOMAIN requests /\ requests[k].stage = "kept" /\ Tells(x, k) =>
             k \in DOMAIN requests' /\ requests'[k].stage = "kept" /\ Tells(x, k)'
      BY <2>8, <2>10
    <3>3. l.request = n
      BY <2>1 DEF Tells
    <3>4. \A j \in DOMAIN lines : lines'[j] = lines[j]
      BY <1>2, <2>6
    <3>5. \A j \in DOMAIN lines :
             /\ lines[j].request # n /\ lines[j].request \in DOMAIN requests
             /\ requests[lines[j].request].stage = "kept" /\ Tells(lines[j], lines[j].request)
      BY <2>14 DEF RecorderInv, LinesTell
    <3>6. \A j \in DOMAIN lines' : \A x, k : x = lines'[j] /\ k = x.request =>
             k \in DOMAIN requests' /\ requests'[k].stage = "kept" /\ Tells(x, k)'
      <4> SUFFICES ASSUME NEW j \in DOMAIN lines', NEW x, NEW k, x = lines'[j], k = x.request
                   PROVE  k \in DOMAIN requests' /\ requests'[k].stage = "kept" /\ Tells(x, k)'
        OBVIOUS
      <4>1. CASE j = Len(lines) + 1
        BY <2>7, <3>1, <3>3, <4>1
      <4>2. CASE j \in DOMAIN lines
        BY <3>2, <3>4, <3>5, <4>2
      <4> QED BY <2>13, <4>1, <4>2
    <3> QED BY <3>6 DEF LinesTell, Tells
  <2>16. \A j \in DOMAIN lines : lines'[j] = lines[j] /\ l.seq # lines[j].seq /\ l.request # lines[j].request
    <3>1. l.request = n
      BY <2>1 DEF Tells
    <3>2. \A j \in DOMAIN lines : l.seq # lines[j].seq
      BY <1>1, <2>a DEF RecorderInv, NumbersDiffer
    <3> QED BY <1>2, <2>6, <2>14, <3>1, <3>2
  <2>17. \A i, j \in DOMAIN lines' :
            i # j => lines'[i].seq # lines'[j].seq /\ lines'[i].request # lines'[j].request
    BY <2>7, <2>13, <2>16 DEF RecorderInv, NumbersDiffer
  <2>18. \A m, k \in DOMAIN requests' :
            m # k /\ IsNoted(m)' /\ IsNoted(k)' => Noted(m)'.seq # Noted(k)'.seq
    BY <2>8, <2>11 DEF RecorderInv, NumbersDiffer
  <2>19. \A m \in DOMAIN requests', j \in DOMAIN lines' :
            IsNoted(m)' => Noted(m)'.seq # lines'[j].seq
    BY <1>1, <2>a, <2>7, <2>8, <2>11, <2>13, <2>16 DEF RecorderInv, NumbersDiffer
  <2>20. NumbersDiffer'
    BY <2>17, <2>18, <2>19 DEF NumbersDiffer
  <2> QED BY <1>1, <1>2, <2>3, <2>8, <2>9, <2>12, <2>15, <2>20 DEF RecorderInv
<1>4. CASE lines' = lines /\ Settles(n, "lost", <<>>)
  <2>1. /\ IsSequence(requests') /\ DOMAIN requests' = DOMAIN requests
        /\ \A m \in DOMAIN requests : m # n => requests'[m] = requests[m]
        /\ Fields \subseteq DOMAIN requests'[n]
        /\ requests'[n].stage = "lost"
        /\ requests'[n].after = requests[n].after /\ requests'[n].from = requests[n].from
        /\ requests'[n].seen = requests[n].seen /\ requests'[n].status = requests[n].status
    BY <1>1, <1>4, SettleFacts
  <2>2. RequestsOK'
    BY <1>1, <1>4, <2>1 DEF RequestsOK, RecorderInv
  <2>3. \A m \in DOMAIN requests : \A x : Tells(x, m) => Tells(x, m)'
    BY <1>1, <1>4, <2>1 DEF Tells
  <2>4. \A m \in DOMAIN requests : IsNoted(m)' => m # n /\ IsNoted(m) /\ Noted(m)' = Noted(m)
    BY <2>1 DEF IsNoted, Noted
  <2>5. NotedTell'
    BY <2>1, <2>3, <2>4 DEF NotedTell, RecorderInv
  <2>6. \A j \in DOMAIN lines : lines[j].request # n
    BY <1>1 DEF RecorderInv, LinesTell
  <2>7. LinesTell'
    BY <1>4, <2>1, <2>3, <2>6 DEF LinesTell, RecorderInv
  <2>8. NumbersDiffer'
    BY <1>4, <2>1, <2>4 DEF NumbersDiffer, RecorderInv
  <2> QED BY <1>1, <1>2, <1>4, <2>1, <2>2, <2>5, <2>7, <2>8 DEF RecorderInv
<1> QED BY <1>3, <1>4 DEF Write, Settles

\* What a death leaves is on disk or lost.
LEMMA DieKeeps ==
    ASSUME RecorderInv, Die
    PROVE  RecorderInv' /\ Pending' = {}
<1>1. /\ requests' = [n \in DOMAIN requests |->
                        IF n \in Pending THEN [requests[n] EXCEPT !.stage = "lost", !.line = <<>>]
                        ELSE requests[n]]
      /\ page' = page /\ lines' = lines /\ nextSeq' = nextSeq
  BY DEF Die
<1>2. IsSequence(requests') /\ DOMAIN requests' = DOMAIN requests
  <2>1. Len(requests) \in Nat /\ DOMAIN requests = 1..Len(requests)
    BY SequenceFacts DEF RecorderInv
  <2>2. DOMAIN requests' = 1..Len(requests)
    BY <1>1, <2>1
  <2>3. requests' = [n \in 1..Len(requests) |-> requests'[n]]
    BY <1>1, <2>1
  <2>4. IsSequence(requests')
    BY <2>1, <2>2, <2>3, MapFacts
  <2> QED BY <1>1, <2>4
<1>3. \A n \in DOMAIN requests :
         /\ Fields \subseteq DOMAIN requests'[n]
         /\ requests'[n].stage \in {"kept", "lost"}
         /\ requests[n].stage = "kept" => requests'[n].stage = "kept"
         /\ requests'[n].after = requests[n].after /\ requests'[n].from = requests[n].from
         /\ requests'[n].seen = requests[n].seen /\ requests'[n].status = requests[n].status
  <2> TAKE n \in DOMAIN requests
  <2>1. Fields \subseteq DOMAIN requests[n] /\ requests[n].stage \in {"answered", "noted", "kept", "lost"}
    BY DEF RecorderInv, RequestsOK
  <2>2. CASE n \in Pending
    <3>1. requests[n].stage \in {"answered", "noted"}
      BY <2>2 DEF Pending
    <3>2. requests'[n] = [requests[n] EXCEPT !.stage = "lost", !.line = <<>>]
      BY <1>1, <2>2
    <3> QED BY <2>1, <3>1, <3>2 DEF Fields
  <2>3. CASE n \notin Pending
    <3>1. requests'[n] = requests[n] /\ requests[n].stage \in {"kept", "lost"}
      BY <1>1, <2>1, <2>3 DEF Pending
    <3> QED BY <2>1, <3>1
  <2> QED BY <2>2, <2>3
<1>4. Pending' = {}
  BY <1>2, <1>3 DEF Pending
<1>5. RequestsOK'
  BY <1>1, <1>2, <1>3 DEF RequestsOK, RecorderInv
<1>6. \A m \in DOMAIN requests : \A x : Tells(x, m) => Tells(x, m)'
  <2> SUFFICES ASSUME NEW m \in DOMAIN requests, NEW x, Tells(x, m)
               PROVE  Tells(x, m)'
    OBVIOUS
  <2>1. /\ requests'[m].after = requests[m].after /\ requests'[m].from = requests[m].from
        /\ requests'[m].seen = requests[m].seen /\ requests'[m].status = requests[m].status
    BY <1>3
  <2> QED BY <1>1, <2>1 DEF Tells
<1>7. NotedTell' /\ \A m \in DOMAIN requests' : ~IsNoted(m)'
  BY <1>2, <1>3 DEF NotedTell, IsNoted
<1>8. LinesTell'
  BY <1>1, <1>2, <1>3, <1>6 DEF LinesTell, RecorderInv
<1>9. NumbersDiffer'
  BY <1>1, <1>7 DEF NumbersDiffer, RecorderInv
<1> QED BY <1>1, <1>2, <1>4, <1>5, <1>7, <1>8, <1>9 DEF RecorderInv

-------------------------------------------------------------------------------
(* The recorder under explore and crud. *)

\* What a step of a command, or of anybody else, may do to the recorder.
Recorded ==
    \/ UNCHANGED <<page, requests, lines, nextSeq>>
    \/ \E at : Fresh(at)
    \/ \E method, path, status, to : FireAndMove(method, path, status, to)
    \/ \E method, path : FireAndFail(method, path)
    \/ \E n \in Pending : Note(n) \/ Write(n)

LEMMA RecordedKeeps ==
    ASSUME RecorderInv, Recorded
    PROVE  RecorderInv'
<1>1. CASE UNCHANGED <<page, requests, lines, nextSeq>>
  BY <1>1, NothingHappens
<1>2. CASE \E at : Fresh(at)
  BY <1>2, FreshKeeps
<1>3. CASE \E method, path, status, to : FireAndMove(method, path, status, to)
  BY <1>3, MoveKeeps
<1>4. CASE \E method, path : FireAndFail(method, path)
  BY <1>4, FailKeeps
<1>5. CASE \E n \in Pending : Note(n) \/ Write(n)
  BY <1>5, NoteKeeps, WriteKeeps
<1> QED BY <1>1, <1>2, <1>3, <1>4, <1>5 DEF Recorded

\* One request of the api client is one request of the recorder.
LEMMA RequestRecords ==
    ASSUME NEW route, NEW path, NEW status, NEW rows, NEW made,
           Request(route, path, status, rows, made)
    PROVE  Recorded
BY DEF Request, Recorded

\* Every action but a death leaves a command under way, or had nothing under way.
LEMMA ActionRecords ==
    ASSUME NothingLeftBehind, Next, ~Die
    PROVE  /\ Recorded
           /\ pc' = "idle" => Pending = {} /\ requests' = requests
<1>1. CASE \E job \in Jobs : StartExplore(job) \/ StartCrud(job)
  <2>1. \E at : Fresh(at)
    BY <1>1 DEF StartExplore, StartCrud
  <2>2. pc' = "cases" \/ pc' = "create"
    BY <1>1 DEF StartExplore, StartCrud, Begin
  <2> QED BY <2>1, <2>2 DEF Recorded
<1>2. CASE SkipCase \/ Judge \/ EndExplore
  BY <1>2 DEF SkipCase, Judge, EndExplore, Recorded, recorderVars
<1>3. CASE RunCase
  <2>1. pc' \in {"judge", "cases"}
    BY <1>3 DEF RunCase
  <2>2. Recorded
    BY <1>3 DEF RunCase, Recorded, recorderVars
  <2> QED BY <2>1, <2>2
<1>4. CASE Create
  <2>1. Recorded
    BY <1>4, RequestRecords DEF Create
  <2>2. pc' \in {"create", "created", "update"}
    BY <1>4 DEF Create, EndPlan, Proceed
  <2> QED BY <2>1, <2>2
<1>5. CASE Update
  <2>1. Recorded
    BY <1>5, RequestRecords DEF Update
  <2>2. pc' \in {"create", "delete", "updated"}
    BY <1>5 DEF Update, EndPlan, Proceed
  <2> QED BY <2>1, <2>2
<1>6. CASE Delete
  <2>1. Recorded
    BY <1>6, RequestRecords DEF Delete
  <2>2. pc' \in {"create", "deleted"}
    BY <1>6 DEF Delete, EndPlan, Proceed
  <2> QED BY <2>1, <2>2
<1>7. CASE ProbeCreate \/ ProbeUpdate \/ ProbeDelete \/ SkipUpdate \/ SkipDelete
  <2>1. UNCHANGED <<page, requests, lines, nextSeq>>
    BY <1>7 DEF ProbeCreate, ProbeUpdate, ProbeDelete, SkipUpdate, SkipDelete, recorderVars
  <2>2. pc' \in {"create", "update", "delete"}
    BY <1>7 DEF ProbeCreate, ProbeUpdate, ProbeDelete, SkipUpdate, SkipDelete, EndPlan, Proceed
  <2> QED BY <2>1, <2>2 DEF Recorded
<1>8. CASE Publish \/ CloseBrowser
  BY <1>8 DEF Publish, CloseBrowser, Recorded, recorderVars
<1>9. CASE End
  BY <1>9 DEF End, Recorded, recorderVars
<1>10. CASE Elsewhere
  BY <1>10 DEF Elsewhere, Recorded, recorderVars, NothingLeftBehind
<1>11. CASE Record
  <2>1. PICK n \in Pending : Note(n) \/ Write(n)
    BY <1>11 DEF Record, RecorderStep
  <2>2. pc' = pc /\ pc # "idle"
    BY <1>11, <2>1 DEF Record, NothingLeftBehind
  <2>3. Recorded
    BY <2>1 DEF Recorded
  <2> QED BY <2>2, <2>3
<1> QED BY <1>1, <1>2, <1>3, <1>4, <1>5, <1>6, <1>7, <1>8, <1>9, <1>10, <1>11 DEF Next

LEMMA InitIInv == Init => IInv
<1> SUFFICES ASSUME Init PROVE IInv
  OBVIOUS
<1>1. requests = <<>> /\ lines = <<>> /\ nextSeq = 0
  BY DEF Init, RecorderInit
<1>2. IsSequence(<<>>) /\ DOMAIN <<>> = {}
  <2>1. <<>> \in Seq({})
    OBVIOUS
  <2> QED BY <2>1 DEF IsSequence
<1>3. DOMAIN requests = {} /\ DOMAIN lines = {}
  BY <1>1, <1>2
<1>4. RequestsOK /\ NotedTell /\ LinesTell /\ NumbersDiffer
  BY <1>3 DEF RequestsOK, NotedTell, LinesTell, NumbersDiffer
<1>5. Pending = {}
  BY <1>3 DEF Pending
<1> QED BY <1>1, <1>2, <1>4, <1>5 DEF IInv, RecorderInv, NothingLeftBehind

LEMMA NextIInv == IInv /\ [Next]_vars => IInv'
<1> SUFFICES ASSUME IInv, [Next]_vars PROVE IInv'
  OBVIOUS
<1>1. CASE Die
  BY <1>1, DieKeeps DEF IInv, NothingLeftBehind
<1>2. CASE Next /\ ~Die
  <2>1. RecorderInv'
    BY <1>2, ActionRecords, RecordedKeeps DEF IInv
  <2>2. pc' = "idle" => Pending' = {}
    BY <1>2, ActionRecords DEF IInv, Pending
  <2> QED BY <2>1, <2>2 DEF IInv, NothingLeftBehind
<1>3. CASE UNCHANGED vars
  <2>1. page' = page /\ requests' = requests /\ lines' = lines /\ nextSeq' = nextSeq /\ pc' = pc
    BY <1>3 DEF vars, recorderVars
  <2> QED BY <2>1, NothingHappens DEF IInv, NothingLeftBehind, Pending
<1> QED BY <1>1, <1>2, <1>3

LEMMA IInvTells == IInv => LinesTellTheRequests
<1> SUFFICES ASSUME IInv PROVE LinesTellTheRequests
  OBVIOUS
<1>1. \A i, j \in DOMAIN lines :
         i # j => lines[i].seq # lines[j].seq /\ lines[i].request # lines[j].request
  BY DEF IInv, RecorderInv, NumbersDiffer
<1>2. \A j \in DOMAIN lines : Tells(lines[j], lines[j].request)
  BY DEF IInv, RecorderInv, LinesTell
<1> QED BY <1>1, <1>2 DEF LinesTellTheRequests, Tells, IInv, NothingLeftBehind

\* However the handlers of the recorder interleave with a command, with its end
\* or death and with each other: every request has at most one line with a
\* number of its own, above those of the lines it was fired after; the line
\* does not flatter the answer and names a screen the page was at; and no
\* handler outlives its command (recorder.ts).
THEOREM ExerciseLinesTell == Spec => []LinesTellTheRequests
BY InitIInv, NextIInv, IInvTells, PTL DEF Spec

-------------------------------------------------------------------------------
(* Gaps. *)

LEMMA HasUnion ==
    ASSUME NEW R, NEW S, NEW table, NEW column, NEW value
    PROVE  Has(R \cup S, table, column, value)
               <=> Has(R, table, column, value) \/ Has(S, table, column, value)
BY DEF Has

Observed == {"case", "sent", "status", "moved", "shown", "stored", "before", "disturbed"}

Known(j) == j.case.known # <<>>

HasValue(rows, j) == Has(rows, j.case.known[1], j.case.known[2], j.case.value)

\* While nobody else touches the database, the value that was submitted is in
\* the column it is known to go to just when it was stored or was there before.
ObservedOK(rows, j) ==
    /\ DOMAIN j = Observed
    /\ Known(j) /\ ~j.disturbed =>
          /\ HasValue(rows, j) => j.stored \/ j.before
          /\ j.stored => HasValue(rows, j)

\* A case is judged at once, and one only.
JudgingInv ==
    /\ DOMAIN judging \subseteq {1}
    /\ 1 \in DOMAIN judging <=> pc = "judge"
    /\ \A i \in DOMAIN judging : ObservedOK(db, judging[i])

GapsInv == JudgingInv /\ GapsAreTold

LEMMA ObserveOK ==
    ASSUME NEW c, NEW o \in Outcome,
           db' = IF o.stores THEN db \cup {Submitted(c)} ELSE db
    PROVE  ObservedOK(db', Observe(c, o))
<1> DEFINE j == Observe(c, o)
<1>1. /\ DOMAIN j = Observed /\ j.case = c /\ j.disturbed = FALSE
      /\ j.stored = (o.stores /\ (c.known # <<>> => Has({Submitted(c)}, c.known[1], c.known[2], c.value)))
      /\ j.before = (c.known # <<>> /\ Has(db, c.known[1], c.known[2], c.value))
  BY DEF Observe, Observed
<1>2. o.stores \in BOOLEAN
  BY DEF Outcome
<1> HIDE DEF j
<1>3. Has(db', c.known[1], c.known[2], c.value)
          <=> \/ Has(db, c.known[1], c.known[2], c.value)
              \/ o.stores /\ Has({Submitted(c)}, c.known[1], c.known[2], c.value)
  <2>1. CASE o.stores
    <3>1. db' = db \cup {Submitted(c)}
      BY <2>1
    <3> QED
      BY <2>1, <3>1, HasUnion
  <2>2. CASE ~o.stores
    BY <2>2
  <2> QED
    BY <2>1, <2>2
<1>4. Known(j) => /\ Has(db', c.known[1], c.known[2], c.value) => j.stored \/ j.before
                  /\ j.stored => Has(db', c.known[1], c.known[2], c.value)
  BY <1>1, <1>2, <1>3, Zenon DEF Known
<1>5. ObservedOK(db', j)
  BY <1>1, <1>4 DEF ObservedOK, Known, HasValue
<1> QED
  BY <1>5 DEF j

LEMMA Judged ==
    ASSUME JudgingInv, Judge
    PROVE  GapsAreTold'
<1> DEFINE j == judging[1]
<1>1. PICK failed \in BOOLEAN :
          /\ failed => isSuspicious(j) /\ j.case.known # <<>>
          /\ judged' = <<[gap |-> classifyGap(j, failed), blind |-> failed, observed |-> j]>>
  BY DEF Judge
<1>2. ObservedOK(db, j) /\ DOMAIN j = Observed
  BY DEF Judge, JudgingInv, ObservedOK
<1> DEFINE g == [gap |-> classifyGap(j, failed), blind |-> failed, observed |-> j]
           accepted == j.moved \/ (j.sent /\ j.status = "2xx")
<1>3. g.gap = classifyGap(j, failed) /\ g.blind = failed /\ g.observed = j
  OBVIOUS
<1>4. ToSet(judged') = {g}
  <2> HIDE DEF g
  <2>1. judged' = <<g>>
    BY <1>1 DEF g
  <2> QED
    BY <2>1 DEF ToSet
<1> HIDE DEF g, j
<1>5. g.gap = "high" => j.stored \/ j.before \/ j.disturbed
  <2> SUFFICES ASSUME g.gap = "high" PROVE j.stored \/ j.before \/ j.disturbed
    OBVIOUS
  <2>1. Known(j) /\ HasValue(db, j)
    BY <1>3 DEF classifyGap, Known, HasValue, wasValueSaved
  <2> QED
    BY <1>2, <2>1 DEF ObservedOK
<1>6. g.gap = "medium" => accepted \/ (~j.sent /\ j.status = "2xx")
  <2> SUFFICES ASSUME g.gap = "medium" PROVE accepted \/ (~j.sent /\ j.status = "2xx")
    OBVIOUS
  <2>1. isSuspicious(j)
    BY <1>3 DEF classifyGap
  <2>2. j.status = "2xx" \/ j.moved
    BY <2>1 DEF isSuspicious
  <2> QED
    BY <2>2
<1>b. g.blind => g.gap = "none"
  <2> SUFFICES ASSUME g.blind PROVE g.gap = "none"
    OBVIOUS
  <2>1. failed /\ isSuspicious(j) /\ Known(j)
    BY <1>1, <1>3 DEF Known, j
  <2> QED
    BY <1>3, <2>1 DEF classifyGap, Known, wasValueSaved
<1>7. j.stored /\ accepted /\ ~j.shown => g.gap # "none" \/ g.blind \/ j.disturbed
  <2> SUFFICES ASSUME j.stored, accepted, ~j.shown, ~g.blind, ~j.disturbed PROVE g.gap # "none"
    OBVIOUS
  <2>1. isSuspicious(j) /\ ~failed
    BY <1>3 DEF isSuspicious
  <2>2. Known(j) => HasValue(db, j)
    BY <1>2 DEF ObservedOK
  <2> QED
    BY <1>3, <2>1, <2>2 DEF classifyGap, Known, HasValue, wasValueSaved
<1> QED
  BY <1>3, <1>4, <1>5, <1>6, <1>b, <1>7 DEF GapsAreTold

\* Where the page, the database and the case are left alone.
LEMMA JudgingStays ==
    ASSUME GapsInv, UNCHANGED <<db, judging, judged>>, pc' = "judge" <=> pc = "judge"
    PROVE  GapsInv'
BY DEF GapsInv, JudgingInv, GapsAreTold, ObservedOK, Known, HasValue

LEMMA NobodyJudged ==
    ASSUME GapsInv, pc # "judge", pc' # "judge", UNCHANGED <<judging, judged>>
    PROVE  GapsInv'
BY DEF GapsInv, JudgingInv, GapsAreTold

LEMMA GapsAction ==
    ASSUME GapsInv, Next
    PROVE  GapsInv'
<1>e. DOMAIN <<>> = {}
  OBVIOUS
<1>1. ASSUME NEW job \in Jobs, StartExplore(job) \/ StartCrud(job) PROVE GapsInv'
  <2>1. CASE StartExplore(job)
    <3>1. judging' = <<>> /\ judged' = <<>> /\ pc' = "cases"
      BY <2>1 DEF StartExplore, Begin
    <3> QED
      BY <1>e, <3>1 DEF GapsInv, JudgingInv, GapsAreTold, ToSet
  <2>2. CASE StartCrud(job)
    <3>1. UNCHANGED <<judging, judged>> /\ pc = "idle" /\ pc' = "create"
      BY <2>2 DEF StartCrud, Begin, exploreVars
    <3> QED
      BY <3>1, NobodyJudged
  <2> QED
    BY <1>1, <2>1, <2>2
<1>2. CASE RunCase
  <2>1. /\ pc = "cases" /\ judged' = judged
        /\ \E o \in Outcome :
              /\ judging' = IF cases[1].expects = "reject" THEN <<Observe(cases[1], o)>> ELSE <<>>
              /\ pc' = IF cases[1].expects = "reject" THEN "judge" ELSE "cases"
              /\ db' = IF o.stores THEN db \cup {Submitted(cases[1])} ELSE db
    BY <1>2 DEF RunCase, dbVars
  <2>2. PICK o \in Outcome :
              /\ judging' = IF cases[1].expects = "reject" THEN <<Observe(cases[1], o)>> ELSE <<>>
              /\ pc' = IF cases[1].expects = "reject" THEN "judge" ELSE "cases"
              /\ db' = IF o.stores THEN db \cup {Submitted(cases[1])} ELSE db
    BY <2>1
  <2>3. JudgingInv'
    <3>1. CASE cases[1].expects = "reject"
      <4> DEFINE j == Observe(cases[1], o)
      <4>1. judging' = <<j>> /\ pc' = "judge"
        BY <2>2, <3>1
      <4>2. ObservedOK(db', j)
        BY <2>2, ObserveOK
      <4>3. DOMAIN judging' = {1} /\ judging'[1] = Observe(cases[1], o)
        BY <4>1
      <4>4. ObservedOK(db', judging'[1])
        BY <4>2, <4>3
      <4> QED
        BY <4>1, <4>3, <4>4 DEF JudgingInv
    <3>2. CASE cases[1].expects # "reject"
      BY <1>e, <2>2, <3>2 DEF JudgingInv
    <3> QED
      BY <3>1, <3>2
  <2> QED
    BY <2>1, <2>3 DEF GapsInv, GapsAreTold
<1>3. CASE Judge
  <2>1. GapsAreTold'
    BY <1>3, Judged DEF GapsInv
  <2>2. judging' = <<>> /\ pc' = "cases"
    BY <1>3 DEF Judge
  <2> QED
    BY <1>e, <2>1, <2>2 DEF GapsInv, JudgingInv
<1>4. CASE SkipCase \/ EndExplore
  <2>1. UNCHANGED <<judging, judged>> /\ pc = "cases" /\ pc' # "judge"
    BY <1>4 DEF SkipCase, EndExplore, exploreVars
  <2> QED
    BY <2>1, NobodyJudged
<1>5. CASE Create \/ ProbeCreate \/ SkipUpdate \/ Update \/ ProbeUpdate
           \/ SkipDelete \/ Delete \/ ProbeDelete \/ Publish
  <2>1. UNCHANGED <<judging, judged>> /\ pc # "judge"
    BY ZenonT(60), <1>5 DEF Create, ProbeCreate, SkipUpdate, Update, ProbeUpdate, SkipDelete, Delete,
                ProbeDelete, Publish, exploreVars
  <2>2. pc' # "judge"
    BY <1>5 DEF Create, ProbeCreate, SkipUpdate, Update, ProbeUpdate, SkipDelete, Delete,
                ProbeDelete, Publish, Proceed, EndPlan
  <2> QED
    BY SMTT(30), <2>1, <2>2, NobodyJudged
<1>6. CASE CloseBrowser \/ End
  <2>1. UNCHANGED <<judging, judged>> /\ pc # "judge" /\ pc' # "judge"
    BY <1>6 DEF CloseBrowser, End, exploreVars
  <2> QED
    BY <2>1, NobodyJudged
<1>7. CASE Die
  <2>1. judging' = <<>> /\ pc' = "idle" /\ judged' = judged
    BY <1>7 DEF Die
  <2> QED
    BY <1>e, <2>1 DEF GapsInv, JudgingInv, GapsAreTold
<1>8. CASE Elsewhere
  <2>1. /\ judging' = [i \in DOMAIN judging |-> [judging[i] EXCEPT !.disturbed = TRUE]]
        /\ pc' = pc /\ judged' = judged
    BY <1>8 DEF Elsewhere
  <2>2. ASSUME NEW i \in DOMAIN judging' PROVE ObservedOK(db', judging'[i])
    <3>1. i \in DOMAIN judging /\ judging'[i] = [judging[i] EXCEPT !.disturbed = TRUE]
      BY <2>1, <2>2
    <3>2. DOMAIN judging[i] = Observed
      BY <3>1 DEF GapsInv, JudgingInv, ObservedOK
    <3>3. DOMAIN judging'[i] = Observed /\ judging'[i].disturbed = TRUE
      BY <3>1, <3>2 DEF Observed
    <3> QED
      BY <3>3 DEF ObservedOK
  <2>3. DOMAIN judging' = DOMAIN judging
    BY <2>1
  <2> QED
    BY <2>1, <2>2, <2>3 DEF GapsInv, JudgingInv, GapsAreTold
<1>9. CASE Record
  <2>1. UNCHANGED <<db, judging, judged, pc>>
    BY <1>9 DEF Record, dbVars, exploreVars
  <2> QED
    BY <2>1, JudgingStays
<1> QED
  BY <1>1, <1>2, <1>3, <1>4, <1>5, <1>6, <1>7, <1>8, <1>9 DEF Next

LEMMA GapsInit == Init => GapsInv
BY DEF Init, GapsInv, JudgingInv, GapsAreTold, ToSet

LEMMA GapsNext == GapsInv /\ [Next]_vars => GapsInv'
<1>1. ASSUME GapsInv, UNCHANGED vars PROVE GapsInv'
  <2>1. UNCHANGED <<db, judging, judged, pc>>
    BY <1>1 DEF vars, dbVars, exploreVars
  <2> QED
    BY <1>1, <2>1, JudgingStays
<1> QED
  BY <1>1, GapsAction

\* Whatever the application does with an invalid value, whoever else is at the
\* database and whichever question fails: a confirmed gap had its value stored by
\* this submission, or there before, or somebody else was there; a suspected one
\* was accepted, or nothing was sent and an earlier answer was; a failed question
\* reports none; and an accepted value that was stored without a word is reported
\* unless the question failed or somebody else was there (explore.ts: runCase,
\* classifyGap; dbProbe.ts).
THEOREM ExerciseGapsAreTold == Spec => []GapsAreTold
<1>1. GapsInv => GapsAreTold
  BY DEF GapsInv
<1> QED
  BY GapsInit, GapsNext, <1>1, PTL DEF Spec

-------------------------------------------------------------------------------
(* What crud plans. *)

AtMostOne(s) == s = <<>> \/ s = <<s[1]>>

\* An id is neither sent nor changed, and names tell the columns that are sent.
PlanShape(p) ==
    /\ p.update # <<>> => p.column[1].name \notin IdNames
    /\ p.first # <<>> => p.first[1] \in p.body
    /\ \A c, d \in p.body : c.name = d.name => c = d
    /\ \A c \in p.body : c.name \notin IdNames

ColumnsOK(columns) ==
    /\ columns \in Seq(ToSet(columns))
    /\ \A i, j \in DOMAIN columns : columns[i].name = columns[j].name => i = j

LEMMA OneElement ==
    /\ ToSet(<<>>) = {}
    /\ \A x, s : s = <<x>> => ToSet(s) = {x} /\ AtMostOne(s) /\ s # <<>> /\ s[1] = x
BY DEF ToSet, AtMostOne

LEMMA FirstIs ==
    ASSUME NEW s, IsSequence(s), NEW set
    PROVE  First(s, set) = <<>> \/ \E x \in ToSet(s) : x \in set /\ First(s, set) = <<x>>
<1> DEFINE I == {i \in 1..Len(s) : s[i] \in set}
           i == SelectInSeq(s, LAMBDA x : x \in set)
<1>1. Len(s) \in Nat /\ DOMAIN s = 1..Len(s)
  BY SequenceFacts
<1>2. i = IF I # {} THEN Min(I) ELSE 0
  BY DEF SelectInSeq
<1>3. First(s, set) = IF i = 0 THEN <<>> ELSE <<s[i]>>
  BY DEF First
<1> HIDE DEF i
<1>4. I # {} => Min(I) \in I
  <2> SUFFICES ASSUME I # {} PROVE Min(I) \in I
    OBVIOUS
  <2>1. I \in SUBSET Nat
    BY <1>1
  <2> HIDE DEF I
  <2>2. \E n \in I : \A m \in I : n <= m
    BY <2>1, LeastNat
  <2> QED
    BY <2>2 DEF Min
<1>5. CASE I = {}
  BY <1>2, <1>3, <1>5
<1>6. CASE I # {}
  <2>1. i \in 1..Len(s) /\ s[i] \in set
    BY <1>2, <1>4, <1>6
  <2>2. i # 0 /\ s[i] \in ToSet(s)
    BY <1>1, <2>1 DEF ToSet
  <2> QED
    BY <1>3, <2>1, <2>2
<1> QED
  BY <1>5, <1>6

LEMMA PlanOfIs ==
    ASSUME NEW inputs, NEW entity, NEW columns, ColumnsOK(columns)
    PROVE  \/ planOf(entity, inputs, columns) = <<>>
           \/ \E p : planOf(entity, inputs, columns) = <<p>> /\ PlanShape(p)
<1> DEFINE posts   == RoutesOf(inputs, entity, {"POST"})
           create  == Either(First(inputs, posts \ WithId(posts)), First(inputs, posts))
           id      == pickIdColumn(columns)
           changed == pickUpdatableColumn(columns, id[1].name)
           update  == IF changed = <<>> THEN <<>>
                      ELSE First(inputs, WithId(RoutesOf(inputs, entity, {"PATCH", "PUT"})))
           delete  == First(inputs, WithId(RoutesOf(inputs, entity, {"DELETE"})))
           p == [table  |-> entity, idColumn |-> id[1].name, create |-> create[1],
                 update |-> update, column |-> changed, delete |-> delete,
                 body   |-> deriveBody(columns), first |-> FirstSent(columns)]
<1>1. planOf(entity, inputs, columns) = IF create = <<>> \/ id = <<>> THEN <<>> ELSE <<p>>
  BY DEF planOf
<1>2. /\ p.update = update /\ p.column = changed
      /\ p.body = deriveBody(columns) /\ p.first = FirstSent(columns)
  OBVIOUS
<1>3. update # <<>> => changed # <<>>
  OBVIOUS
<1> HIDE DEF p, create, update
<1>s. IsSequence(columns)
  BY DEF ColumnsOK, IsSequence
<1>4. changed = <<>> \/ \E c \in deriveBody(columns) : changed = <<c>>
  BY <1>s, FirstIs DEF pickUpdatableColumn
<1>5. FirstSent(columns) = <<>> \/ \E c \in deriveBody(columns) : FirstSent(columns) = <<c>>
  BY <1>s, FirstIs DEF FirstSent
<1>6. \A c \in deriveBody(columns) : c.name \notin IdNames
  BY ColumnsAssumption DEF deriveBody
<1>7. \A c, d \in deriveBody(columns) : c.name = d.name => c = d
  BY DEF deriveBody, ColumnsOK, ToSet
<1> HIDE DEF changed
<1>8. update # <<>> => changed[1].name \notin IdNames
  BY <1>3, <1>4, <1>6
<1>9. FirstSent(columns) # <<>> => FirstSent(columns)[1] \in deriveBody(columns)
  BY <1>5
<1>10. PlanShape(p)
  BY <1>2, <1>6, <1>7, <1>8, <1>9 DEF PlanShape
<1> QED
  BY <1>1, <1>10

Named(entity) == entity # ""

LEMMA OneMore ==
    ASSUME NEW s, IsSequence(s), NEW x, NEW t, t = s \o <<x>>
    PROVE  /\ IsSequence(t) /\ DOMAIN t = 1..Len(s) + 1
           /\ \A i \in 1..Len(s) : t[i] = s[i]
           /\ t[Len(s) + 1] = x
<1>1. PICK S : s \in Seq(S)
  BY DEF IsSequence
<1> DEFINE T == S \cup {x}
<1>2. s \in Seq(T) /\ <<x>> \in Seq(T)
  BY <1>1
<1>3. t \in Seq(T)
  BY <1>2
<1> HIDE DEF T
<1>4. IsSequence(t)
  BY <1>3 DEF IsSequence
<1> QED
  BY <1>2, <1>3, <1>4

\* The plans for the entities of the first n routes.
PlansUpTo(inputs, columnsByTable) ==
    CHOOSE upTo : upTo = [n \in 0..Len(inputs) |->
        IF n = 0 THEN <<>>
        ELSE LET entity == inputs[n].entity
             IN upTo[n - 1] \o
                (IF entity = "" \/ \E i \in 1..n - 1 : inputs[i].entity = entity THEN <<>>
                 ELSE planOf(entity, inputs, columnsByTable[entity]))]

\* What the n-th route adds.
Adds(inputs, columnsByTable, n) ==
    IF inputs[n].entity = "" \/ \E i \in 1..n - 1 : inputs[i].entity = inputs[n].entity THEN <<>>
    ELSE planOf(inputs[n].entity, inputs, columnsByTable[inputs[n].entity])

LEMMA AddsOne ==
    ASSUME NEW inputs, NEW columnsByTable, NEW n \in DOMAIN inputs,
           Named(inputs[n].entity) => ColumnsOK(columnsByTable[inputs[n].entity])
    PROVE  \/ Adds(inputs, columnsByTable, n) = <<>>
           \/ \E p : Adds(inputs, columnsByTable, n) = <<p>> /\ PlanShape(p)
<1>1. \/ Adds(inputs, columnsByTable, n) = <<>>
      \/ /\ Named(inputs[n].entity)
         /\ Adds(inputs, columnsByTable, n)
                = planOf(inputs[n].entity, inputs, columnsByTable[inputs[n].entity])
  BY DEF Adds, Named
<1> QED
  BY <1>1, PlanOfIs

LEMMA PlansExist ==
    ASSUME NEW inputs, IsSequence(inputs), NEW columnsByTable,
           \A n \in DOMAIN inputs :
              Named(inputs[n].entity) => ColumnsOK(columnsByTable[inputs[n].entity])
    PROVE  /\ PlansUpTo(inputs, columnsByTable)[0] = <<>>
           /\ \A n \in 1..Len(inputs) :
                 PlansUpTo(inputs, columnsByTable)[n]
                     = PlansUpTo(inputs, columnsByTable)[n - 1] \o Adds(inputs, columnsByTable, n)
           /\ buildCrudPlans(inputs, columnsByTable) = PlansUpTo(inputs, columnsByTable)[Len(inputs)]
<1>a. PICK N : N = Len(inputs) /\ N \in Nat /\ DOMAIN inputs = 1..N
  BY SequenceFacts
<1>b. PICK adds : adds = [n \in 1..N |-> Adds(inputs, columnsByTable, n)]
  OBVIOUS
<1>c. PICK P : P = {adds[n][1] : n \in 1..N}
  OBVIOUS
<1>1. \A n \in 1..N : adds[n] \in Seq(P)
  <2> SUFFICES ASSUME NEW n \in 1..N PROVE adds[n] \in Seq(P)
    OBVIOUS
  <2>1. adds[n] = Adds(inputs, columnsByTable, n)
    BY <1>b
  <2>2. adds[n] = <<>> \/ \E p : adds[n] = <<p>>
    BY <1>a, <2>1, AddsOne
  <2>3. CASE adds[n] = <<>>
    BY <2>3
  <2>4. ASSUME NEW p, adds[n] = <<p>> PROVE adds[n] \in Seq(P)
    <3>1. adds[n][1] = p /\ p \in P
      BY <1>c, <2>4
    <3> QED
      BY <2>4, <3>1
  <2> QED
    BY <2>2, <2>3, <2>4
<1> DEFINE U == Seq(P)
           F == [x \in (1..N) \X U |-> x[2] \o adds[x[1]]]
<1>2. F \in [(1..N) \X U -> U] /\ <<>> \in U
  BY <1>1
<1>3. PICK s : Recursion(s, U, <<>>, N, F)
  <2> HIDE DEF F, U
  <2> QED
    BY <1>a, <1>2, RecursionExists
<1>4. ASSUME NEW k \in 1..N PROVE s[k] = s[k - 1] \o adds[k]
  <2>1. k - 1 \in 0..N /\ s[k - 1] \in U
    BY <1>a, <1>3 DEF Recursion
  <2> QED
    BY <1>3, <2>1 DEF Recursion
<1>5. s = [n \in 0..N |-> IF n = 0 THEN <<>> ELSE s[n - 1] \o Adds(inputs, columnsByTable, n)]
  <2>1. \A n \in 0..N : n = 0 \/ n \in 1..N
    BY <1>a
  <2>2. \A n \in 1..N : s[n] = s[n - 1] \o Adds(inputs, columnsByTable, n)
    BY SMTT(30), <1>b, <1>4
  <2> QED
    BY <1>3, <2>1, <2>2 DEF Recursion
<1> DEFINE t == PlansUpTo(inputs, columnsByTable)
<1>6. t = [n \in 0..N |-> IF n = 0 THEN <<>> ELSE t[n - 1] \o Adds(inputs, columnsByTable, n)]
  BY <1>a, <1>5 DEF PlansUpTo, Adds
<1>7. buildCrudPlans(inputs, columnsByTable) = t[N]
  BY <1>a DEF buildCrudPlans, PlansUpTo
<1> HIDE DEF t
<1>8. t[0] = <<>>
  BY <1>a, <1>6
<1>9. ASSUME NEW n \in 1..N PROVE t[n] = t[n - 1] \o Adds(inputs, columnsByTable, n)
  <2>1. n \in 0..N /\ n # 0
    BY <1>a
  <2> QED
    BY <1>6, <2>1
<1> QED
  BY <1>a, <1>7, <1>8, <1>9 DEF t

LEMMA BuildIs ==
    ASSUME NEW inputs, IsSequence(inputs), NEW columnsByTable,
           \A n \in DOMAIN inputs :
              Named(inputs[n].entity) => ColumnsOK(columnsByTable[inputs[n].entity]),
           NEW all, all = buildCrudPlans(inputs, columnsByTable)
    PROVE  IsSequence(all) /\ \A i \in DOMAIN all : PlanShape(all[i])
<1>a. PICK N : N = Len(inputs) /\ N \in Nat /\ DOMAIN inputs = 1..N
  BY SequenceFacts
<1>b. PICK t : t = PlansUpTo(inputs, columnsByTable)
  OBVIOUS
<1>1. /\ t[0] = <<>> /\ all = t[N]
      /\ \A n \in 1..N : t[n] = t[n - 1] \o Adds(inputs, columnsByTable, n)
  BY <1>a, <1>b, PlansExist
<1> DEFINE Good(n) == IsSequence(t[n]) /\ \A i \in DOMAIN t[n] : PlanShape(t[n][i])
           S == {n \in Nat : n <= N => Good(n)}
<1>2. Good(0)
  <2>1. IsSequence(<<>>) /\ DOMAIN <<>> = {}
    <3>1. <<>> \in Seq({})
      OBVIOUS
    <3> QED
      BY <3>1 DEF IsSequence
  <2> QED
    BY <1>1, <2>1
<1>3. ASSUME NEW n \in Nat, n + 1 <= N, Good(n) PROVE Good(n + 1)
  <2>1. PICK m, more : m = n + 1 /\ more = Adds(inputs, columnsByTable, m)
    OBVIOUS
  <2>2. m \in 1..N /\ m - 1 = n /\ m \in DOMAIN inputs
    BY <1>a, <1>3, <2>1
  <2>3. t[m] = t[n] \o more
    BY <1>1, <2>1, <2>2
  <2>4. CASE more = <<>>
    <3>1. t[m] = t[n]
      <4>1. PICK T : t[n] \in Seq(T)
        BY <1>3 DEF IsSequence
      <4> QED
        BY <2>3, <2>4, <4>1
    <3> QED
      BY <1>3, <2>1, <3>1
  <2>5. ASSUME NEW p, more = <<p>>, PlanShape(p)
        PROVE  Good(n + 1)
    <3>0. PICK L : L = Len(t[n]) /\ L \in Nat /\ DOMAIN t[n] = 1..L
      BY <1>3, SequenceFacts
    <3>1. /\ IsSequence(t[m]) /\ DOMAIN t[m] = 1..L + 1
          /\ \A i \in 1..L : t[m][i] = t[n][i]
          /\ t[m][L + 1] = p
      <4>1. PICK v : v = t[n] /\ IsSequence(v)
        BY <1>3
      <4>2. PICK u : u = v \o <<p>>
        OBVIOUS
      <4>3. IsSequence(u)
        BY ONLY <4>1, <4>2, OneMore
      <4>4. DOMAIN u = 1..Len(v) + 1
        BY ONLY <4>1, <4>2, OneMore
      <4>5. u[Len(v) + 1] = p
        BY ONLY <4>1, <4>2, OneMore
      <4>6. \A i \in 1..Len(v) : u[i] = v[i]
        BY ONLY <4>1, <4>2, OneMore
      <4> QED
        BY <2>3, <2>5, <3>0, <4>1, <4>2, <4>3, <4>4, <4>5, <4>6
    <3>2. \A i \in 1..L + 1 : i \in 1..L \/ i = L + 1
      BY <3>0
    <3>3. ASSUME NEW i \in DOMAIN t[m] PROVE PlanShape(t[m][i])
      <4>1. CASE i \in 1..L
        BY <1>3, <3>0, <3>1, <4>1
      <4>2. CASE i = L + 1
        BY <2>5, <3>1, <4>2
      <4> QED
        BY <3>1, <3>2, <4>1, <4>2
    <3> QED
      BY <2>1, <3>1, <3>3
  <2> HIDE DEF Good
  <2> QED
    BY <2>1, <2>2, <2>4, <2>5, AddsOne
<1> HIDE DEF Good
<1>4. Nat \subseteq S
  <2>1. 0 \in S
    BY <1>2
  <2>2. ASSUME NEW n \in Nat, n \in S PROVE n + 1 \in S
    <3>1. CASE n + 1 <= N
      <4>1. Good(n)
        BY <1>a, <2>2, <3>1
      <4>2. Good(n + 1)
        BY <1>3, <3>1, <4>1
      <4> QED
        BY <4>2
    <3> QED
      BY <3>1
  <2> HIDE DEF S
  <2> QED
    BY <2>1, <2>2, NatSetInduction
<1>5. Good(N)
  BY <1>a, <1>4
<1> QED
  BY <1>1, <1>5 DEF Good

\* What is planned, whether routes share a key or not.
PlansOK == IsSequence(plans) /\ \A i \in DOMAIN plans : PlanShape(plans[i])

LEMMA CrudStarts ==
    ASSUME NEW job \in Jobs, StartCrud(job)
    PROVE  PlansOK'
<1> DEFINE inputs   == RouteInputs(job.routes, job.hasFullNodes)
           entities == {e \in {inputs[i].entity : i \in DOMAIN inputs} : Named(e)}
<1>0. job.kind = "crud"
  BY DEF StartCrud
<1>e. entities = {inputs[i].entity : i \in DOMAIN inputs} \ {""}
  BY DEF Named
<1>1. PICK unanswered \in SUBSET entities :
          plans' = buildCrudPlans(inputs, [e \in entities |->
                      IF e \in unanswered \/ e \notin DOMAIN ColumnsOf THEN <<>> ELSE ColumnsOf[e]])
  <2> DEFINE E == {inputs[i].entity : i \in DOMAIN inputs} \ {""}
  <2>1. \E unanswered \in SUBSET E :
          plans' = buildCrudPlans(inputs, [e \in E |->
                      IF e \in unanswered \/ e \notin DOMAIN ColumnsOf THEN <<>> ELSE ColumnsOf[e]])
    BY DEF StartCrud
  <2>2. E = entities
    BY <1>e
  <2> HIDE DEF E, entities, inputs
  <2> QED
    BY <2>1, <2>2
<1> DEFINE columns == [e \in entities |->
                         IF e \in unanswered \/ e \notin DOMAIN ColumnsOf THEN <<>> ELSE ColumnsOf[e]]
<1>2. PICK routes : routes = job.routes /\ routes \in Seq(ToSet(routes))
  BY <1>0, ExerciseAssumption
<1>3. DOMAIN inputs = DOMAIN routes /\ Len(routes) \in Nat /\ DOMAIN routes = 1..Len(routes)
  BY <1>2 DEF RouteInputs
<1>4. IsSequence(inputs)
  <2>1. inputs = [i \in 1..Len(routes) |-> inputs[i]]
    BY <1>2, <1>3 DEF RouteInputs
  <2> HIDE DEF inputs
  <2> QED
    BY <1>3, <2>1, MapFacts
<1> HIDE DEF inputs
<1>5. ASSUME NEW n \in DOMAIN inputs, Named(inputs[n].entity) PROVE ColumnsOK(columns[inputs[n].entity])
  <2> DEFINE e == inputs[n].entity
  <2>1. e \in entities
    BY <1>5 DEF Named
  <2>2. columns[e] = IF e \in unanswered \/ e \notin DOMAIN ColumnsOf THEN <<>> ELSE ColumnsOf[e]
    BY <2>1
  <2>3. ColumnsOK(<<>>)
    BY OneElement DEF ColumnsOK
  <2>4. e \in DOMAIN ColumnsOf => ColumnsOK(ColumnsOf[e])
    BY ColumnsAssumption DEF ColumnsOK
  <2> HIDE DEF columns, e
  <2>5. ColumnsOK(columns[e])
    BY <2>2, <2>3, <2>4
  <2> QED
    BY <2>5 DEF e
<1> HIDE DEF columns
<1>6. plans' = buildCrudPlans(inputs, columns)
  BY <1>1 DEF columns
<1> QED
  BY <1>4, <1>5, <1>6, BuildIs DEF PlansOK

-------------------------------------------------------------------------------
(* What the database said of the steps. *)

CrudStages == {"create", "created", "update", "updated", "delete", "deleted"}

StepsBehind == UNION {ToSet(results[i]) : i \in DOMAIN results}
AllSteps    == StepsBehind \cup ToSet(steps)

\* What the history says of a step that was looked up, of an entry for it.
Agrees(s, v) ==
    ~v.disturbed /\ ~v.aside =>
        IF s.ok THEN v.effect \/ v.before ELSE ~v.effect \/ v.blind

\* An entry of the history is about a step.
About(s, v) ==
    /\ v.route = s.route
    /\ s.dbProbed <=> v.looked
    /\ s.dbProbed => Agrees(s, v)

\* The history knows every step by its request, and nothing else.
AllTold(set, t) ==
    /\ \A s \in set : s.request \in DOMAIN t /\ About(s, t[s.request])
    /\ \A n \in DOMAIN t : \E s \in set : s.request = n

\* Steps are in the order of their requests.
Ascend(s) == \A i, j \in DOMAIN s : i < j => s[i].request < s[j].request

Precede(r, s) == \A a \in ToSet(r), b \in ToSet(s) : a.request < b.request

OrderOK ==
    /\ \A s \in AllSteps : s.request \in Nat
    /\ Ascend(steps)
    /\ \A i \in DOMAIN results : Ascend(results[i]) /\ Precede(results[i], steps)
    /\ \A i, j \in DOMAIN results : i < j => Precede(results[i], results[j])

\* There is an entity from its create to its delete, and steps only in between.
StagesInv ==
    /\ pc \notin CrudStages => plans = <<>> /\ steps = <<>>
    /\ pc \in CrudStages => kind = "crud"
    /\ pc \in CrudStages \ {"create"} => plans # <<>>
    /\ pc = "create" => steps = <<>>

RowOK(r) ==
    /\ DOMAIN r = {"table", "id", "cells"}
    /\ \A name \in IdNames : name \in DOMAIN r.cells /\ r.cells[name] = <<r.id>>

RowsOK == \A r \in db : RowOK(r)

DoingFields == {"id", "request", "effect", "before", "aside", "disturbed"}

\* What is remembered of a request is what its question will find, unless
\* somebody else has been there or the id is looked up in another column.
DoingInv ==
    /\ DOMAIN doing = DoingFields /\ AtMostOne(doing.id)
    /\ pc \in {"updated", "delete", "deleted"} => doing.id # <<>>
    /\ pc # "deleted" => ~doing.aside
    /\ pc = "created" =>
          /\ plans[1].first # <<>>
          /\ ~doing.disturbed =>
                (Has(db, plans[1].table, plans[1].first[1].name, placeholderValue(plans[1].first[1]))
                    <=> doing.effect \/ doing.before)
    /\ pc = "updated" =>
          /\ plans[1].update # <<>>
          /\ ~doing.disturbed =>
                (Has(db, plans[1].table, plans[1].column[1].name, NewValue)
                    <=> doing.effect \/ doing.before)
    /\ pc = "deleted" =>
          /\ plans[1].delete # <<>>
          /\ ~doing.disturbed /\ ~doing.aside =>
                (Has(db, plans[1].table, plans[1].idColumn, doing.id) <=> ~doing.effect)

SequencesOK ==
    IsSequence(steps) /\ IsSequence(results) /\ \A i \in DOMAIN results : IsSequence(results[i])

StepsInv == PlansOK /\ SequencesOK /\ AllTold(AllSteps, truth) /\ OrderOK

InQuestion == {"created", "updated", "deleted"}

\* The steps of a crud are requests of this run, and the one that is looked up is
\* after all of them.
NumbersInv ==
    /\ kind = "crud" => \A s \in AllSteps : s.request <= Len(requests)
    /\ pc \in InQuestion =>
          /\ doing.request \in 1..Len(requests)
          /\ \A s \in AllSteps : s.request < doing.request

LEMMA EmptySequence == IsSequence(<<>>) /\ DOMAIN <<>> = {} /\ ToSet(<<>>) = {}
<1>1. <<>> \in Seq({})
  OBVIOUS
<1> QED
  BY <1>1 DEF IsSequence, ToSet

LEMMA TailFacts ==
    ASSUME NEW s, IsSequence(s), s # <<>>, NEW t, t = Tail(s)
    PROVE  /\ IsSequence(t) /\ 1 \in DOMAIN s
           /\ \A i \in DOMAIN t : i + 1 \in DOMAIN s /\ i + 1 # 1 /\ t[i] = s[i + 1] /\ i \in Nat
<1>1. PICK S : s \in Seq(S)
  BY DEF IsSequence
<1>2. t \in Seq(S) /\ Len(s) \in Nat /\ Len(s) # 0
  BY <1>1
<1>3. IsSequence(t)
  BY <1>2 DEF IsSequence
<1>4. Len(t) = Len(s) - 1 /\ \A i \in 1..Len(t) : t[i] = s[i + 1]
  BY <1>1, <1>2
<1>5. DOMAIN s = 1..Len(s) /\ DOMAIN t = 1..Len(t)
  BY <1>1, <1>2
<1> QED
  BY <1>2, <1>3, <1>4, <1>5

LEMMA SetOfAppend ==
    ASSUME NEW s, IsSequence(s), NEW x, NEW t, t = Append(s, x)
    PROVE  IsSequence(t) /\ ToSet(t) = ToSet(s) \cup {x}
<1>1. Len(s) \in Nat /\ DOMAIN s = 1..Len(s)
  BY SequenceFacts
<1>2. IsSequence(t)
  BY AppendFacts
<1>3. DOMAIN t = 1..Len(s) + 1
  BY AppendFacts
<1>4. \A i \in 1..Len(s) : t[i] = s[i]
  BY AppendFacts
<1>5. t[Len(s) + 1] = x
  BY AppendFacts
<1>6. DOMAIN t = DOMAIN s \cup {Len(s) + 1}
  BY <1>1, <1>3
<1>7. ToSet(t) = ToSet(s) \cup {x}
  BY <1>1, <1>4, <1>5, <1>6 DEF ToSet
<1> QED
  BY <1>2, <1>7

\* Whether the entity goes on or is behind us, its steps are kept, in order.
LEMMA StepsGo ==
    ASSUME SequencesOK, NEW all, IsSequence(all), NEW stage, Proceed(all, stage) \/ EndPlan(all)
    PROVE  /\ SequencesOK' /\ AllSteps' = StepsBehind \cup ToSet(all)
           /\ /\ \A s \in AllSteps' : s.request \in Nat
              /\ Ascend(all)
              /\ \A i \in DOMAIN results : Ascend(results[i]) /\ Precede(results[i], all)
              /\ \A i, j \in DOMAIN results : i < j => Precede(results[i], results[j])
              => OrderOK'
<1>1. CASE Proceed(all, stage)
  <2>1. steps' = all /\ results' = results
    BY <1>1 DEF Proceed
  <2> QED
    BY <2>1 DEF SequencesOK, AllSteps, StepsBehind, OrderOK
<1>2. CASE EndPlan(all)
  <2>1. results' = Append(results, all) /\ steps' = <<>>
    BY <1>2 DEF EndPlan
  <2>2. PICK L : L = Len(results) /\ L \in Nat /\ DOMAIN results = 1..L
    BY SequenceFacts DEF SequencesOK
  <2>3. IsSequence(results')
    BY <2>1, AppendFacts DEF SequencesOK
  <2>4. DOMAIN results' = 1..L + 1
    BY <2>1, <2>2, AppendFacts DEF SequencesOK
  <2>5. \A i \in 1..L : results'[i] = results[i]
    BY <2>1, <2>2, AppendFacts DEF SequencesOK
  <2>6. results'[L + 1] = all
    BY <2>1, <2>2, AppendFacts DEF SequencesOK
  <2>7. DOMAIN results' = DOMAIN results \cup {L + 1}
    BY <2>2, <2>4
  <2>8. \A i \in DOMAIN results' : IsSequence(results'[i])
    BY <2>2, <2>5, <2>6, <2>7 DEF SequencesOK
  <2>9. StepsBehind' = StepsBehind \cup ToSet(all)
    BY <2>2, <2>5, <2>6, <2>7 DEF StepsBehind
  <2>10. SequencesOK' /\ AllSteps' = StepsBehind \cup ToSet(all)
    BY <2>1, <2>3, <2>8, <2>9, EmptySequence DEF SequencesOK, AllSteps
  <2>11. ASSUME \A s \in AllSteps' : s.request \in Nat,
                Ascend(all),
                \A i \in DOMAIN results : Ascend(results[i]) /\ Precede(results[i], all),
                \A i, j \in DOMAIN results : i < j => Precede(results[i], results[j])
         PROVE  OrderOK'
    <3>1. Ascend(steps') /\ \A r : Precede(r, steps')
      BY <2>1, EmptySequence DEF Ascend, Precede
    <3>2. \A i \in DOMAIN results' : Ascend(results'[i])
      BY <2>2, <2>5, <2>6, <2>7, <2>11
    <3>3. ASSUME NEW i \in DOMAIN results', NEW j \in DOMAIN results', i < j
          PROVE  Precede(results'[i], results'[j])
      <4>1. i \in 1..L /\ results'[i] = results[i]
        BY <2>2, <2>4, <2>5, <3>3
      <4>2. CASE j = L + 1
        BY <2>2, <2>6, <2>11, <4>1, <4>2
      <4>3. CASE j \in 1..L
        BY <2>2, <2>5, <2>11, <3>3, <4>1, <4>3
      <4> QED
        BY <2>2, <2>7, <4>2, <4>3
    <3> QED
      BY <2>11, <3>1, <3>2, <3>3 DEF OrderOK
  <2> QED
    BY <2>10, <2>11
<1> QED
  BY <1>1, <1>2

\* A later step is told, and the history goes on telling the others.
LEMMA ToldWith ==
    ASSUME NEW A, NEW t, AllTold(A, t), NEW s, \A a \in A : a.request # s.request,
           NEW v, About(s, v), NEW u, u = Put(t, s.request, v)
    PROVE  AllTold(A \cup {s}, u)
<1>1. /\ DOMAIN u = DOMAIN t \cup {s.request} /\ u[s.request] = v
      /\ \A k \in DOMAIN t : k # s.request => u[k] = t[k]
  BY DEF Put
<1>2. ASSUME NEW a \in A PROVE a.request \in DOMAIN u /\ About(a, u[a.request])
  <2>1. a.request # s.request /\ a.request \in DOMAIN t /\ About(a, t[a.request])
    BY DEF AllTold
  <2>2. a.request \in DOMAIN u /\ u[a.request] = t[a.request]
    BY <1>1, <2>1
  <2> QED
    BY <2>1, <2>2
<1>3. \A k \in DOMAIN u : \E a \in A \cup {s} : a.request = k
  BY <1>1 DEF AllTold
<1> QED
  BY <1>1, <1>2, <1>3 DEF AllTold

LEMMA PlansGo ==
    ASSUME PlansOK, plans # <<>>
    PROVE  /\ PlanShape(plans[1])
           /\ plans' = plans \/ plans' = Tail(plans) => PlansOK'
<1>1. 1 \in DOMAIN plans
  BY TailFacts DEF PlansOK
<1>2. ASSUME plans' = Tail(plans) PROVE PlansOK'
  <2>1. /\ IsSequence(plans')
        /\ \A i \in DOMAIN plans' : i + 1 \in DOMAIN plans /\ plans'[i] = plans[i + 1]
    BY <1>2, TailFacts DEF PlansOK
  <2> QED
    BY <2>1 DEF PlansOK
<1> QED
  BY <1>1, <1>2 DEF PlansOK

\* No step is added.
LEMMA NoStep ==
    ASSUME StepsInv, plans # <<>>, truth' = truth, NEW stage, Proceed(steps, stage) \/ EndPlan(steps)
    PROVE  StepsInv' /\ AllSteps' = AllSteps
<1>1. SequencesOK' /\ AllSteps' = AllSteps
  BY StepsGo DEF StepsInv, SequencesOK, AllSteps
<1>2. OrderOK'
  BY <1>1, StepsGo DEF StepsInv, SequencesOK, OrderOK
<1>3. PlansOK'
  BY PlansGo DEF StepsInv, Proceed, EndPlan
<1> QED
  BY <1>1, <1>2, <1>3 DEF StepsInv

\* A step is made and remembered, of the request n.
Made(s, n, stage) ==
    /\ s.request = n
    /\ \E v : About(s, v) /\ truth' = Put(truth, n, v)
    /\ Proceed(Append(steps, s), stage) \/ EndPlan(Append(steps, s))

\* A step is added, of a request after all others.
LEMMA OneStep ==
    ASSUME StepsInv, plans # <<>>, NEW n \in Nat, \A a \in AllSteps : a.request < n,
           NEW stage, NEW s, Made(s, n, stage)
    PROVE  StepsInv' /\ AllSteps' = AllSteps \cup {s} /\ s.request = n
<1>0. PICK all : all = Append(steps, s)
  OBVIOUS
<1>1. IsSequence(all) /\ ToSet(all) = ToSet(steps) \cup {s}
  BY <1>0, SetOfAppend DEF StepsInv, SequencesOK
<1>2. SequencesOK /\ (Proceed(all, stage) \/ EndPlan(all))
  BY <1>0 DEF Made, StepsInv
<1>3. SequencesOK' /\ AllSteps' = AllSteps \cup {s}
  <2>1. SequencesOK' /\ AllSteps' = StepsBehind \cup ToSet(all)
    BY <1>1, <1>2, StepsGo
  <2> QED
    BY <1>1, <2>1 DEF AllSteps
<1>4. s.request = n /\ \A a \in AllSteps : a.request \in Nat /\ a.request < n
  BY DEF Made, StepsInv, OrderOK
<1>5. Ascend(all)
  <2>1. PICK L : L = Len(steps) /\ L \in Nat /\ DOMAIN steps = 1..L
    BY SequenceFacts DEF StepsInv, SequencesOK
  <2>2. DOMAIN all = 1..L + 1
    BY <1>0, <2>1, AppendFacts DEF StepsInv, SequencesOK
  <2>3. \A i \in 1..L : all[i] = steps[i]
    BY <1>0, <2>1, AppendFacts DEF StepsInv, SequencesOK
  <2>4. all[L + 1] = s
    BY <1>0, <2>1, AppendFacts DEF StepsInv, SequencesOK
  <2>5. \A i \in 1..L : steps[i].request < n
    BY <1>4, <2>1 DEF AllSteps, ToSet
  <2>6. ASSUME NEW i \in 1..L + 1, NEW j \in 1..L + 1, i < j PROVE all[i].request < all[j].request
    <3>1. i \in 1..L
      BY <2>1, <2>6
    <3>2. CASE j = L + 1
      BY <1>4, <2>3, <2>4, <2>5, <3>1, <3>2
    <3>3. CASE j \in 1..L
      <4>1. steps[i].request < steps[j].request
        BY <2>1, <2>6, <3>1, <3>3 DEF StepsInv, OrderOK, Ascend
      <4> QED
        BY <2>3, <3>1, <3>3, <4>1
    <3> QED
      BY <2>1, <3>2, <3>3
  <2> QED
    BY <2>2, <2>6 DEF Ascend
<1>6. ASSUME NEW i \in DOMAIN results PROVE Precede(results[i], all)
  <2>1. Precede(results[i], steps)
    BY DEF StepsInv, OrderOK
  <2>2. \A a \in ToSet(results[i]) : a.request < n
    BY <1>4 DEF AllSteps, StepsBehind
  <2> QED
    BY <1>1, <1>4, <2>1, <2>2 DEF Precede
<1>7. OrderOK'
  <2>1. /\ \A i \in DOMAIN results : Ascend(results[i])
        /\ \A i, j \in DOMAIN results : i < j => Precede(results[i], results[j])
    BY DEF StepsInv, OrderOK
  <2>2. \A a \in AllSteps' : a.request \in Nat
    BY <1>3, <1>4
  <2> QED
    BY <1>1, <1>2, <1>5, <1>6, <2>1, <2>2, StepsGo
<1>8. AllTold(AllSteps', truth')
  <2>1. PICK v : About(s, v) /\ truth' = Put(truth, s.request, v)
    BY <1>4 DEF Made
  <2>2. \A a \in AllSteps : a.request # s.request
    BY <1>4
  <2>3. AllTold(AllSteps, truth)
    BY DEF StepsInv
  <2> QED
    BY <1>3, <2>1, <2>2, <2>3, ToldWith
<1>9. PlansOK'
  <2>1. plans' = plans \/ plans' = Tail(plans)
    BY <1>2 DEF Proceed, EndPlan
  <2> QED
    BY <2>1, PlansGo DEF StepsInv
<1> QED
  BY <1>3, <1>4, <1>7, <1>8, <1>9 DEF StepsInv

\* A step that nobody looks up.
LEMMA Unlooked ==
    ASSUME NEW route, NEW ok, NEW stage, NotLooked(route), NEW s,
           s = Step(NextRequest, route, ok, FALSE, <<>>),
           Proceed(Append(steps, s), stage) \/ EndPlan(Append(steps, s))
    PROVE  Made(s, NextRequest, stage)
<1> DEFINE v == [route |-> RouteKey(route), looked |-> FALSE]
<1>1. s.request = NextRequest /\ s.route = RouteKey(route) /\ s.dbProbed = FALSE
  BY DEF Step
<1>2. truth' = Put(truth, NextRequest, v)
  BY DEF NotLooked
<1>3. About(s, v)
  BY <1>1 DEF About
<1> QED
  BY <1>1, <1>2, <1>3 DEF Made

\* The answer of the database is right about what is remembered of the request.
LEMMA FoundAgrees ==
    ASSUME NEW route, NEW failed, Found(route, failed), NEW stage, NEW s,
           s.request = doing.request, s.route = RouteKey(route), s.dbProbed,
           ~doing.disturbed /\ ~doing.aside =>
               IF s.ok THEN doing.effect \/ doing.before ELSE ~doing.effect \/ failed,
           Proceed(Append(steps, s), stage) \/ EndPlan(Append(steps, s))
    PROVE  Made(s, doing.request, stage)
<1> DEFINE v == [route |-> RouteKey(route), looked |-> TRUE, effect |-> doing.effect,
                 before |-> doing.before, aside |-> doing.aside,
                 disturbed |-> doing.disturbed, blind |-> failed]
<1>1. truth' = Put(truth, doing.request, v)
  BY DEF Found
<1>2. /\ v.route = RouteKey(route) /\ v.looked = TRUE
      /\ v.effect = doing.effect /\ v.before = doing.before /\ v.aside = doing.aside
      /\ v.disturbed = doing.disturbed /\ v.blind = failed
  OBVIOUS
<1> HIDE DEF v
<1>3. About(s, v)
  BY <1>2 DEF About, Agrees
<1> QED
  BY <1>1, <1>3 DEF Made

\* What an action may do to the steps: none, or one of the request n.
StepsTo(n) ==
    /\ StepsInv'
    /\ \/ AllSteps' = AllSteps
       \/ pc' \notin InQuestion /\ \E s : AllSteps' = AllSteps \cup {s} /\ s.request = n

\* The next request comes after those of all steps.
LEMMA NextIsLast ==
    ASSUME StepsInv, StagesInv, NumbersInv, pc \in CrudStages, Len(requests) \in Nat
    PROVE  NextRequest \in Nat /\ \A a \in AllSteps : a.request < NextRequest
<1>1. \A a \in AllSteps : a.request \in Nat /\ a.request <= Len(requests)
  BY DEF StepsInv, OrderOK, StagesInv, NumbersInv
<1> QED
  BY <1>1 DEF NextRequest

\* One step, of the next request or the one in question.
LEMMA StepMade ==
    ASSUME StepsInv, plans # <<>>, NEW n \in Nat, \A a \in AllSteps : a.request < n,
           NEW stage, stage \notin InQuestion, NEW s, Made(s, n, stage)
    PROVE  StepsTo(n)
<1>1. StepsInv' /\ AllSteps' = AllSteps \cup {s} /\ s.request = n
  BY OneStep
<1>2. pc' \notin InQuestion
  BY DEF Made, Proceed, EndPlan, InQuestion
<1> QED
  BY <1>1, <1>2 DEF StepsTo

LEMMA StepsOfCreate ==
    ASSUME StepsInv, StagesInv, NumbersInv, Len(requests) \in Nat, Create
    PROVE  StepsTo(NextRequest)
<1>1. pc = "create" /\ plans # <<>>
  BY DEF Create
<1>2. PICK n : n = NextRequest /\ n \in Nat /\ \A a \in AllSteps : a.request < n
  BY <1>1, NextIsLast DEF CrudStages
<1>3. \/ (EndPlan(steps) \/ Proceed(steps, "created")) /\ truth' = truth
      \/ /\ NotLooked(plan.create)
         /\ \E ok : LET s == Step(NextRequest, plan.create, ok, FALSE, <<>>)
                    IN EndPlan(Append(steps, s)) \/ Proceed(Append(steps, s), "update")
  BY DEF Create
<1>4. CASE (EndPlan(steps) \/ Proceed(steps, "created")) /\ truth' = truth
  BY <1>1, <1>4, NoStep DEF StepsTo
<1>5. ASSUME NEW ok, NEW s, s = Step(NextRequest, plan.create, ok, FALSE, <<>>),
             NotLooked(plan.create), EndPlan(Append(steps, s)) \/ Proceed(Append(steps, s), "update")
      PROVE  StepsTo(NextRequest)
  <2>1. Made(s, n, "update")
    BY <1>2, <1>5, Unlooked
  <2> QED
    BY <1>1, <1>2, <2>1, StepMade DEF InQuestion
<1> QED
  BY <1>3, <1>4, <1>5

LEMMA StepsOfUpdate ==
    ASSUME StepsInv, StagesInv, NumbersInv, Len(requests) \in Nat, SkipUpdate \/ Update
    PROVE  StepsTo(NextRequest)
<1>1. pc = "update" /\ plans # <<>>
  BY DEF SkipUpdate, Update, StagesInv, CrudStages
<1>2. PICK n : n = NextRequest /\ n \in Nat /\ \A a \in AllSteps : a.request < n
  BY SMTT(30), <1>1, NextIsLast DEF CrudStages
<1>3. \/ /\ EndPlan(steps) \/ Proceed(steps, "delete") \/ Proceed(steps, "updated")
         /\ truth' = truth
      \/ /\ NotLooked(plan.update[1])
         /\ Proceed(Append(steps, Step(NextRequest, plan.update[1], FALSE, FALSE, <<>>)), "delete")
  BY DEF SkipUpdate, Update
<1>4. CASE /\ EndPlan(steps) \/ Proceed(steps, "delete") \/ Proceed(steps, "updated")
           /\ truth' = truth
  BY <1>1, <1>4, NoStep DEF StepsTo
<1>5. CASE /\ NotLooked(plan.update[1])
           /\ Proceed(Append(steps, Step(NextRequest, plan.update[1], FALSE, FALSE, <<>>)), "delete")
  <2>1. PICK s : s = Step(NextRequest, plan.update[1], FALSE, FALSE, <<>>)
    OBVIOUS
  <2>2. Made(s, n, "delete")
    BY <1>2, <1>5, <2>1, Unlooked
  <2> QED
    BY <1>1, <1>2, <2>2, StepMade DEF InQuestion
<1> QED
  BY <1>3, <1>4, <1>5

LEMMA StepsOfDelete ==
    ASSUME StepsInv, StagesInv, NumbersInv, Len(requests) \in Nat, SkipDelete \/ Delete
    PROVE  StepsTo(NextRequest)
<1>1. pc = "delete" /\ plans # <<>>
  BY DEF SkipDelete, Delete, StagesInv, CrudStages
<1>2. PICK n : n = NextRequest /\ n \in Nat /\ \A a \in AllSteps : a.request < n
  BY <1>1, NextIsLast DEF CrudStages
<1>3. \/ (EndPlan(steps) \/ Proceed(steps, "deleted")) /\ truth' = truth
      \/ /\ NotLooked(plan.delete[1])
         /\ EndPlan(Append(steps, Step(NextRequest, plan.delete[1], FALSE, FALSE, <<>>)))
  BY DEF SkipDelete, Delete
<1>4. CASE (EndPlan(steps) \/ Proceed(steps, "deleted")) /\ truth' = truth
  BY <1>1, <1>4, NoStep DEF StepsTo
<1>5. CASE /\ NotLooked(plan.delete[1])
           /\ EndPlan(Append(steps, Step(NextRequest, plan.delete[1], FALSE, FALSE, <<>>)))
  <2>1. PICK s : s = Step(NextRequest, plan.delete[1], FALSE, FALSE, <<>>)
    OBVIOUS
  <2>2. Made(s, n, "create")
    BY <1>2, <1>5, <2>1, Unlooked
  <2> QED
    BY <1>1, <1>2, <2>2, StepMade DEF InQuestion
<1> QED
  BY <1>3, <1>4, <1>5

\* The request in question comes after those of all steps.
LEMMA QuestionIsLast ==
    ASSUME NumbersInv, pc \in InQuestion, Len(requests) \in Nat
    PROVE  doing.request \in Nat /\ \A a \in AllSteps : a.request < doing.request
BY DEF NumbersInv

LEMMA StepsOfProbeCreate ==
    ASSUME StepsInv, StagesInv, NumbersInv, Len(requests) \in Nat, DoingInv, ProbeCreate
    PROVE  StepsTo(doing.request)
<1>1. PICK p : p = plan /\ p = plans[1] /\ pc = "created" /\ plans # <<>>
  BY DEF plan, ProbeCreate, StagesInv, CrudStages
<1>2. PICK failed, s :
         /\ s.ok <=> wasValueSaved(p.table, p.first[1].name, placeholderValue(p.first[1]), failed)
         /\ s.request = doing.request /\ s.dbProbed /\ s.route = RouteKey(p.create)
         /\ Found(p.create, failed) /\ Proceed(Append(steps, s), "update")
  BY <1>1 DEF ProbeCreate, Step
<1>3. ~doing.disturbed => (Has(db, p.table, p.first[1].name, placeholderValue(p.first[1]))
                              <=> doing.effect \/ doing.before)
  BY <1>1 DEF DoingInv
<1>4. ~doing.disturbed /\ ~doing.aside =>
         IF s.ok THEN doing.effect \/ doing.before ELSE ~doing.effect \/ failed
  BY <1>2, <1>3 DEF wasValueSaved
<1>5. Made(s, doing.request, "update")
  BY <1>2, <1>4, FoundAgrees
<1> QED
  BY <1>1, <1>5, QuestionIsLast, StepMade DEF InQuestion

LEMMA StepsOfProbeUpdate ==
    ASSUME StepsInv, StagesInv, NumbersInv, Len(requests) \in Nat, DoingInv, ProbeUpdate
    PROVE  StepsTo(doing.request)
<1>1. PICK p : p = plan /\ p = plans[1] /\ pc = "updated" /\ plans # <<>>
  BY DEF plan, ProbeUpdate, StagesInv, CrudStages
<1>2. PICK failed, s :
         /\ s.ok <=> wasValueSaved(p.table, p.column[1].name, NewValue, failed)
         /\ s.request = doing.request /\ s.dbProbed /\ s.route = RouteKey(p.update[1])
         /\ Found(p.update[1], failed) /\ Proceed(Append(steps, s), "delete")
  BY <1>1 DEF ProbeUpdate, Step
<1>3. ~doing.disturbed => (Has(db, p.table, p.column[1].name, NewValue)
                              <=> doing.effect \/ doing.before)
  BY <1>1 DEF DoingInv
<1>4. ~doing.disturbed /\ ~doing.aside =>
         IF s.ok THEN doing.effect \/ doing.before ELSE ~doing.effect \/ failed
  BY <1>2, <1>3 DEF wasValueSaved
<1>5. Made(s, doing.request, "delete")
  BY <1>2, <1>4, FoundAgrees
<1> QED
  BY <1>1, <1>5, QuestionIsLast, StepMade DEF InQuestion

LEMMA StepsOfProbeDelete ==
    ASSUME StepsInv, StagesInv, NumbersInv, Len(requests) \in Nat, DoingInv, ProbeDelete
    PROVE  StepsTo(doing.request)
<1>1. PICK p : p = plan /\ p = plans[1] /\ pc = "deleted" /\ plans # <<>>
  BY DEF plan, ProbeDelete, StagesInv, CrudStages
<1>2. PICK failed, s :
         /\ s.ok <=> wasValueAbsent(p.table, p.idColumn, doing.id, failed)
         /\ s.request = doing.request /\ s.dbProbed /\ s.route = RouteKey(p.delete[1])
         /\ Found(p.delete[1], failed) /\ EndPlan(Append(steps, s))
  BY <1>1 DEF ProbeDelete, Step
<1>3. ~doing.disturbed /\ ~doing.aside =>
         (Has(db, p.table, p.idColumn, doing.id) <=> ~doing.effect)
  BY <1>1 DEF DoingInv
<1>4. ~doing.disturbed /\ ~doing.aside =>
         IF s.ok THEN doing.effect \/ doing.before ELSE ~doing.effect \/ failed
  BY <1>2, <1>3 DEF wasValueAbsent
<1>5. Made(s, doing.request, "create")
  BY <1>2, <1>4, FoundAgrees
<1> QED
  BY <1>1, <1>5, QuestionIsLast, StepMade DEF InQuestion

VerdictsInv == StepsInv /\ StagesInv /\ RowsOK /\ DoingInv /\ NumbersInv

\* The rows of the application have their id in every column that is called id.
LEMMA NextRowOK ==
    ASSUME NEW table, NEW cells, NEW row, row = NextRow(table, cells)
    PROVE  /\ RowOK(row) /\ row.table = table
           /\ \A name \in DOMAIN cells \ IdNames :
                 name \in DOMAIN row.cells /\ row.cells[name] = cells[name]
BY DEF NextRow, Row, RowOK

LEMMA RowsAction ==
    ASSUME RowsOK, StepsInv, StagesInv, Next
    PROVE  RowsOK'
<1>1. CASE \/ \E job \in Jobs : StartExplore(job) \/ StartCrud(job)
           \/ SkipCase \/ Judge \/ EndExplore \/ ProbeCreate \/ SkipUpdate \/ ProbeUpdate
           \/ SkipDelete \/ ProbeDelete \/ Publish \/ CloseBrowser \/ End \/ Die \/ Record
  <2>1. db' = db
    BY <1>1 DEF StartExplore, StartCrud, Begin, SkipCase, Judge, EndExplore, ProbeCreate, SkipUpdate,
                ProbeUpdate, SkipDelete, ProbeDelete, Publish, CloseBrowser, End, Die, Record, dbVars
  <2> QED
    BY SMTT(30), <2>1 DEF RowsOK
<1>2. ASSUME NEW table, NEW cells, NEW row, row = NextRow(table, cells), db' = db \/ db' = db \cup {row}
      PROVE  RowsOK'
  <2>1. RowOK(row)
    BY <1>2, NextRowOK
  <2> QED
    BY <1>2, <2>1 DEF RowsOK
<1>3. CASE RunCase
  <2>1. \E c : db' = db \/ db' = db \cup {Submitted(c)}
    BY <1>3 DEF RunCase, dbVars
  <2>2. \A c : \E table, cells : Submitted(c) = NextRow(table, cells)
    BY DEF Submitted
  <2>3. PICK table, cells : db' = db \/ db' = db \cup {NextRow(table, cells)}
    BY <2>1, <2>2
  <2> QED
    BY <1>2, <2>3
<1>4. CASE Create
  <2>1. \E table, cells : db' = db \/ db' = db \cup {NextRow(table, cells)}
    BY <1>4 DEF Create, Request
  <2>2. PICK table, cells : db' = db \/ db' = db \cup {NextRow(table, cells)}
    BY <2>1
  <2> QED
    BY <1>2, <2>2
<1>5. CASE Update
  <2>1. PICK old, new :
           /\ old \subseteq db
           /\ new = {[r EXCEPT !.cells = Put(@, plan.column[1].name, NewValue)] : r \in old}
           /\ db' = db \/ db' = (db \ old) \cup new
           /\ plan.update # <<>>
    BY <1>5 DEF Update, Request, OfId
  <2>2. plan.column[1].name \notin IdNames
    <3>1. PlanShape(plans[1])
      BY <1>5, PlansGo DEF StepsInv, StagesInv, Update, CrudStages
    <3> QED
      BY <2>1, <3>1 DEF PlanShape, plan
  <2>3. ASSUME NEW r \in old PROVE RowOK([r EXCEPT !.cells = Put(@, plan.column[1].name, NewValue)])
    <3>1. PICK q, column, value : /\ q = [r EXCEPT !.cells = Put(@, column, value)]
                                  /\ column = plan.column[1].name /\ value = NewValue
      OBVIOUS
    <3>2. RowOK(r)
      BY <2>1 DEF RowsOK
    <3>3. DOMAIN q = {"table", "id", "cells"} /\ q.id = r.id /\ q.cells = Put(r.cells, column, value)
      BY <3>1, <3>2 DEF RowOK
    <3>4. RowOK(q)
      BY <2>2, <3>1, <3>2, <3>3 DEF RowOK, Put
    <3> QED
      BY <3>1, <3>4
  <2> QED
    BY <2>1, <2>3 DEF RowsOK
<1>6. CASE Delete
  <2>1. db' \subseteq db
    BY <1>6 DEF Delete, Request
  <2> QED
    BY <2>1 DEF RowsOK
<1>7. CASE Elsewhere
  <2>1. db' \subseteq db \/ \E table, cells : db' = db \cup {NextRow(table, cells)}
    BY <1>7 DEF Elsewhere
  <2>2. CASE db' \subseteq db
    BY <2>2 DEF RowsOK
  <2>3. CASE \E table, cells : db' = db \cup {NextRow(table, cells)}
    <3>1. PICK table, cells : db' = db \cup {NextRow(table, cells)}
      BY <2>3
    <3> QED
      BY <1>2, <3>1
  <2> QED
    BY <2>1, <2>2, <2>3
<1> QED
  BY <1>1, <1>3, <1>4, <1>5, <1>6, <1>7 DEF Next

\* What is sent of the first column, and what is stored instead of it.
LEMMA SentIs ==
    ASSUME NEW p, p = plan, PlanShape(p), p.first # <<>>, NEW c, c = p.first[1], NEW row
    PROVE  /\ row = NextRow(p.table, BodyCells) =>
                 Has({row}, p.table, c.name, placeholderValue(c))
           /\ row = NextRow(p.table, Altered(BodyCells)) =>
                 ~Has({row}, p.table, c.name, placeholderValue(c))
<1>1. c \in p.body /\ c.name \notin IdNames /\ \A d \in p.body : d.name = c.name => d = c
  BY DEF PlanShape
<1>2. /\ DOMAIN BodyCells = {d.name : d \in p.body}
      /\ BodyCells[c.name] = placeholderValue(CHOOSE d \in p.body : d.name = c.name)
  BY <1>1 DEF BodyCells
<1>3. (CHOOSE d \in p.body : d.name = c.name) = c
  BY <1>1
<1>4. c.name \in DOMAIN BodyCells /\ BodyCells[c.name] = placeholderValue(c)
  BY <1>1, <1>2, <1>3
<1>5. c.name \in DOMAIN Altered(BodyCells) /\ Altered(BodyCells)[c.name] = <<"altered">>
  BY <1>4 DEF Altered
<1>6. placeholderValue(c) # <<"altered">>
  BY DEF placeholderValue
<1>7. ASSUME row = NextRow(p.table, BodyCells) PROVE Has({row}, p.table, c.name, placeholderValue(c))
  BY <1>1, <1>4, <1>7, NextRowOK DEF Has
<1>8. ASSUME row = NextRow(p.table, Altered(BodyCells))
      PROVE  ~Has({row}, p.table, c.name, placeholderValue(c))
  <2>1. PICK cells : cells = Altered(BodyCells)
    OBVIOUS
  <2>2. row.cells[c.name] = cells[c.name]
    BY <1>1, <1>5, <1>8, <2>1, NextRowOK
  <2>3. row.cells[c.name] # placeholderValue(c)
    BY <1>5, <1>6, <2>1, <2>2
  <2> QED
    BY <2>3 DEF Has
<1> QED
  BY <1>7, <1>8

LEMMA NothingIs ==
    DOMAIN Nothing = DoingFields /\ Nothing.id = <<>> /\ ~Nothing.aside
BY DEF Nothing, DoingFields

\* Nothing is remembered.
LEMMA DoingNothing ==
    ASSUME doing' = Nothing, pc' \notin {"created", "updated", "delete", "deleted"}
    PROVE  DoingInv'
BY NothingIs DEF DoingInv, AtMostOne

\* No question is open.
LEMMA DoingStays ==
    ASSUME DoingInv, doing' = doing, pc' \notin {"created", "updated", "deleted"},
           pc # "deleted", pc' = "delete" => doing.id # <<>>
    PROVE  DoingInv'
BY DEF DoingInv

LEMMA DoingOfCreate ==
    ASSUME StepsInv, DoingInv, Create
    PROVE  DoingInv'
<1>1. PICK p : p = plan /\ p = plans[1] /\ plans # <<>> /\ pc = "create"
  BY DEF Create, plan
<1>2. PlanShape(p)
  BY <1>1, PlansGo DEF StepsInv
<1>3. PICK status \in {"2xx", "4xx", "none"}, does \in {"stores", "alters", "nothing"},
        named \in BOOLEAN :
        LET sent == NextRow(plan.table, BodyCells)
            row  == IF does = "alters" THEN NextRow(plan.table, Altered(BodyCells)) ELSE sent
        IN /\ Request(plan.create, plan.create.path, status,
                      IF does = "nothing" THEN db ELSE db \cup {row},
                      IF does = "nothing" /\ ~named THEN 0 ELSE 1)
           /\ IF ~Accepts(status) THEN \E all : EndPlan(all)
              ELSE IF plan.first # <<>>
              THEN /\ Proceed(steps, "created")
                   /\ doing' = [id |-> IF named THEN <<RowIds[created + 1]>> ELSE <<>>,
                                request |-> NextRequest, effect |-> does = "stores",
                                before |-> Has(db, plan.table, plan.first[1].name,
                                               placeholderValue(plan.first[1])),
                                aside |-> FALSE, disturbed |-> FALSE]
              ELSE /\ \E all : Proceed(all, "update")
                   /\ doing' = [Nothing EXCEPT !.id = IF named THEN <<RowIds[created + 1]>>
                                                              ELSE <<>>]
  BY ZenonT(60) DEF Create
<1>4. db' = IF does = "nothing" THEN db
            ELSE db \cup {IF does = "alters" THEN NextRow(plan.table, Altered(BodyCells))
                          ELSE NextRow(plan.table, BodyCells)}
  BY <1>3 DEF Request
<1> DEFINE id == IF named THEN <<RowIds[created + 1]>> ELSE <<>>
<1>5. AtMostOne(id)
  BY OneElement DEF AtMostOne
<1> HIDE DEF id
<1>6. CASE ~Accepts(status)
  <2>1. doing' = Nothing /\ pc' = "create"
    BY <1>3, <1>6 DEF EndPlan
  <2> QED
    BY <2>1, DoingNothing
<1>7. CASE Accepts(status) /\ p.first = <<>>
  <2>1. pc' = "update" /\ doing' = [Nothing EXCEPT !.id = id]
    BY <1>1, <1>3, <1>7 DEF Proceed, id
  <2>2. DOMAIN doing' = DoingFields /\ doing'.id = id /\ doing'.aside = Nothing.aside
    BY <2>1, NothingIs DEF DoingFields
  <2> QED
    BY <1>5, <2>1, <2>2, NothingIs DEF DoingInv
<1>8. CASE Accepts(status) /\ p.first # <<>>
  <2>1. PICK c : c = p.first[1]
    OBVIOUS
  <2>2. /\ pc' = "created" /\ plans' = plans /\ p = plans'[1]
        /\ doing' = [id |-> id, request |-> NextRequest, effect |-> does = "stores",
                     before |-> Has(db, p.table, c.name, placeholderValue(c)),
                     aside |-> FALSE, disturbed |-> FALSE]
    BY <1>1, <1>3, <1>8, <2>1 DEF Proceed, id
  <2>3. /\ DOMAIN doing' = DoingFields /\ doing'.id = id /\ ~doing'.aside
        /\ doing'.effect <=> does = "stores"
        /\ doing'.before <=> Has(db, p.table, c.name, placeholderValue(c))
    BY <2>2 DEF DoingFields
  <2>4. Has(db', p.table, c.name, placeholderValue(c)) <=> doing'.effect \/ doing'.before
    <3>1. CASE does = "nothing"
      <4>1. db' = db
        BY <1>1, <1>4, <3>1
      <4> QED
        BY <2>3, <3>1, <4>1
    <3>2. CASE does = "alters"
      <4>1. PICK row : row = NextRow(p.table, Altered(BodyCells)) /\ db' = db \cup {row}
        BY <1>1, <1>4, <3>2
      <4>2. ~Has({row}, p.table, c.name, placeholderValue(c))
        BY <1>1, <1>2, <1>8, <2>1, <4>1, SentIs
      <4> QED
        BY <2>3, <3>2, <4>1, <4>2, HasUnion
    <3>3. CASE does = "stores"
      <4>1. PICK row : row = NextRow(p.table, BodyCells) /\ db' = db \cup {row}
        BY <1>1, <1>4, <3>3
      <4>2. Has({row}, p.table, c.name, placeholderValue(c))
        BY <1>1, <1>2, <1>8, <2>1, <4>1, SentIs
      <4> QED
        BY <2>3, <3>3, <4>1, <4>2, HasUnion
    <3> QED
      BY <3>1, <3>2, <3>3
  <2> QED
    BY <1>5, <1>8, <2>1, <2>2, <2>3, <2>4 DEF DoingInv
<1> QED
  BY <1>6, <1>7, <1>8

LEMMA DoingOfUpdate ==
    ASSUME StepsInv, DoingInv, RowsOK, plans # <<>>, Update
    PROVE  DoingInv'
<1>1. PICK p : p = plan /\ p = plans[1] /\ p.update # <<>> /\ pc = "update" /\ doing.id # <<>>
  BY DEF Update, plan
<1>2. PICK name, value : name = p.column[1].name /\ value = NewValue
  OBVIOUS
<1>0. PICK does \in BOOLEAN : \E old, new :
          /\ old = OfId(p.table, doing.id[1])
          /\ new = {[r EXCEPT !.cells = Put(@, name, value)] : r \in old}
          /\ does => old # {}
          /\ db' = IF does THEN (db \ old) \cup new ELSE db
          /\ \/ EndPlan(steps)
             \/ (\E all : Proceed(all, "delete")) /\ doing' = doing
             \/ /\ Proceed(steps, "updated")
                /\ doing' = [doing EXCEPT !.request = NextRequest, !.effect = does,
                                !.before = Has(db, p.table, name, value), !.disturbed = FALSE]
  BY ZenonT(60), <1>1, <1>2 DEF Update, Request
<1>3. PICK old, new :
          /\ old = OfId(p.table, doing.id[1])
          /\ new = {[r EXCEPT !.cells = Put(@, name, value)] : r \in old}
          /\ does => old # {}
          /\ db' = IF does THEN (db \ old) \cup new ELSE db
          /\ \/ EndPlan(steps)
             \/ (\E all : Proceed(all, "delete")) /\ doing' = doing
             \/ /\ Proceed(steps, "updated")
                /\ doing' = [doing EXCEPT !.request = NextRequest, !.effect = does,
                                !.before = Has(db, p.table, name, value), !.disturbed = FALSE]
  BY <1>0
<1>4. CASE EndPlan(steps)
  <2>1. doing' = Nothing /\ pc' = "create"
    BY <1>4 DEF EndPlan
  <2> QED
    BY <2>1, DoingNothing
<1>5. CASE (\E all : Proceed(all, "delete")) /\ doing' = doing
  <2>1. pc' = "delete"
    BY <1>5 DEF Proceed
  <2> QED
    BY <1>1, <1>5, <2>1, DoingStays
<1>6. CASE /\ Proceed(steps, "updated")
           /\ doing' = [doing EXCEPT !.request = NextRequest, !.effect = does,
                           !.before = Has(db, p.table, name, value), !.disturbed = FALSE]
  <2>1. pc' = "updated" /\ plans' = plans
    BY <1>6 DEF Proceed
  <2>2. DOMAIN doing = DoingFields /\ ~doing.aside /\ AtMostOne(doing.id)
    BY <1>1 DEF DoingInv
  <2>3. /\ DOMAIN doing' = DoingFields /\ doing'.id = doing.id /\ doing'.aside = doing.aside
        /\ doing'.effect <=> does
        /\ doing'.before <=> Has(db, p.table, name, value)
    BY <1>6, <2>2 DEF DoingFields
  <2>4. does => Has(db', p.table, name, value)
    <3> SUFFICES ASSUME does PROVE Has(db', p.table, name, value)
      OBVIOUS
    <3>1. PICK r \in old : TRUE
      BY <1>3
    <3>2. PICK q : q = [r EXCEPT !.cells = Put(@, name, value)]
      OBVIOUS
    <3>3. q \in db'
      BY <1>3, <3>2
    <3>4. RowOK(r) /\ r.table = p.table
      BY <1>3, <3>1 DEF OfId, RowsOK
    <3>5. q.table = p.table /\ q.cells = Put(r.cells, name, value)
      BY <3>2, <3>4 DEF RowOK
    <3>6. name \in DOMAIN q.cells /\ q.cells[name] = value
      BY <3>5 DEF Put
    <3> QED
      BY <3>3, <3>5, <3>6 DEF Has
  <2>5. Has(db', p.table, name, value) <=> doing'.effect \/ doing'.before
    <3>1. CASE does
      BY <2>3, <2>4, <3>1
    <3>2. CASE ~does
      <4>1. db' = db
        BY <1>3, <3>2
      <4> QED
        BY <2>3, <3>2, <4>1
    <3> QED
      BY <3>1, <3>2
  <2>6. NewValue' = value
    BY <1>2, <2>1 DEF NewValue, plan
  <2> QED
    BY <1>1, <1>2, <2>1, <2>2, <2>3, <2>5, <2>6 DEF DoingInv
<1> QED
  BY <1>3, <1>4, <1>5, <1>6

LEMMA DoingOfDelete ==
    ASSUME StepsInv, DoingInv, RowsOK, plans # <<>>, Delete
    PROVE  DoingInv'
<1>1. PICK p : p = plan /\ p = plans[1] /\ p.delete # <<>> /\ pc = "delete"
  BY DEF Delete, plan
<1>2. PICK id : doing.id = <<id>>
  BY <1>1 DEF DoingInv, AtMostOne
<1>0. PICK does \in BOOLEAN : \E old :
          /\ old = OfId(p.table, id)
          /\ db' = IF does THEN db \ old ELSE db
          /\ \/ \E all : EndPlan(all)
             \/ /\ Proceed(steps, "deleted")
                /\ doing' = [doing EXCEPT !.request = NextRequest, !.effect = does \/ old = {},
                                !.before = FALSE, !.aside = p.idColumn \notin IdNames,
                                !.disturbed = FALSE]
  <2>1. doing.id[1] = id
    BY <1>2
  <2> QED
    BY <1>1, <2>1 DEF Delete, Request
<1>3. PICK old :
          /\ old = OfId(p.table, id)
          /\ db' = IF does THEN db \ old ELSE db
          /\ \/ \E all : EndPlan(all)
             \/ /\ Proceed(steps, "deleted")
                /\ doing' = [doing EXCEPT !.request = NextRequest, !.effect = does \/ old = {},
                                !.before = FALSE, !.aside = p.idColumn \notin IdNames,
                                !.disturbed = FALSE]
  BY <1>0
<1>4. CASE \E all : EndPlan(all)
  <2>1. doing' = Nothing /\ pc' = "create"
    BY <1>4 DEF EndPlan
  <2> QED
    BY <2>1, DoingNothing
<1>5. CASE /\ Proceed(steps, "deleted")
           /\ doing' = [doing EXCEPT !.request = NextRequest, !.effect = does \/ old = {},
                           !.before = FALSE, !.aside = p.idColumn \notin IdNames,
                           !.disturbed = FALSE]
  <2>1. pc' = "deleted" /\ plans' = plans
    BY <1>5 DEF Proceed
  <2>2. DOMAIN doing = DoingFields /\ AtMostOne(doing.id)
    BY DEF DoingInv
  <2>3. /\ DOMAIN doing' = DoingFields /\ doing'.id = doing.id
        /\ doing'.aside <=> p.idColumn \notin IdNames
        /\ doing'.effect <=> does \/ old = {}
    BY <1>5, <2>2 DEF DoingFields
  <2>4. ASSUME p.idColumn \in IdNames
        PROVE  Has(db', p.table, p.idColumn, <<id>>) <=> ~doing'.effect
    <3>1. db' \subseteq db
      BY <1>3
    <3>2. \A r \in db : p.idColumn \in DOMAIN r.cells /\ r.cells[p.idColumn] = <<r.id>>
      BY <2>4 DEF RowsOK, RowOK
    <3>3. \A r \in db : r.cells[p.idColumn] = <<id>> <=> r.id = id
      BY <3>2
    <3>4. Has(db', p.table, p.idColumn, <<id>>) <=> \E r \in db' : r.table = p.table /\ r.id = id
      BY <3>1, <3>2, <3>3 DEF Has
    <3>5. CASE does
      BY <1>3, <2>3, <3>4, <3>5 DEF OfId
    <3>6. CASE ~does
      BY <1>3, <2>3, <3>4, <3>6 DEF OfId
    <3> QED
      BY <3>5, <3>6
  <2> QED
    BY <1>1, <1>2, <2>1, <2>2, <2>3, <2>4 DEF DoingInv
<1> QED
  BY <1>3, <1>4, <1>5

LEMMA DoingOfElsewhere ==
    ASSUME DoingInv, Elsewhere
    PROVE  DoingInv'
<1>1. doing' = [doing EXCEPT !.disturbed = TRUE] /\ pc' = pc /\ plans' = plans
  BY DEF Elsewhere
<1>2. DOMAIN doing = DoingFields
  BY DEF DoingInv
<1>3. /\ DOMAIN doing' = DoingFields /\ doing'.id = doing.id /\ doing'.aside = doing.aside
      /\ doing'.disturbed = TRUE
  BY <1>1, <1>2 DEF DoingFields
<1> QED
  BY <1>1, <1>3 DEF DoingInv

LEMMA DoingAction ==
    ASSUME VerdictsInv, Next
    PROVE  DoingInv'
<1>0. DoingInv /\ StepsInv /\ StagesInv /\ RowsOK
  BY DEF VerdictsInv
<1>1. CASE Create \/ Update \/ Delete \/ Elsewhere
  <2>1. Update \/ Delete => plans # <<>>
    BY <1>0 DEF Update, Delete, StagesInv, CrudStages
  <2> QED
    BY SMTT(30), <1>0, <1>1, <2>1, DoingOfCreate, DoingOfUpdate, DoingOfDelete, DoingOfElsewhere
<1>2. CASE \/ \E job \in Jobs : StartExplore(job)
           \/ SkipCase \/ RunCase \/ Judge \/ EndExplore \/ Publish \/ CloseBrowser \/ End
  <2>1. doing' = doing /\ pc \notin CrudStages \ {"create"}
    BY <1>2 DEF StartExplore, Begin, SkipCase, RunCase, Judge, EndExplore, Publish, CloseBrowser, End,
                crudVars, CrudStages
  <2>2. pc' \notin CrudStages
    BY <1>2 DEF StartExplore, Begin, SkipCase, RunCase, Judge, EndExplore, Publish, CloseBrowser, End,
                CrudStages
  <2> QED
    BY <1>0, <2>1, <2>2, DoingStays DEF CrudStages
<1>3. CASE \/ \E job \in Jobs : StartCrud(job)
           \/ SkipDelete \/ ProbeDelete \/ Die
  <2>1. doing' = Nothing /\ pc' \in {"create", "idle"}
    BY <1>3 DEF StartCrud, Begin, SkipDelete, ProbeDelete, Die, EndPlan
  <2> QED
    BY <2>1, DoingNothing
<1>4. CASE ProbeCreate \/ ProbeUpdate
  <2>1. /\ doing' = doing /\ pc \in {"created", "updated"} /\ pc' \in {"update", "delete"}
        /\ pc' = "delete" => pc = "updated"
    BY <1>4 DEF ProbeCreate, ProbeUpdate, Proceed
  <2> QED
    BY <1>0, <2>1, DoingStays DEF DoingInv
<1>5. CASE SkipUpdate
  <2>1. /\ pc = "update"
        /\ \/ doing' = Nothing /\ pc' = "create"
           \/ doing' = doing /\ pc' = "delete" /\ doing.id # <<>>
    BY <1>5 DEF SkipUpdate, EndPlan, Proceed
  <2> QED
    BY <1>0, <2>1, DoingStays, DoingNothing
<1>6. CASE Record
  <2>1. UNCHANGED <<db, pc, plans, doing>>
    BY <1>6 DEF Record, dbVars, crudVars
  <2> QED
    BY <1>0, <2>1 DEF DoingInv, NewValue, plan
<1> QED
  BY <1>1, <1>2, <1>3, <1>4, <1>5, <1>6 DEF Next

LEMMA StagesAction ==
    ASSUME StagesInv, Next
    PROVE  StagesInv'
<1>1. CASE \/ \E job \in Jobs : StartExplore(job)
           \/ SkipCase \/ RunCase \/ Judge \/ EndExplore \/ CloseBrowser \/ End \/ Publish
  <2>1. UNCHANGED <<plans, steps>> /\ pc' \notin CrudStages
    BY <1>1 DEF StartExplore, Begin, SkipCase, RunCase, Judge, EndExplore, CloseBrowser, End, Publish,
                crudVars, CrudStages
  <2>2. plans = <<>> /\ steps = <<>>
    BY <1>1 DEF StartExplore, Begin, SkipCase, RunCase, Judge, EndExplore, CloseBrowser, End, Publish,
                StagesInv, CrudStages
  <2> QED
    BY <2>1, <2>2 DEF StagesInv, CrudStages
<1>2. CASE \E job \in Jobs : StartCrud(job)
  <2>1. pc' = "create" /\ steps' = <<>> /\ kind' = "crud"
    BY <1>2 DEF StartCrud, Begin
  <2> QED
    BY <2>1 DEF StagesInv, CrudStages
<1>3. ASSUME plans # <<>>, kind' = "crud", NEW all, NEW stage, stage \in CrudStages \ {"create"},
             Proceed(all, stage) \/ EndPlan(all)
      PROVE  StagesInv'
  BY <1>3 DEF StagesInv, CrudStages, Proceed, EndPlan
<1>4. CASE Create \/ ProbeCreate \/ SkipUpdate \/ Update \/ ProbeUpdate
           \/ SkipDelete \/ Delete \/ ProbeDelete
  <2>1. plans # <<>>
    BY <1>4 DEF Create, ProbeCreate, SkipUpdate, Update, ProbeUpdate, SkipDelete, Delete, ProbeDelete,
                StagesInv, CrudStages
  <2>2. \E all : EndPlan(all) \/ \E stage \in CrudStages \ {"create"} : Proceed(all, stage)
    <3>1. CASE Create
      BY <3>1 DEF Create, CrudStages
    <3>2. CASE SkipUpdate \/ Update
      BY <3>2 DEF SkipUpdate, Update, CrudStages
    <3>3. CASE SkipDelete \/ Delete
      BY <3>3 DEF SkipDelete, Delete, CrudStages
    <3>4. CASE ProbeCreate \/ ProbeUpdate \/ ProbeDelete
      BY <3>4 DEF ProbeCreate, ProbeUpdate, ProbeDelete, CrudStages
    <3> QED
      BY <1>4, <3>1, <3>2, <3>3, <3>4
  <2>3. "delete" \in CrudStages \ {"create"}
    BY DEF CrudStages
  <2>4. kind' = "crud"
    BY <1>4 DEF Create, ProbeCreate, SkipUpdate, Update, ProbeUpdate, SkipDelete, Delete, ProbeDelete,
                StagesInv, CrudStages
  <2> QED
    BY SMTT(30), <1>3, <2>1, <2>2, <2>3, <2>4
<1>5. CASE Die
  <2>1. plans' = <<>> /\ steps' = <<>> /\ pc' = "idle"
    BY <1>5 DEF Die
  <2> QED
    BY <2>1 DEF StagesInv, CrudStages
<1>6. CASE Elsewhere \/ Record
  <2>1. UNCHANGED <<plans, steps, pc, kind>>
    BY <1>6 DEF Elsewhere, Record, crudVars
  <2> QED
    BY <2>1 DEF StagesInv
<1> QED
  BY <1>1, <1>2, <1>4, <1>5, <1>6 DEF Next

\* Nothing is planned and no step was made.
LEMMA NoSteps ==
    ASSUME steps' = <<>>, results' = <<>>, truth' = <<>>, PlansOK'
    PROVE  StepsInv' /\ AllSteps' = {}
<1>1. AllSteps' = {}
  BY EmptySequence DEF AllSteps, StepsBehind
<1>2. SequencesOK'
  BY EmptySequence DEF SequencesOK
<1>3. AllTold(AllSteps', truth')
  BY <1>1, EmptySequence DEF AllTold
<1>4. OrderOK'
  BY <1>1, EmptySequence DEF OrderOK, Ascend
<1> QED
  BY <1>1, <1>2, <1>3, <1>4 DEF StepsInv

LEMMA StepsStay ==
    ASSUME StepsInv, UNCHANGED <<steps, results, truth>>, plans' = plans \/ plans' = <<>>
    PROVE  StepsInv' /\ AllSteps' = AllSteps
<1>1. AllSteps' = AllSteps /\ SequencesOK'
  BY DEF StepsInv, SequencesOK, AllSteps, StepsBehind
<1>2. OrderOK'
  BY <1>1 DEF StepsInv, OrderOK
<1>3. PlansOK'
  BY EmptySequence DEF StepsInv, PlansOK
<1> QED
  BY <1>1, <1>2, <1>3 DEF StepsInv

\* How many requests there are.
LEMMA SameLength ==
    ASSUME NEW s, IsSequence(s), NEW t, IsSequence(t), DOMAIN s = DOMAIN t
    PROVE  Len(s) = Len(t)
<1>1. PICK k : k = Len(s) /\ k \in Nat /\ DOMAIN t = 1..k
  BY SequenceFacts
<1>2. PICK m : m = Len(t) /\ m \in Nat /\ 1..m = 1..k
  BY <1>1, SequenceFacts
<1>3. \A i \in Int : i \in 1..m <=> i \in 1..k
  BY <1>2
<1>4. (m >= 1 => m <= k) /\ (k >= 1 => k <= m)
  BY <1>1, <1>2, <1>3
<1> QED
  BY <1>1, <1>2, <1>4

LEMMA RequestCounts ==
    ASSUME RecorderInv, NEW route, NEW path, NEW status, NEW rows, NEW made,
           Request(route, path, status, rows, made)
    PROVE  Len(requests') = Len(requests) + 1
<1>1. IsSequence(requests) /\ Len(requests) \in Nat
  BY SequenceFacts DEF RecorderInv
<1>2. CASE FireAndFail(route.method, path)
  <2>1. PICK r : requests' = Append(requests, r)
    BY <1>2 DEF FireAndFail
  <2> QED
    BY <1>1, <2>1, AppendFacts
<1>3. CASE FireAndMove(route.method, path, status, page)
  <2>1. PICK N : N = Len(requests) + 1 /\ N \in Nat
    BY <1>1
  <2>2. DOMAIN requests' = 1..N /\ requests' = [n \in 1..N |-> requests'[n]]
    BY <1>3, <2>1 DEF FireAndMove
  <2>3. Len(requests') = N
    BY <2>1, <2>2, MapFacts
  <2> QED
    BY <2>1, <2>3
<1> QED
  BY <1>2, <1>3 DEF Request

\* The recorder, a submission or a death loses none.
LEMMA NoneLost ==
    ASSUME RecorderInv, RecorderInv', Record \/ RunCase \/ Die
    PROVE  Len(requests) <= Len(requests')
<1>1. /\ IsSequence(requests) /\ Len(requests) \in Nat
      /\ IsSequence(requests') /\ Len(requests') \in Nat
  BY SequenceFacts DEF RecorderInv
<1>2. ASSUME DOMAIN requests' = DOMAIN requests PROVE Len(requests) <= Len(requests')
  <2>1. PICK old, new : old = requests /\ new = requests'
    OBVIOUS
  <2>2. Len(old) = Len(new)
    BY <1>1, <1>2, <2>1, SameLength
  <2> QED
    BY <1>1, <2>1, <2>2
<1>3. CASE Record
  <2>1. PICK n \in Pending : Note(n) \/ Write(n)
    BY <1>3 DEF Record, RecorderStep
  <2>2. DOMAIN requests' = DOMAIN requests
    BY <2>1 DEF Note, Write
  <2> QED
    BY <1>2, <2>2
<1>4. CASE RunCase
  <2>1. \/ requests' = requests
        \/ \E method, path, status, to : FireAndMove(method, path, status, to)
    BY <1>4 DEF RunCase, recorderVars
  <2>2. CASE requests' = requests
    BY <1>1, <2>2
  <2>3. ASSUME NEW method, NEW path, NEW status, NEW to, FireAndMove(method, path, status, to)
        PROVE  Len(requests) <= Len(requests')
    <3>1. PICK N : N = Len(requests) + 1 /\ N \in Nat
      BY <1>1
    <3>2. DOMAIN requests' = 1..N /\ requests' = [n \in 1..N |-> requests'[n]]
      BY <2>3, <3>1 DEF FireAndMove
    <3>3. Len(requests') = N
      BY <3>1, <3>2, MapFacts
    <3> QED
      BY <1>1, <3>1, <3>3
  <2> QED
    BY <2>1, <2>2, <2>3
<1>5. CASE Die
  <2>1. DOMAIN requests' = DOMAIN requests
    BY <1>5 DEF Die
  <2> QED
    BY <1>2, <2>1
<1> QED
  BY <1>3, <1>4, <1>5

\* No step is added, and no request forgotten.
LEMMA NumbersStay ==
    ASSUME NumbersInv, StepsInv, RecorderInv, RecorderInv', Len(requests) <= Len(requests'),
           AllSteps' \subseteq AllSteps, kind' = kind,
           \/ pc' \notin InQuestion
           \/ pc' = pc /\ doing'.request = doing.request
    PROVE  NumbersInv'
<1>1. Len(requests) \in Nat /\ Len(requests') \in Nat
  BY SequenceFacts DEF RecorderInv
<1>2. \A s \in AllSteps : s.request \in Nat
  BY DEF StepsInv, OrderOK
<1>3. kind' = "crud" => \A s \in AllSteps' : s.request <= Len(requests')
  BY <1>1, <1>2 DEF NumbersInv
<1>4. CASE pc' \notin InQuestion
  BY <1>3, <1>4 DEF NumbersInv
<1>5. CASE pc' = pc /\ doing'.request = doing.request
  BY <1>1, <1>3, <1>5 DEF NumbersInv
<1> QED
  BY <1>4, <1>5

\* The next request is a step or in question.
LEMMA NumbersGo ==
    ASSUME NumbersInv, StepsInv, StagesInv, RecorderInv, pc \in CrudStages, StepsTo(NextRequest),
           Len(requests') = Len(requests) + 1,
           pc' \in InQuestion => doing'.request = NextRequest
    PROVE  NumbersInv'
<1>1. Len(requests) \in Nat /\ Len(requests') = NextRequest /\ NextRequest = Len(requests) + 1
  BY SequenceFacts DEF RecorderInv, NextRequest
<1>2. \A s \in AllSteps : s.request \in Nat /\ s.request <= Len(requests)
  BY DEF StepsInv, OrderOK, StagesInv, NumbersInv
<1>3. \A s \in AllSteps' : s \in AllSteps \/ (s.request = NextRequest /\ pc' \notin InQuestion)
  BY DEF StepsTo
<1>4. \A s \in AllSteps' : s.request <= Len(requests')
  BY <1>1, <1>2, <1>3
<1>5. ASSUME pc' \in InQuestion
      PROVE  doing'.request \in 1..Len(requests') /\ \A s \in AllSteps' : s.request < doing'.request
  BY <1>1, <1>2, <1>3, <1>5
<1> QED
  BY <1>4, <1>5 DEF NumbersInv

\* What a step does to the steps of crud, and to their numbers.
LEMMA StepsAction ==
    ASSUME VerdictsInv, RecorderInv, RecorderInv', Next
    PROVE  StepsInv' /\ NumbersInv'
<1>0. DoingInv /\ StepsInv /\ StagesInv /\ RowsOK /\ NumbersInv /\ DOMAIN doing = DoingFields
  BY DEF VerdictsInv, DoingInv
<1>n. Len(requests) \in Nat /\ Len(requests') \in Nat
  BY SequenceFacts DEF RecorderInv
<1>1. CASE SkipCase \/ RunCase \/ Judge \/ EndExplore \/ CloseBrowser \/ End \/ Publish
  <2>1. UNCHANGED <<plans, steps, results, truth, kind>>
    BY <1>1 DEF SkipCase, RunCase, Judge, EndExplore, CloseBrowser, End, Publish, crudVars
  <2>2. pc' \notin InQuestion
    BY <1>1 DEF SkipCase, RunCase, Judge, EndExplore, CloseBrowser, End, Publish, InQuestion
  <2>3. Len(requests) <= Len(requests')
    <3>1. CASE RunCase
      BY <3>1, NoneLost
    <3>2. CASE ~RunCase
      <4>1. requests' = requests
        BY <1>1, <3>2 DEF SkipCase, Judge, EndExplore, CloseBrowser, End, Publish, recorderVars
      <4> QED
        BY <1>n, <4>1
    <3> QED
      BY <3>1, <3>2
  <2>4. StepsInv' /\ AllSteps' = AllSteps
    BY <1>0, <2>1, StepsStay
  <2> QED
    BY <1>0, <2>1, <2>2, <2>3, <2>4, NumbersStay
<1>2. CASE \E job \in Jobs : StartExplore(job)
  <2>1. /\ UNCHANGED <<plans, steps, results, truth>>
        /\ kind' = "explore" /\ pc' = "cases"
    BY <1>2 DEF StartExplore, Begin, crudVars
  <2>2. StepsInv'
    BY <1>0, <2>1, StepsStay
  <2> QED
    BY <2>1, <2>2 DEF NumbersInv, InQuestion
<1>3. CASE \E job \in Jobs : StartCrud(job)
  <2>1. PlansOK' /\ steps' = <<>> /\ results' = <<>> /\ truth' = <<>> /\ pc' = "create"
    BY <1>3, CrudStarts DEF StartCrud, Begin
  <2>2. StepsInv' /\ AllSteps' = {}
    BY <2>1, NoSteps
  <2> QED
    BY <2>1, <2>2 DEF NumbersInv, InQuestion
<1>4. CASE Create \/ Update \/ Delete
  <2>1. StepsTo(NextRequest)
    BY <1>0, <1>4, <1>n, StepsOfCreate, StepsOfUpdate, StepsOfDelete
  <2>2. Len(requests') = Len(requests) + 1
    <3>1. CASE Create
      BY <3>1, RequestCounts DEF Create
    <3>2. CASE Update
      BY <3>2, RequestCounts DEF Update
    <3>3. CASE Delete
      BY <3>3, RequestCounts DEF Delete
    <3> QED
      BY <1>4, <3>1, <3>2, <3>3
  <2>3. pc' \in InQuestion => doing'.request = NextRequest
    <3>1. CASE Create
      <4>1. PICK does, named :
               \/ \E all : EndPlan(all) \/ Proceed(all, "update")
               \/ doing' = [id |-> IF named THEN <<RowIds[created + 1]>> ELSE <<>>,
                            request |-> NextRequest, effect |-> does = "stores",
                            before |-> Has(db, plan.table, plan.first[1].name,
                                           placeholderValue(plan.first[1])),
                            aside |-> FALSE, disturbed |-> FALSE]
        BY <3>1 DEF Create
      <4>2. CASE \E all : EndPlan(all) \/ Proceed(all, "update")
        BY <4>2 DEF EndPlan, Proceed, InQuestion
      <4> QED
        BY <4>1, <4>2
    <3>2. CASE Update
      <4>1. \/ pc' \notin InQuestion
            \/ \E effect, before : doing' = [doing EXCEPT !.request = NextRequest, !.effect = effect,
                                               !.before = before, !.disturbed = FALSE]
        BY <3>2 DEF Update, EndPlan, Proceed, InQuestion
      <4> QED
        BY <1>0, <4>1 DEF DoingFields
    <3>3. CASE Delete
      <4>1. \/ pc' \notin InQuestion
            \/ \E effect, aside : doing' = [doing EXCEPT !.request = NextRequest, !.effect = effect,
                                              !.before = FALSE, !.aside = aside, !.disturbed = FALSE]
        BY ZenonT(60), <3>3 DEF Delete, EndPlan, Proceed, InQuestion
      <4> QED
        BY <1>0, <4>1 DEF DoingFields
    <3> QED
      BY <1>4, <3>1, <3>2, <3>3
  <2>4. pc \in CrudStages
    BY <1>4 DEF Create, Update, Delete, CrudStages
  <2>5. NumbersInv'
    BY <1>0, <2>1, <2>2, <2>3, <2>4, NumbersGo
  <2> QED
    BY <2>1, <2>5 DEF StepsTo
<1>5. CASE SkipUpdate \/ SkipDelete
  <2>1. /\ EndPlan(steps) \/ Proceed(steps, "delete")
        /\ truth' = truth /\ kind' = kind /\ requests' = requests
    BY <1>5 DEF SkipUpdate, SkipDelete, recorderVars
  <2>2. plans # <<>>
    BY <1>0, <1>5 DEF SkipUpdate, SkipDelete, StagesInv, CrudStages
  <2>3. StepsInv' /\ AllSteps' = AllSteps
    BY <1>0, <2>1, <2>2, NoStep
  <2>4. pc' \notin InQuestion
    BY <2>1 DEF EndPlan, Proceed, InQuestion
  <2> QED
    BY <1>0, <1>n, <2>1, <2>3, <2>4, NumbersStay
<1>6. CASE ProbeCreate \/ ProbeUpdate \/ ProbeDelete
  <2>1. StepsTo(doing.request)
    BY <1>0, <1>6, <1>n, StepsOfProbeCreate, StepsOfProbeUpdate, StepsOfProbeDelete
  <2>2. pc \in InQuestion /\ kind' = kind /\ requests' = requests
    BY <1>6 DEF ProbeCreate, ProbeUpdate, ProbeDelete, InQuestion, recorderVars
  <2>3. pc' \notin InQuestion
    BY <1>6 DEF ProbeCreate, ProbeUpdate, ProbeDelete, EndPlan, Proceed, InQuestion
  <2>4. \A s \in AllSteps' : s \in AllSteps \/ s.request = doing.request
    BY <2>1 DEF StepsTo
  <2>5. doing.request <= Len(requests)
    BY <1>0, <1>n, <2>2 DEF NumbersInv
  <2>6. kind' = "crud" => \A s \in AllSteps' : s.request <= Len(requests')
    BY <1>0, <2>2, <2>4, <2>5 DEF NumbersInv
  <2> QED
    BY <2>1, <2>3, <2>6 DEF StepsTo, NumbersInv
<1>7. CASE Die
  <2>1. /\ plans' = <<>> /\ steps' = <<>> /\ kind' = kind /\ pc' = "idle"
        /\ Len(requests) <= Len(requests')
    BY <1>7, NoneLost DEF Die
  <2>2. StepsInv' /\ AllSteps' \subseteq AllSteps
    <3>1. CASE pc \in {"close", "closed"}
      <4>1. UNCHANGED <<steps, results, truth>>
        BY <1>0, <1>7, <2>1, <3>1 DEF Die, StagesInv, CrudStages
      <4> QED
        BY <1>0, <2>1, <4>1, StepsStay
    <3>2. CASE pc \notin {"close", "closed"}
      <4>1. results' = <<>> /\ truth' = <<>>
        BY <1>7, <3>2 DEF Die
      <4>2. PlansOK'
        BY <2>1, EmptySequence DEF PlansOK
      <4> QED
        BY <2>1, <4>1, <4>2, NoSteps
    <3> QED
      BY <3>1, <3>2
  <2>3. pc' \notin InQuestion
    BY <2>1 DEF InQuestion
  <2> QED
    BY <1>0, <2>1, <2>2, <2>3, NumbersStay
<1>8. CASE Elsewhere
  <2>1. /\ UNCHANGED <<plans, steps, results, truth, pc, kind, requests>>
        /\ doing' = [doing EXCEPT !.disturbed = TRUE]
    BY <1>8 DEF Elsewhere, recorderVars
  <2>2. StepsInv' /\ AllSteps' = AllSteps
    BY <1>0, <2>1, StepsStay
  <2>3. doing'.request = doing.request
    BY <1>0, <2>1 DEF DoingFields
  <2> QED
    BY <1>0, <1>n, <2>1, <2>2, <2>3, NumbersStay
<1>9. CASE Record
  <2>1. UNCHANGED <<plans, steps, results, truth, pc, kind, doing>>
    BY <1>9 DEF Record, crudVars
  <2>2. StepsInv' /\ AllSteps' = AllSteps
    BY <1>0, <2>1, StepsStay
  <2>3. Len(requests) <= Len(requests')
    BY <1>9, NoneLost
  <2> QED
    BY <1>0, <2>1, <2>2, <2>3, NumbersStay
<1> QED
  BY <1>1, <1>2, <1>3, <1>4, <1>5, <1>6, <1>7, <1>8, <1>9 DEF Next

LEMMA VerdictsInit == Init => VerdictsInv
<1> SUFFICES ASSUME Init PROVE VerdictsInv
  OBVIOUS
<1>1. /\ db \in Left /\ pc = "idle" /\ plans = <<>> /\ steps = <<>> /\ results = <<>>
      /\ truth = <<>> /\ doing = Nothing
  BY DEF Init
<1>2. RowsOK
  BY <1>1, LeftAssumption DEF RowsOK, RowOK
<1>3. StagesInv
  BY <1>1 DEF StagesInv, CrudStages
<1>4. DoingInv
  BY <1>1, NothingIs DEF DoingInv, AtMostOne
<1>5. PlansOK /\ SequencesOK
  BY <1>1, EmptySequence DEF PlansOK, SequencesOK
<1>6. AllSteps = {}
  BY <1>1, EmptySequence DEF AllSteps, StepsBehind
<1>7. AllTold(AllSteps, truth) /\ OrderOK
  BY <1>1, <1>6, EmptySequence DEF AllTold, OrderOK, Ascend
<1>8. NumbersInv
  BY <1>1, <1>6 DEF NumbersInv, InQuestion
<1> QED
  BY <1>2, <1>3, <1>4, <1>5, <1>7, <1>8 DEF VerdictsInv, StepsInv

LEMMA VerdictsNext == IInv /\ IInv' /\ VerdictsInv /\ [Next]_vars => VerdictsInv'
<1>1. ASSUME VerdictsInv, UNCHANGED vars PROVE VerdictsInv'
  <2>1. UNCHANGED <<db, pc, kind, requests, plans, steps, results, doing, truth>>
    BY <1>1 DEF vars, dbVars, crudVars, recorderVars
  <2>2. StepsInv' /\ AllSteps' = AllSteps
    BY <1>1, <2>1, StepsStay DEF VerdictsInv
  <2>3. RowsOK' /\ StagesInv' /\ DoingInv'
    BY <1>1, <2>1 DEF VerdictsInv, RowsOK, StagesInv, DoingInv, NewValue, plan
  <2>4. NumbersInv'
    BY <1>1, <2>1, <2>2 DEF VerdictsInv, NumbersInv
  <2> QED
    BY <2>2, <2>3, <2>4 DEF VerdictsInv
<1>2. ASSUME IInv, IInv', VerdictsInv, Next PROVE VerdictsInv'
  <2>1. RecorderInv /\ RecorderInv' /\ VerdictsInv /\ Next
    BY <1>2 DEF IInv
  <2> QED
    BY <2>1, StepsAction, StagesAction, RowsAction, DoingAction DEF VerdictsInv
<1> QED
  BY <1>1, <1>2

\* The position that is found is the first one that was looked for.
LEMMA PositionIs ==
    ASSUME NEW s, IsSequence(s), NEW I, I \subseteq DOMAIN s, NEW i,
           i = IF I # {} THEN Min(I) ELSE 0
    PROVE  IF I = {} THEN i = 0 ELSE i \in I /\ i # 0 /\ \A m \in I : i <= m
<1>1. Len(s) \in Nat /\ DOMAIN s = 1..Len(s)
  BY SequenceFacts
<1>2. CASE I # {}
  <2>1. I \in SUBSET Nat /\ 0 \notin I
    BY <1>1
  <2>2. \E n \in I : \A m \in I : n <= m
    BY <1>2, <2>1, LeastNat
  <2>3. Min(I) \in I /\ \A m \in I : Min(I) <= m
    BY <2>2 DEF Min
  <2> QED
    BY <1>2, <2>1, <2>3
<1> QED
  BY <1>2

\* The verdict on a key is that of the first of the steps on it.
LEMMA VerdictIs ==
    ASSUME SequencesOK, OrderOK, NEW key, NEW verdict, verdict = annotatePersistence(key, results)
    PROVE  \/ verdict = "unknown" /\ \A s \in StepsBehind : s.route # key
           \/ \E s \in StepsBehind :
                 /\ s.route = key
                 /\ \A a \in StepsBehind : a.route = key => s.request <= a.request
                 /\ verdict = IF ~s.dbProbed THEN "unknown" ELSE IF s.ok THEN "yes" ELSE "no"
<1> DEFINE J(r)  == {j \in 1..Len(r) : r[j].route = key}
           At(r) == SelectInSeq(r, LAMBDA s : s.route = key)
           I     == {i \in 1..Len(results) : At(results[i]) # 0}
           i     == SelectInSeq(results, LAMBDA r : At(r) # 0)
           step  == results[i][At(results[i])]
<1>1. verdict = IF i = 0 \/ ~step.dbProbed THEN "unknown" ELSE IF step.ok THEN "yes" ELSE "no"
  BY DEF annotatePersistence
<1>2. \A r : At(r) = IF J(r) # {} THEN Min(J(r)) ELSE 0
  BY DEF SelectInSeq
<1>3. i = IF I # {} THEN Min(I) ELSE 0
  BY DEF SelectInSeq
<1> HIDE DEF At, i
<1>4. Len(results) \in Nat /\ DOMAIN results = 1..Len(results)
  BY SequenceFacts DEF SequencesOK
<1>5. ASSUME NEW n \in DOMAIN results
      PROVE  IF J(results[n]) = {} THEN At(results[n]) = 0
             ELSE /\ At(results[n]) \in J(results[n]) /\ At(results[n]) # 0
                  /\ \A m \in J(results[n]) : At(results[n]) <= m
  <2>1. PICK r : r = results[n] /\ IsSequence(r)
    BY DEF SequencesOK
  <2>2. J(r) \subseteq DOMAIN r
    BY <2>1, SequenceFacts
  <2> HIDE DEF J
  <2>3. IF J(r) = {} THEN At(r) = 0
        ELSE At(r) \in J(r) /\ At(r) # 0 /\ \A m \in J(r) : At(r) <= m
    BY <1>2, <2>1, <2>2, PositionIs
  <2> QED
    BY <2>1, <2>3
<1>6. IF I = {} THEN i = 0 ELSE i \in I /\ i # 0 /\ \A m \in I : i <= m
  <2>1. I \subseteq DOMAIN results
    BY <1>4
  <2> HIDE DEF I
  <2> QED
    BY <1>3, <2>1, PositionIs DEF SequencesOK
<1>w. ASSUME NEW s \in StepsBehind, s.route = key
      PROVE  \E n \in I : \E j \in J(results[n]) : s = results[n][j]
  <2>1. PICK n \in DOMAIN results : s \in ToSet(results[n])
    BY DEF StepsBehind
  <2>2. PICK j \in DOMAIN results[n] : s = results[n][j]
    BY <2>1 DEF ToSet
  <2>3. DOMAIN results[n] = 1..Len(results[n])
    BY SequenceFacts DEF SequencesOK
  <2>4. j \in J(results[n])
    BY <1>w, <2>2, <2>3
  <2>5. n \in I
    BY <1>4, <1>5, <2>4
  <2> QED
    BY <2>2, <2>4, <2>5
<1>7. CASE I = {}
  BY <1>1, <1>6, <1>7, <1>w
<1>8. CASE I # {}
  <2>1. i \in DOMAIN results /\ At(results[i]) # 0 /\ i # 0
    BY <1>4, <1>6, <1>8
  <2>2. At(results[i]) \in J(results[i]) /\ \A m \in J(results[i]) : At(results[i]) <= m
    BY <1>5, <2>1
  <2>3. DOMAIN results[i] = 1..Len(results[i])
    BY <2>1, SequenceFacts DEF SequencesOK
  <2>4. step \in ToSet(results[i]) /\ step.route = key
    BY <2>2, <2>3 DEF ToSet
  <2>5. step \in StepsBehind
    BY <2>1, <2>4 DEF StepsBehind
  <2>6. ASSUME NEW a \in StepsBehind, a.route = key PROVE step.request <= a.request
    <3>0. PICK n \in I : \E j \in J(results[n]) : a = results[n][j]
      BY <1>w, <2>6
    <3>1. PICK j \in J(results[n]) : a = results[n][j]
      BY <3>0
    <3>2. step.request \in Nat /\ a.request \in Nat
      BY <2>5 DEF OrderOK, AllSteps
    <3>3. n \in DOMAIN results /\ i <= n
      BY <1>4, <1>6, <1>8
    <3>4. CASE n = i
      <4>1. At(results[i]) <= j /\ j \in DOMAIN results[i] /\ At(results[i]) \in DOMAIN results[i]
        BY <2>2, <2>3, <3>1, <3>4
      <4>2. CASE At(results[i]) = j
        BY <3>1, <3>2, <3>4, <4>2
      <4>3. CASE At(results[i]) < j
        <5>1. step.request < results[i][j].request
          BY <2>1, <4>1, <4>3 DEF OrderOK, Ascend
        <5> QED
          BY <3>1, <3>2, <3>4, <5>1
      <4>4. At(results[i]) \in Int /\ j \in Int
        BY <2>2, <3>1, <3>4
      <4> QED
        BY <4>1, <4>2, <4>3, <4>4
    <3>5. CASE n # i
      <4>1. i < n
        BY <1>4, <2>1, <3>3, <3>5
      <4>2. a \in ToSet(results[n])
        <5>1. DOMAIN results[n] = 1..Len(results[n])
          BY <3>3, SequenceFacts DEF SequencesOK
        <5> QED
          BY <3>1, <5>1 DEF ToSet
      <4>3. step.request < a.request
        BY <2>1, <2>4, <3>3, <4>1, <4>2 DEF OrderOK, Precede
      <4> QED
        BY <3>2, <4>3
    <3> QED
      BY <3>4, <3>5
  <2> HIDE DEF step
  <2> QED
    BY <1>1, <2>1, <2>4, <2>5, <2>6
<1> QED
  BY <1>7, <1>8

LEMMA VerdictsInvTells == VerdictsInv => VerdictsAreTrue
<1> SUFFICES ASSUME VerdictsInv, pc \in {"close", "closed", "idle"}, NEW line \in ToSet(lines),
                    NEW key, key = Key(line.method, line.path),
                    NEW verdict, verdict = annotatePersistence(key, results),
                    NEW onRoute, onRoute = {n \in DOMAIN truth : truth[n].route = key},
                    NEW first, first = truth[Min(onRoute)]
             PROVE  /\ verdict # "unknown" <=> onRoute # {} /\ first.looked
                    /\ verdict # "unknown" /\ ~first.disturbed /\ ~first.aside =>
                          IF verdict = "yes" THEN first.effect \/ first.before
                                             ELSE ~first.effect \/ first.blind
  BY DEF VerdictsAreTrue
<1>2. SequencesOK /\ OrderOK /\ AllTold(AllSteps, truth)
  BY DEF VerdictsInv, StepsInv
<1>3. AllSteps = StepsBehind
  <2>1. steps = <<>>
    BY DEF VerdictsInv, StagesInv, CrudStages
  <2> QED
    BY <2>1, EmptySequence DEF AllSteps
<1>4. ASSUME NEW n \in onRoute
      PROVE  \E a \in StepsBehind : a.request = n /\ a.route = key
  BY <1>2, <1>3 DEF AllTold, About
<1>5. CASE verdict = "unknown" /\ \A s \in StepsBehind : s.route # key
  BY <1>4, <1>5
<1>6. ASSUME NEW s \in StepsBehind, s.route = key,
             \A a \in StepsBehind : a.route = key => s.request <= a.request,
             verdict = IF ~s.dbProbed THEN "unknown" ELSE IF s.ok THEN "yes" ELSE "no"
      PROVE  /\ verdict # "unknown" <=> onRoute # {} /\ first.looked
             /\ verdict # "unknown" /\ ~first.disturbed /\ ~first.aside =>
                   IF verdict = "yes" THEN first.effect \/ first.before
                                      ELSE ~first.effect \/ first.blind
  <2>1. s.request \in DOMAIN truth /\ About(s, truth[s.request])
    BY <1>2, <1>3 DEF AllTold
  <2>2. s.request \in onRoute
    BY <1>6, <2>1 DEF About
  <2>3. \A n \in onRoute : s.request <= n /\ n \in Nat
    BY <1>2, <1>3, <1>4, <1>6 DEF OrderOK
  <2>4. Min(onRoute) = s.request
    BY <2>2, <2>3 DEF Min
  <2>5. About(s, first) /\ onRoute # {}
    BY <2>1, <2>2, <2>4
  <2>6. verdict # "unknown" <=> s.dbProbed
    BY <1>6
  <2>7. s.dbProbed => (verdict = "yes" <=> s.ok)
    BY <1>6
  <2> QED
    BY <2>5, <2>6, <2>7 DEF About, Agrees
<1> QED
  BY <1>2, <1>5, <1>6, VerdictIs

\* Whatever the application does with the requests of crud, whatever was in the
\* database and whoever else is at it, whether routes share a key, and whichever
\* request, question or handler fails: a recorded mutation has the verdict of the
\* first step on its route, "unknown" just if nobody looked that step up or there
\* is none; and the verdict is true of that step unless somebody else was there or
\* the id was looked up in another column (execute.ts, plan.ts; tx-persistence.ts).
THEOREM ExerciseVerdictsAreTrue == Spec => []VerdictsAreTrue
<1>1. Init => IInv /\ VerdictsInv
  BY InitIInv, VerdictsInit
<1>2. IInv /\ VerdictsInv /\ [Next]_vars => IInv' /\ VerdictsInv'
  BY NextIInv, VerdictsNext
<1>3. IInv /\ VerdictsInv => VerdictsAreTrue
  BY VerdictsInvTells
<1> QED
  BY <1>1, <1>2, <1>3, PTL DEF Spec
===============================================================================
