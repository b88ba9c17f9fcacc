------------------------------ MODULE Transfer ------------------------------
(***************************************************************************)
(* File transfers and streams: an RPC hands out a token, and a connection  *)
(* of its own presents it and carries the data.                            *)
(*                                                                         *)
(* Clients run SendFile, DownloadFile and Stream of client/xclient.go; the *)
(* server is the FileTransfer of server/file_transfer.go or the            *)
(* StreamService of server/stream.go, which differ only in the kinds of    *)
(* token that they hand out.  Tokens wait in an LRU cache of WaitNum       *)
(* entries.  The RPC itself is XClient's: here it may run more than once   *)
(* for a call (retries, backup requests), late, and its answer may be      *)
(* lost.  Connections may break, a client's host may vanish, the server's  *)
(* process may end, handlers may give up and callers may dial in silence.  *)
(*                                                                         *)
(* Stop is no action: done is never made, so close(s.done) panics before   *)
(* the listener is closed and leaves the service as it was.                *)
(***************************************************************************)
EXTENDS Naturals, Sequences, FiniteSets, Functions

CONSTANTS
  Clients,   \* callers, one transfer each
  Services,  \* what the callers ask for, who of them may be silent, and which handlers there are
  WaitNum,   \* the size of cachedTokens
  Chunks,    \* buffers that a file fills
  MaxTokens, \* bound: executions of the token's RPC, over all calls
  MaxFaults  \* bound: cancellations, breaks, hosts that vanish, accept loops and servers that end

ASSUME TransferConstants ==
  /\ {WaitNum, Chunks, MaxTokens} \subseteq Nat \ {0} /\ MaxFaults \in Nat
  /\ \A s \in Services : \E ks \in {{"TransferFile", "DownloadFile"}, {"Stream"}} :
       s.kind \in [Clients -> ks] /\ s.handlers \subseteq ks /\ s.silent \subseteq Clients

VARIABLES
  kind,      \* kind[c]: the method that c calls
  handlers,  \* the kinds whose handler is not nil
  silent,    \* the callers that may dial and never present their token
  cl,        \* cl[c]: the caller
  conn,      \* conn[c]: its connection to the service's own port
  cache,     \* cachedTokens, the least recently used first
  loop,      \* where the accept loop stands, and the connection it is at
  backlog,   \* dialled and not yet accepted, in order
  faults     \* how many so far

\* History: the tokens that were taken, and whether more than WaitNum were ever out.
VARIABLES spent, full

vars == <<kind, handlers, silent, cl, conn, cache, loop, backlog, faults, spent, full>>

NoConn == [st |-> "none", tok |-> <<>>, up |-> 0, down |-> 0, moved |-> 0,
           cfin |-> FALSE, sfin |-> FALSE, broken |-> FALSE, early |-> FALSE,
           alive |-> FALSE, args |-> <<>>]
AtRest(at) == [at |-> at, cur |-> "none", info |-> <<>>]

Init ==
  /\ \E s \in Services : kind = s.kind /\ handlers = s.handlers /\ silent = s.silent
  /\ cl = [c \in Clients |-> [pc |-> "open", err |-> "none", tok |-> <<>>, n |-> 0, moved |-> 0,
                              cancelled |-> FALSE, dead |-> FALSE]]
  /\ conn = [c \in Clients |-> NoConn]
  /\ cache = <<>> /\ backlog = <<>> /\ loop = AtRest("new")
  /\ spent = {} /\ full = FALSE /\ faults = 0

Server == <<cache, loop, backlog, spent, full>>
Service == <<kind, handlers, silent>>
Fixed == <<Service, faults>>

----------------------------------------------------------------------------
Fault == faults < MaxFaults /\ faults' = faults + 1

(* The RPC that hands out a token. *)

Issued == UNION {{<<c, i>> : i \in 1..cl[c].n} : c \in Clients}

\* lru.Cache: Add drops the oldest when full, Get makes the entry the newest.
LruAdd(e) == Append(IF Len(cache) < WaitNum THEN cache ELSE Tail(cache), e)
Cached(t) == \E i \in DOMAIN cache : cache[i][1] = t
Place(t) == CHOOSE i \in DOMAIN cache : cache[i][1] = t
Without(t) ==
  IF Cached(t) THEN SubSeq(cache, 1, Place(t) - 1) \o SubSeq(cache, Place(t) + 1, Len(cache))
  ELSE cache

\* A fresh token for args of a kind; the request may run late, after its caller has gone on.
HandOut(c, k) ==
  /\ loop.at # "dead" /\ cl[c].pc # "open" /\ Cardinality(Issued) < MaxTokens
  /\ cache' = LruAdd(<<<<c, cl[c].n + 1>>, k>>)
  /\ cl' = [cl EXCEPT ![c].n = @ + 1]
  /\ full' = (full \/ Cardinality(Issued \ spent) >= WaitNum)
  /\ UNCHANGED <<conn, loop, backlog, spent, Fixed>>

\* Mutant: an upload is remembered as a download.
TransferFileAsDownload(c) == kind[c] = "TransferFile" /\ HandOut(c, "DownloadFile")

TransferFile(c) == kind[c] = "TransferFile" /\ HandOut(c, "TransferFile")
DownloadToken(c) == kind[c] = "DownloadFile" /\ HandOut(c, "DownloadFile")
\* NewStreamService drops its acceptor: nobody is refused.
StreamToken(c) == kind[c] = "Stream" /\ HandOut(c, "Stream")

----------------------------------------------------------------------------
(* The callers. *)

\* A deferred Close runs at every return once the connection is there.
Return(c, e) ==
  /\ cl' = [cl EXCEPT ![c].pc = "done", ![c].err = e, ![c].cancelled = FALSE]
  /\ conn' = [conn EXCEPT ![c].cfin = conn[c].st # "none", ![c].down = 0]

At(c, pc) == cl[c].pc = pc /\ ~cl[c].dead
GoTo(c, pc) == cl' = [cl EXCEPT ![c].pc = pc]

\* Only SendFile has a file to open.
Open(c) ==
  /\ At(c, "open")
  /\ \/ GoTo(c, "call") /\ UNCHANGED conn
     \/ kind[c] = "TransferFile" /\ Return(c, "error")
  /\ UNCHANGED <<Server, Fixed>>

\* c.Call returns the token of any execution, or an error.
CallReturns(c) ==
  /\ At(c, "call")
  /\ \/ \E i \in 1..cl[c].n : cl' = [cl EXCEPT ![c].pc = "dial", ![c].tok = <<c, i>>]
                              /\ UNCHANGED conn
     \/ Return(c, "error")
  /\ UNCHANGED <<Server, Fixed>>

\* The listener stays open when the accept loop ends: a dial still succeeds.
Listening == loop.at \notin {"new", "deaf", "dead"}
Dial(c) ==
  /\ At(c, "dial")
  /\ \/ /\ Listening
        /\ GoTo(c, "token")
        /\ conn' = [conn EXCEPT ![c].st = "queued"]
        /\ backlog' = Append(backlog, c)
     \/ Return(c, "error") /\ UNCHANGED backlog
  /\ UNCHANGED <<cache, loop, spent, full, Fixed>>

\* The select at the head of both loops: the case of ctx.Done() is empty, so a
\* caller that finds its context done turns for ever.
Select(c) == IF cl[c].cancelled THEN "spin" ELSE "io"

\* Stream gives its connection to the caller, who closes it some time.
SendToken(c) ==
  /\ At(c, "token")
  /\ IF conn[c].broken THEN Return(c, "error")
     ELSE /\ cl' = [cl EXCEPT ![c].pc = IF kind[c] = "Stream" THEN "held" ELSE Select(c)]
          /\ conn' = [conn EXCEPT ![c].tok = cl[c].tok]
  /\ UNCHANGED <<Server, Fixed>>
StreamClosed(c) == At(c, "held") /\ Return(c, "nil") /\ UNCHANGED <<Server, Fixed>>

\* Mutant: the last buffer is read and not written.
SendFileShort(c) ==
  /\ At(c, "io") /\ kind[c] = "TransferFile"
  /\ \/ cl[c].moved >= Chunks - 1 /\ Return(c, "nil")
     \/ cl[c].moved < Chunks - 1 /\ (conn[c].broken \/ conn[c].sfin) /\ Return(c, "error")
     \/ /\ cl[c].moved < Chunks - 1 /\ ~conn[c].broken
        /\ cl' = [cl EXCEPT ![c].pc = Select(c), ![c].moved = @ + 1]
        /\ conn' = [conn EXCEPT ![c].up = IF conn[c].sfin THEN @ ELSE @ + 1]
  /\ UNCHANGED <<Server, Fixed>>

\* One turn of SendFile: the end of the file, or a buffer read and written.  A
\* write to a connection that the server has closed may still succeed.
SendFile(c) ==
  /\ At(c, "io") /\ kind[c] = "TransferFile"
  /\ \/ cl[c].moved = Chunks /\ Return(c, "nil")
     \/ cl[c].moved < Chunks /\ (conn[c].broken \/ conn[c].sfin) /\ Return(c, "error")
     \/ /\ cl[c].moved < Chunks /\ ~conn[c].broken
        /\ cl' = [cl EXCEPT ![c].pc = Select(c), ![c].moved = @ + 1]
        /\ conn' = [conn EXCEPT ![c].up = IF conn[c].sfin THEN @ ELSE @ + 1]
  /\ UNCHANGED <<Server, Fixed>>

\* Mutant: every error of Read is taken for the end of the file.
DownloadFileQuiet(c) ==
  /\ At(c, "io") /\ kind[c] = "DownloadFile"
  /\ \/ /\ conn[c].down > 0 /\ ~conn[c].broken
        /\ \/ /\ cl' = [cl EXCEPT ![c].pc = Select(c), ![c].moved = @ + 1]
              /\ conn' = [conn EXCEPT ![c].down = @ - 1]
           \/ Return(c, "error")
     \/ conn[c].broken /\ Return(c, "nil")
     \/ conn[c].down = 0 /\ conn[c].sfin /\ ~conn[c].broken /\ Return(c, "nil")
  /\ UNCHANGED <<Server, Fixed>>

\* One turn of DownloadFile: Read gives data, which saveTo may refuse, or an error,
\* of which io.EOF is a success.
DownloadFile(c) ==
  /\ At(c, "io") /\ kind[c] = "DownloadFile"
  /\ \/ /\ conn[c].down > 0 /\ ~conn[c].broken
        /\ \/ /\ cl' = [cl EXCEPT ![c].pc = Select(c), ![c].moved = @ + 1]
              /\ conn' = [conn EXCEPT ![c].down = @ - 1]
           \/ Return(c, "error")
     \/ conn[c].broken /\ Return(c, "error")
     \/ conn[c].down = 0 /\ conn[c].sfin /\ ~conn[c].broken /\ Return(c, "nil")
  /\ UNCHANGED <<Server, Fixed>>

----------------------------------------------------------------------------
(* The accept loop of the service. *)

\* Start runs start once, in a goroutine: RPCs may come before the port is open.
Listen ==
  /\ loop.at = "new"
  /\ \E at \in {"accept", "deaf"} : loop' = AtRest(at)
  /\ UNCHANGED <<cl, conn, cache, backlog, spent, full, Fixed>>

\* A temporary error sleeps and goes on; any other ends the loop, listener open.
AcceptFails ==
  /\ loop.at = "accept" /\ Fault
  /\ \E temporary \in BOOLEAN : loop' = IF temporary THEN loop ELSE AtRest("end")
  /\ UNCHANGED <<Service, cl, conn, cache, backlog, spent, full>>

\* Mutant: no keep-alive on the accepted connection.
AcceptBare ==
  /\ loop.at = "accept" /\ backlog # <<>>
  /\ loop' = [at |-> "read", cur |-> Head(backlog), info |-> <<>>]
  /\ backlog' = Tail(backlog)
  /\ conn' = [conn EXCEPT ![Head(backlog)].st = "accepted"]
  /\ UNCHANGED <<cl, cache, spent, full, Fixed>>

\* Accept, with keep-alive on; the token is read by the loop itself.
Accept ==
  /\ loop.at = "accept" /\ backlog # <<>>
  /\ loop' = [at |-> "read", cur |-> Head(backlog), info |-> <<>>]
  /\ backlog' = Tail(backlog)
  /\ conn' = [conn EXCEPT ![Head(backlog)].st = "accepted", ![Head(backlog)].alive = TRUE]
  /\ UNCHANGED <<cl, cache, spent, full, Fixed>>

Refused(c) == [conn EXCEPT ![c].st = "refused", ![c].sfin = TRUE, ![c].up = 0]

\* io.ReadFull of the token, and Get: a failed read or an unknown token closes the connection.
ReadToken ==
  /\ loop.at = "read"
  /\ LET c == loop.cur  t == conn[c].tok IN
       \/ /\ conn[c].broken \/ (conn[c].cfin /\ t = <<>>)
          /\ conn' = Refused(c) /\ loop' = AtRest("accept") /\ UNCHANGED cache
       \/ /\ t # <<>> /\ ~conn[c].broken
          /\ IF ~Cached(t)
             THEN conn' = Refused(c) /\ loop' = AtRest("accept") /\ UNCHANGED cache
             ELSE /\ cache' = Append(Without(t), cache[Place(t)])
                  /\ loop' = [at |-> "remove", cur |-> c, info |-> cache[Place(t)]]
                  /\ UNCHANGED conn
  /\ UNCHANGED <<cl, backlog, spent, full, Fixed>>

\* A goroutine runs the handler of the entry's kind; without a handler the connection is closed.
Dispatch(c, info) ==
  conn' = IF info[2] \in handlers
          THEN [conn EXCEPT ![c].st = "handled", ![c].args = info]
          ELSE Refused(c)

\* Mutant: a token that was used stays in the cache.
RemoveNothing ==
  /\ loop.at = "remove"
  /\ Dispatch(loop.cur, loop.info)
  /\ spent' = spent \cup {loop.info[1]}
  /\ loop' = AtRest("accept")
  /\ UNCHANGED <<cl, cache, backlog, full, Fixed>>

\* Mutant: a connection without a handler is left open.
RemoveLeavesOpen ==
  /\ loop.at = "remove"
  /\ cache' = Without(loop.info[1]) /\ spent' = spent \cup {loop.info[1]}
  /\ conn' = [conn EXCEPT ![loop.cur].st = IF loop.info[2] \in handlers THEN "handled" ELSE "refused",
                          ![loop.cur].args = loop.info]
  /\ loop' = AtRest("accept")
  /\ UNCHANGED <<cl, backlog, full, Fixed>>

\* Remove is a call of its own: tokens may be added since Get.
Remove ==
  /\ loop.at = "remove"
  /\ cache' = Without(loop.info[1]) /\ spent' = spent \cup {loop.info[1]}
  /\ Dispatch(loop.cur, loop.info)
  /\ loop' = AtRest("accept")
  /\ UNCHANGED <<cl, backlog, full, Fixed>>

----------------------------------------------------------------------------
(* The application's handlers, which "Must close the connection after it
   finished", and the faults. *)

Handled(c, k) == conn[c].st = "handled" /\ conn[c].args[2] = k /\ ~conn[c].sfin

\* early: before the end of the file, on a connection that is whole
HandlerCloses(c, early) == conn' = [conn EXCEPT ![c].sfin = TRUE, ![c].up = 0, ![c].early = early]
FileTransferHandler(c) ==
  /\ Handled(c, "TransferFile")
  /\ LET end == conn[c].broken \/ (conn[c].up = 0 /\ conn[c].cfin) IN
       \/ HandlerCloses(c, ~end)
       \/ ~end /\ conn[c].up > 0 /\ conn' = [conn EXCEPT ![c].up = @ - 1, ![c].moved = @ + 1]
  /\ UNCHANGED <<cl, Server, Fixed>>
DownloadFileHandler(c) ==
  /\ Handled(c, "DownloadFile")
  /\ LET end == conn[c].broken \/ conn[c].moved = Chunks IN
       \/ HandlerCloses(c, ~end)
       \/ /\ ~end
          /\ conn' = [conn EXCEPT ![c].moved = @ + 1, ![c].down = IF conn[c].cfin THEN @ ELSE @ + 1]
  /\ UNCHANGED <<cl, Server, Fixed>>
StreamHandler(c) ==
  /\ Handled(c, "Stream") /\ HandlerCloses(c, FALSE)
  /\ UNCHANGED <<cl, Server, Fixed>>

Cancel(c) ==
  /\ Fault /\ ~cl[c].cancelled /\ cl[c].pc \notin {"open", "done"}
  /\ cl' = [cl EXCEPT ![c].cancelled = TRUE]
  /\ UNCHANGED <<Service, conn, Server>>

\* The host of a caller is gone, without a word on its connection.
Vanish(c) ==
  /\ Fault /\ ~cl[c].dead /\ cl[c].pc \notin {"open", "done"}
  /\ cl' = [cl EXCEPT ![c].dead = TRUE]
  /\ UNCHANGED <<Service, conn, Server>>
KeepAlive(c) ==
  /\ cl[c].dead /\ conn[c].alive /\ ~conn[c].broken
  /\ conn' = [conn EXCEPT ![c].broken = TRUE]
  /\ UNCHANGED <<cl, Server, Fixed>>
\* A reset while both ends are there.
Break(c) ==
  /\ Fault /\ conn[c].st # "none" /\ ~conn[c].broken /\ ~conn[c].cfin /\ ~conn[c].sfin
  /\ conn' = [conn EXCEPT ![c].broken = TRUE]
  /\ UNCHANGED <<Service, cl, Server>>

\* The server's process is gone: a connection ends with a FIN or, if bytes were
\* unread or it was not accepted, with a reset.
Dies(v, fin) ==
  IF v.st = "none" \/ v.sfin THEN v
  ELSE [v EXCEPT !.sfin = TRUE, !.up = 0, !.early = fin, !.broken = @ \/ ~fin]
ServerDies ==
  /\ Fault /\ loop.at # "dead"
  /\ \E fin \in [Clients -> BOOLEAN] : conn' = [c \in Clients |-> Dies(conn[c], fin[c])]
  /\ loop' = AtRest("dead") /\ backlog' = <<>>
  /\ UNCHANGED <<Service, cl, cache, spent, full>>

----------------------------------------------------------------------------
Caller(c) ==
  \/ Open(c) \/ CallReturns(c) \/ Dial(c) \/ SendToken(c) \/ StreamClosed(c)
  \/ SendFile(c) \/ DownloadFile(c)
Handler(c) == FileTransferHandler(c) \/ DownloadFileHandler(c) \/ StreamHandler(c)
Loop == Listen \/ Accept \/ ReadToken \/ Remove

Next ==
  \/ Loop \/ AcceptFails \/ ServerDies
  \/ \E c \in Clients :
       \/ Caller(c) \/ Handler(c)
       \/ TransferFile(c) \/ DownloadToken(c) \/ StreamToken(c)
       \/ Cancel(c) \/ Vanish(c) \/ KeepAlive(c) \/ Break(c)

\* Goroutines that can run do, Call ends by its own guarantees, handlers work
\* on what arrives, and keep-alive finds a host that is gone.  No fault is fair,
\* and neither is the RPC's execution nor a silent caller's token.
Spec ==
  /\ Init /\ [][Next]_vars
  /\ WF_vars(Loop)
  /\ \A c \in Clients :
       /\ WF_vars((c \in silent => cl[c].pc # "token") /\ Caller(c))
       /\ WF_vars(Handler(c)) /\ WF_vars(KeepAlive(c))

----------------------------------------------------------------------------
TypeOK ==
  /\ full \in BOOLEAN /\ faults \in 0..MaxFaults
  /\ \A c \in Clients :
       /\ cl[c].pc \in {"open", "call", "dial", "token", "held", "io", "spin", "done"}
       /\ cl[c].err \in {"none", "nil", "error"}
       /\ cl[c].n \in 0..MaxTokens /\ cl[c].moved \in 0..Chunks
       /\ cl[c].tok \in Issued \cup {<<>>}
       /\ conn[c].st \in {"none", "queued", "accepted", "handled", "refused"}
       /\ {conn[c].up, conn[c].down, conn[c].moved} \subseteq 0..Chunks
  /\ Len(cache) <= WaitNum
  /\ loop.at \in {"new", "deaf", "accept", "read", "remove", "end", "dead"}
  /\ backlog \in Seq(Clients) /\ spent \subseteq Issued

\* A handler runs for the call that asked for it: the arguments with which
\* start runs a handler on a connection are those of the dialler's own call
\* and of its own kind, whatever tokens other callers and retries left behind.
HandlerOfItsCall ==
  \A c \in Clients : conn[c].st = "handled" => conn[c].args = <<cl[c].tok, kind[c]>>

\* As long as no more than WaitNum tokens were ever out at once, the cache holds
\* every token that was handed out and not taken: nobody is refused for an entry
\* that has served its purpose, Get and Remove being two calls notwithstanding.
PendingAreKept ==
  ~full => {e[1] : e \in Range(cache)} = Issued \ spent

\* DownloadFile that returns nil saved all that was written to its connection,
\* up to a FIN: a reset is never taken for the end of the file.  A FIN is, and it
\* is the end unless the handler gave up, the server's process ended or the token
\* was refused, none of which the caller can tell from it.
NilIsAllSent ==
  \A c \in Clients :
    (kind[c] = "DownloadFile" /\ cl[c].err = "nil") =>
       /\ cl[c].moved = conn[c].moved /\ conn[c].sfin /\ ~conn[c].broken
       /\ cl[c].moved = Chunks \/ conn[c].early \/ conn[c].st = "refused"

\* The accept loop waits for the token of a dialler that is there and silent.
HeldUp ==
  /\ loop.at = "read"
  /\ cl[loop.cur].pc = "token" /\ ~cl[loop.cur].dead /\ ~conn[loop.cur].broken
Gone == loop.at \in {"end", "dead"}

\* A file that SendFile reports as sent reaches the handler whole, unless the
\* token was pushed out of the cache or has no handler, the handler gave up, the
\* connection broke, the accept loop is gone, or a silent dialler holds it up.
SentArrives ==
  \A c \in Clients :
    []<>~HeldUp =>
      ((kind[c] = "TransferFile" /\ cl[c].err = "nil") ~>
         (conn[c].moved = Chunks \/ conn[c].st = "refused" \/ conn[c].broken \/ conn[c].early \/ Gone))

\* The accept loop reads tokens inline and without a deadline.  Only a dialler that
\* is there and never says anything holds up all others for ever: keep-alive ends
\* the read when the host is gone, and otherwise every connection is dealt with
\* while the loop runs.
EveryoneIsAccepted ==
  \A c \in Clients :
    []<>~HeldUp => ((conn[c].st = "queued") ~> (conn[c].st \in {"handled", "refused"} \/ Gone))

\* A transfer ends, in success or failure, unless its context is done when the
\* loop looks, its host vanished, the accept loop is gone, or a silent dialler
\* holds that up.
TransferEnds ==
  \A c \in Clients :
    []<>~HeldUp =>
      ((cl[c].pc = "call" /\ c \notin silent) ~> (cl[c].pc \in {"done", "spin"} \/ cl[c].dead \/ Gone))
=============================================================================
