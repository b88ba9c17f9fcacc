--------------------------- MODULE TransferProofs ---------------------------
(***************************************************************************)
(* Proofs about Transfer for every set of clients, every service, every    *)
(* size of the token cache and of the files, and every number of faults:   *)
(* whose call a handler runs for, what the token cache keeps, and what a   *)
(* DownloadFile that returns nil has saved.                                *)
(***************************************************************************)
EXTENDS Transfer, FiniteSetTheorems, TLAPS
-----------------------------------------------------------------------------
(* Types *)

Kinds == {"TransferFile", "DownloadFile", "Stream"}
Tokens == Clients \X Nat
Infos == Tokens \X Kinds
Callers ==
  [pc : {"open", "call", "dial", "token", "held", "io", "spin", "done"},
   err : {"none", "nil", "error"}, tok : Tokens \cup {<<>>}, n : Nat, moved : Nat,
   cancelled : BOOLEAN, dead : BOOLEAN]
Conns ==
  [st : {"none", "queued", "accepted", "handled", "refused"}, tok : Tokens \cup {<<>>},
   up : Nat, down : Nat, moved : Nat, cfin : BOOLEAN, sfin : BOOLEAN, broken : BOOLEAN,
   early : BOOLEAN, alive : BOOLEAN, args : Infos \cup {<<>>}]

Types ==
  /\ kind \in [Clients -> Kinds]
  /\ cl \in [Clients -> Callers] /\ conn \in [Clients -> Conns]
  /\ cache \in Seq(Infos) /\ backlog \in Seq(Clients)
  /\ loop \in [at : {"new", "deaf", "accept", "read", "remove", "end", "dead"},
               cur : Clients \cup {"none"}, info : Infos \cup {<<>>}]
-----------------------------------------------------------------------------
(* One transfer: its caller u and its connection v *)

\* The connection carries the token of the call that dialled it, and the
\* handler runs with what that token stands for.
OwnToken(c, k, u, v) ==
  /\ u.tok # <<>> => \E i \in 1..u.n : u.tok = <<c, i>>
  /\ u.pc \in {"open", "call", "dial"} => v = NoConn
  /\ v.tok \in {<<>>, u.tok}
  /\ v.st = "handled" => v.args = <<u.tok, k>>
  /\ u.pc = "held" => k = "Stream"

\* A download: what the caller has saved and what is on the way is what the
\* handler has written; the server's end closes when that is the whole file, or
\* early, or on a connection that was refused or broke.
AllSent(u, v) ==
  /\ u.moved = v.moved /\ v.sfin /\ ~v.broken
  /\ u.moved = Chunks \/ v.early \/ v.st = "refused"
NothingLost(k, u, v) ==
  /\ v.cfin => u.pc = "done"
  /\ u.err # "none" => u.pc = "done"
  /\ u.dead => u.err = "none"
  /\ k = "DownloadFile" =>
       /\ v.st # "handled" => v.moved = 0
       /\ ~v.cfin => u.moved + v.down = v.moved
       /\ v.sfin => v.st = "refused" \/ v.broken \/ v.early \/ v.moved = Chunks
       /\ u.err = "nil" => AllSent(u, v)

Fine(c, k, u, v) == u \in Callers /\ v \in Conns /\ OwnToken(c, k, u, v) /\ NothingLost(k, u, v)
AllFine == \A c \in Clients : Fine(c, kind[c], cl[c], conn[c])

\* The connections in the backlog were dialled and not accepted, the one the
\* loop is at was accepted; what Get found is the entry of that caller's call.
Queue ==
  /\ \A i \in DOMAIN backlog : conn[backlog[i]].st = "queued"
  /\ \A i, j \in DOMAIN backlog : backlog[i] = backlog[j] => i = j
  /\ loop.at \in {"read", "remove"} => loop.cur \in Clients /\ conn[loop.cur].st = "accepted"
  /\ loop.at = "remove" => loop.info = <<cl[loop.cur].tok, kind[loop.cur]>> /\ cl[loop.cur].tok # <<>>

\* The cache holds tokens that were handed out and not taken, each once and with
\* the kind its caller asked for, and all of them unless it was once full.
Entries ==
  /\ spent \subseteq Issued /\ IsFiniteSet(Issued)
  /\ \A i \in DOMAIN cache : cache[i][1] \in Issued \ spent /\ cache[i] = <<cache[i][1], kind[cache[i][1][1]]>>
  /\ \A i, j \in DOMAIN cache : cache[i][1] = cache[j][1] => i = j
  /\ ~full => \A t \in Issued \ spent : \E i \in DOMAIN cache : cache[i][1] = t

TransferInv == Types /\ AllFine /\ Queue /\ Entries
-----------------------------------------------------------------------------
(* A step of one transfer *)

\* What a caller does when it returns.
LEMMA ReturnEffect ==
  ASSUME Types, NEW c \in Clients, NEW e \in {"nil", "error"}, Return(c, e)
  PROVE  /\ cl' = [cl EXCEPT ![c] = [cl[c] EXCEPT !.pc = "done", !.err = e, !.cancelled = FALSE]]
         /\ conn' = [conn EXCEPT ![c] = [conn[c] EXCEPT !.cfin = conn[c].st # "none", !.down = 0]]
BY Zenon DEF Return, Types

LEMMA ReturnFine ==
  ASSUME NEW c, NEW k, NEW u, NEW v, Fine(c, k, u, v), NEW e \in {"nil", "error"},
         u.pc # "done", ~u.dead,
         k = "DownloadFile" /\ e = "nil" => AllSent(u, v),
         NEW x, x = [u EXCEPT !.pc = "done", !.err = e, !.cancelled = FALSE],
         NEW y, y = [v EXCEPT !.cfin = v.st # "none", !.down = 0]
  PROVE  Fine(c, k, x, y)
<1>1. x \in Callers /\ x.pc = "done" /\ x.err = e /\ x.tok = u.tok /\ x.n = u.n /\ x.moved = u.moved /\ x.dead = u.dead
  BY Zenon DEF Fine, Callers
<1>2. /\ y.st = v.st /\ y.tok = v.tok /\ y.down = 0 /\ y.moved = v.moved
      /\ y.args = v.args
  BY Zenon DEF Fine, Conns
<1>3. y \in Conns /\ y.sfin = v.sfin /\ y.broken = v.broken /\ y.early = v.early /\ y.cfin = (v.st # "none")
  BY Zenon DEF Fine, Conns
<1>4. OwnToken(c, k, x, y)
  BY <1>1, <1>2, Zenon DEF Fine, OwnToken
<1>5. NothingLost(k, x, y)
  <2>1. NothingLost(k, u, v) /\ v \in Conns /\ u \in Callers
    BY Zenon DEF Fine
  <2>2. u.pc # "done" /\ ~u.dead /\ (k = "DownloadFile" /\ e = "nil" => AllSent(u, v))
    BY Zenon
  <2> QED
    BY ONLY <1>1, <1>2, <1>3, <2>1, <2>2, SMTT(20) DEF NothingLost, AllSent, Callers, Conns
<1> QED
  BY <1>1, <1>3, <1>4, <1>5, Zenon DEF Fine

\* A caller that has its file, or needs none.
LEMMA OpenFine ==
  ASSUME NEW c, NEW k, NEW u, NEW v, Fine(c, k, u, v),
         u.pc = "open",
         NEW x, x = [u EXCEPT !.pc = "call"]
  PROVE  Fine(c, k, x, v)
<1>1. x \in Callers /\ x.pc = "call" /\ x.err = u.err /\ x.tok = u.tok /\ x.n = u.n /\ x.moved = u.moved /\ x.dead = u.dead
  BY Zenon DEF Fine, Callers
<1>2. OwnToken(c, k, x, v)
  BY <1>1, Zenon DEF Fine, OwnToken, Callers, NoConn
<1>3. NothingLost(k, x, v)
  BY <1>1, Zenon DEF Fine, OwnToken, NothingLost, AllSent, Callers, Conns, NoConn
<1> QED
  BY <1>1, <1>2, <1>3, Zenon DEF Fine

\* A caller whose RPC returned the token of one of its executions.
LEMMA TokenFine ==
  ASSUME NEW c, NEW k, NEW u, NEW v, Fine(c, k, u, v),
         c \in Clients,
         u.pc = "call",
         NEW i \in 1..u.n,
         NEW x, x = [u EXCEPT !.pc = "dial", !.tok = <<c, i>>]
  PROVE  Fine(c, k, x, v)
<1>1. <<c, i>> \in Tokens
  BY DEF Fine, Callers, Tokens
<1>2. x \in Callers /\ x.pc = "dial" /\ x.err = u.err /\ x.tok = <<c, i>> /\ x.n = u.n /\ x.moved = u.moved /\ x.dead = u.dead
  BY <1>1, Zenon DEF Fine, Callers
<1>3. OwnToken(c, k, x, v)
  BY <1>2 DEF Fine, OwnToken, Callers, NoConn
<1>4. NothingLost(k, x, v)
  BY <1>2, Zenon DEF Fine, OwnToken, NothingLost, AllSent, Callers, Conns, NoConn
<1> QED
  BY <1>2, <1>3, <1>4, Zenon DEF Fine

\* A caller that has dialled.
LEMMA DialFine ==
  ASSUME NEW c, NEW k, NEW u, NEW v, Fine(c, k, u, v),
         u.pc = "dial",
         NEW x, x = [u EXCEPT !.pc = "token"],
         NEW y, y = [v EXCEPT !.st = "queued"]
  PROVE  Fine(c, k, x, y)
<1>1. x \in Callers /\ x.pc = "token" /\ x.err = u.err /\ x.tok = u.tok /\ x.n = u.n /\ x.moved = u.moved /\ x.dead = u.dead
  BY Zenon DEF Fine, Callers
<1>2. y \in Conns /\ y.st = "queued" /\ y.tok = v.tok /\ y.down = v.down /\ y.moved = v.moved /\ y.args = v.args
  BY Zenon DEF Fine, Conns
<1>3. y.cfin = v.cfin /\ y.sfin = v.sfin /\ y.broken = v.broken /\ y.early = v.early
  BY Zenon DEF Fine, Conns
<1>4. OwnToken(c, k, x, y)
  BY <1>1, <1>2, <1>3, Zenon DEF Fine, OwnToken, Callers, NoConn
<1>5. NothingLost(k, x, y)
  BY <1>1, <1>2, <1>3 DEF Fine, OwnToken, NothingLost, AllSent, Callers, Conns, NoConn
<1> QED
  BY <1>1, <1>2, <1>3, <1>4, <1>5, Zenon DEF Fine

\* A caller that has sent its token.
LEMMA SendTokenFine ==
  ASSUME NEW c, NEW k, NEW u, NEW v, Fine(c, k, u, v),
         u.pc = "token",
         NEW l \in {"held", "io", "spin"}, l = "held" => k = "Stream",
         NEW x, x = [u EXCEPT !.pc = l],
         NEW y, y = [v EXCEPT !.tok = u.tok]
  PROVE  Fine(c, k, x, y)
<1>1. u.tok \in Tokens \cup {<<>>}
  BY Zenon DEF Fine, Callers
<1>2. x \in Callers /\ x.pc = l /\ x.err = u.err /\ x.tok = u.tok /\ x.n = u.n /\ x.moved = u.moved /\ x.dead = u.dead
  BY <1>1, Zenon DEF Fine, Callers
<1>3. y \in Conns /\ y.st = v.st /\ y.tok = u.tok /\ y.down = v.down /\ y.moved = v.moved /\ y.args = v.args
  BY <1>1, Zenon DEF Fine, Conns
<1>4. y.cfin = v.cfin /\ y.sfin = v.sfin /\ y.broken = v.broken /\ y.early = v.early
  BY <1>1, Zenon DEF Fine, Conns
<1>5. OwnToken(c, k, x, y)
  BY <1>2, <1>3, <1>4, Zenon DEF Fine, OwnToken, Callers, NoConn
<1>6. NothingLost(k, x, y)
  BY <1>2, <1>3, <1>4, Zenon DEF Fine, OwnToken, NothingLost, AllSent, Callers, Conns, NoConn
<1> QED
  BY <1>2, <1>3, <1>4, <1>5, <1>6, Zenon DEF Fine

\* A buffer of SendFile.
LEMMA UploadFine ==
  ASSUME NEW c, NEW k, NEW u, NEW v, Fine(c, k, u, v),
         k = "TransferFile",
         u.pc = "io",
         NEW l \in {"io", "spin"},
         NEW m \in Nat,
         NEW x, x = [u EXCEPT !.pc = l, !.moved = u.moved + 1],
         NEW y, y = [v EXCEPT !.up = m]
  PROVE  Fine(c, k, x, y)
<1>1. u.moved + 1 \in Nat
  BY DEF Fine, Callers
<1>2. x \in Callers /\ x.pc = l /\ x.err = u.err /\ x.tok = u.tok /\ x.n = u.n /\ x.moved = u.moved + 1 /\ x.dead = u.dead
  BY <1>1, Zenon DEF Fine, Callers
<1>3. y \in Conns /\ y.st = v.st /\ y.tok = v.tok /\ y.down = v.down /\ y.moved = v.moved /\ y.args = v.args
  BY <1>1, Zenon DEF Fine, Conns
<1>4. y.cfin = v.cfin /\ y.sfin = v.sfin /\ y.broken = v.broken /\ y.early = v.early
  BY <1>1, Zenon DEF Fine, Conns
<1>5. OwnToken(c, k, x, y)
  BY <1>2, <1>3, <1>4, Zenon DEF Fine, OwnToken, Callers, NoConn
<1>6. NothingLost(k, x, y)
  BY <1>2, <1>3, <1>4, Zenon DEF Fine, OwnToken, NothingLost, AllSent, Callers, Conns, NoConn
<1> QED
  BY <1>2, <1>3, <1>4, <1>5, <1>6, Zenon DEF Fine

\* A buffer of DownloadFile.
LEMMA DownloadFine ==
  ASSUME NEW c, NEW k, NEW u, NEW v, Fine(c, k, u, v),
         v.down > 0,
         u.pc = "io",
         NEW l \in {"io", "spin"},
         NEW x, x = [u EXCEPT !.pc = l, !.moved = u.moved + 1],
         NEW y, y = [v EXCEPT !.down = v.down - 1]
  PROVE  Fine(c, k, x, y)
<1>1. u.moved + 1 \in Nat /\ v.down - 1 \in Nat
  BY DEF Fine, Callers, Conns
<1>2. x \in Callers /\ x.pc = l /\ x.err = u.err /\ x.tok = u.tok /\ x.n = u.n /\ x.moved = u.moved + 1 /\ x.dead = u.dead
  BY <1>1, Zenon DEF Fine, Callers
<1>3. y \in Conns /\ y.st = v.st /\ y.tok = v.tok /\ y.down = v.down - 1 /\ y.moved = v.moved /\ y.args = v.args
  BY <1>1, Zenon DEF Fine, Conns
<1>4. y.cfin = v.cfin /\ y.sfin = v.sfin /\ y.broken = v.broken /\ y.early = v.early
  BY <1>1, Zenon DEF Fine, Conns
<1>5. OwnToken(c, k, x, y)
  BY <1>2, <1>3, <1>4, Zenon DEF Fine, OwnToken, Callers, NoConn
<1>6. NothingLost(k, x, y)
  BY <1>2, <1>3, <1>4 DEF Fine, OwnToken, NothingLost, AllSent, Callers, Conns, NoConn
<1> QED
  BY <1>2, <1>3, <1>4, <1>5, <1>6, Zenon DEF Fine

\* Another execution of the RPC.
LEMMA HandOutFine ==
  ASSUME NEW c, NEW k, NEW u, NEW v, Fine(c, k, u, v),
         u.pc # "open",
         NEW x, x = [u EXCEPT !.n = u.n + 1]
  PROVE  Fine(c, k, x, v)
<1>1. x \in Callers /\ x.pc = u.pc /\ x.err = u.err /\ x.tok = u.tok /\ x.n = u.n + 1 /\ x.moved = u.moved /\ x.dead = u.dead
  BY DEF Fine, Callers
<1>2. OwnToken(c, k, x, v)
  BY <1>1 DEF Fine, OwnToken, Callers, NoConn
<1>3. NothingLost(k, x, v)
  BY <1>1, Zenon DEF Fine, OwnToken, NothingLost, AllSent, Callers, Conns, NoConn
<1> QED
  BY <1>1, <1>2, <1>3, Zenon DEF Fine

\* The service accepts the connection.
LEMMA AcceptFine ==
  ASSUME NEW c, NEW k, NEW u, NEW v, Fine(c, k, u, v),
         v.st = "queued",
         NEW y, y = [v EXCEPT !.st = "accepted", !.alive = TRUE]
  PROVE  Fine(c, k, u, y)
<1>1. y \in Conns /\ y.st = "accepted" /\ y.tok = v.tok /\ y.down = v.down /\ y.moved = v.moved /\ y.args = v.args
  BY Zenon DEF Fine, Conns
<1>2. y.cfin = v.cfin /\ y.sfin = v.sfin /\ y.broken = v.broken /\ y.early = v.early
  BY Zenon DEF Fine, Conns
<1>3. OwnToken(c, k, u, y)
  BY <1>1, <1>2 DEF Fine, OwnToken, Callers, NoConn
<1>4. NothingLost(k, u, y)
  BY <1>1, <1>2, Zenon DEF Fine, OwnToken, NothingLost, AllSent, Callers, Conns, NoConn
<1> QED
  BY <1>1, <1>2, <1>3, <1>4, Zenon DEF Fine

\* The service closes the connection.
LEMMA RefusedFine ==
  ASSUME NEW c, NEW k, NEW u, NEW v, Fine(c, k, u, v),
         v.st = "accepted",
         NEW y, y = [v EXCEPT !.st = "refused", !.sfin = TRUE, !.up = 0]
  PROVE  Fine(c, k, u, y)
<1>1. y \in Conns /\ y.st = "refused" /\ y.tok = v.tok /\ y.down = v.down /\ y.moved = v.moved /\ y.args = v.args
  BY Zenon DEF Fine, Conns
<1>2. y.cfin = v.cfin /\ y.sfin = TRUE /\ y.broken = v.broken /\ y.early = v.early
  BY Zenon DEF Fine, Conns
<1>3. OwnToken(c, k, u, y)
  BY <1>1, <1>2 DEF Fine, OwnToken, Callers, NoConn
<1>4. NothingLost(k, u, y)
  BY <1>1, <1>2, Zenon DEF Fine, OwnToken, NothingLost, AllSent, Callers, Conns, NoConn
<1> QED
  BY <1>1, <1>2, <1>3, <1>4, Zenon DEF Fine

\* The service runs the handler of the entry that Get found.
LEMMA DispatchFine ==
  ASSUME NEW c, NEW k, NEW u, NEW v, Fine(c, k, u, v),
         v.st = "accepted",
         u.tok \in Tokens,
         k \in Kinds,
         NEW y, y = [v EXCEPT !.st = "handled", !.args = <<u.tok, k>>]
  PROVE  Fine(c, k, u, y)
<1>1. <<u.tok, k>> \in Infos
  BY Zenon DEF Infos
<1>2. y \in Conns /\ y.st = "handled" /\ y.tok = v.tok /\ y.down = v.down /\ y.moved = v.moved /\ y.args = <<u.tok, k>>
  BY <1>1, Zenon DEF Fine, Conns
<1>3. y.cfin = v.cfin /\ y.sfin = v.sfin /\ y.broken = v.broken /\ y.early = v.early
  BY <1>1, Zenon DEF Fine, Conns
<1>4. OwnToken(c, k, u, y)
  BY <1>2, <1>3 DEF Fine, OwnToken, Callers, NoConn
<1>5. NothingLost(k, u, y)
  BY <1>2, <1>3, Zenon DEF Fine, OwnToken, NothingLost, AllSent, Callers, Conns, NoConn
<1> QED
  BY <1>2, <1>3, <1>4, <1>5, Zenon DEF Fine

\* A handler that closes its connection.
LEMMA ClosesFine ==
  ASSUME NEW c, NEW k, NEW u, NEW v, Fine(c, k, u, v),
         v.st = "handled", ~v.sfin, NEW e \in BOOLEAN,
         k = "DownloadFile" => v.broken \/ v.moved = Chunks \/ e,
         NEW y, y = [v EXCEPT !.sfin = TRUE, !.up = 0, !.early = e]
  PROVE  Fine(c, k, u, y)
<1>1. y \in Conns /\ y.st = v.st /\ y.tok = v.tok /\ y.down = v.down /\ y.moved = v.moved /\ y.args = v.args
  BY Zenon DEF Fine, Conns
<1>2. y.cfin = v.cfin /\ y.sfin = TRUE /\ y.broken = v.broken /\ y.early = e
  BY Zenon DEF Fine, Conns
<1>3. OwnToken(c, k, u, y)
  BY <1>1, <1>2 DEF Fine, OwnToken, Callers, NoConn
<1>4. NothingLost(k, u, y)
  BY <1>1, <1>2, Zenon DEF Fine, OwnToken, NothingLost, AllSent, Callers, Conns, NoConn
<1> QED
  BY <1>1, <1>2, <1>3, <1>4, Zenon DEF Fine

\* The handler of an upload takes a buffer.
LEMMA TakesFine ==
  ASSUME NEW c, NEW k, NEW u, NEW v, Fine(c, k, u, v),
         v.st = "handled",
         k = "TransferFile",
         v.up > 0,
         NEW y, y = [v EXCEPT !.up = v.up - 1, !.moved = v.moved + 1]
  PROVE  Fine(c, k, u, y)
<1>1. v.moved + 1 \in Nat /\ v.up - 1 \in Nat
  BY DEF Fine, Conns
<1>2. y \in Conns /\ y.st = v.st /\ y.tok = v.tok /\ y.down = v.down /\ y.moved = v.moved + 1 /\ y.args = v.args
  BY <1>1, Zenon DEF Fine, Conns
<1>3. y.cfin = v.cfin /\ y.sfin = v.sfin /\ y.broken = v.broken /\ y.early = v.early
  BY <1>1, Zenon DEF Fine, Conns
<1>4. OwnToken(c, k, u, y)
  BY <1>2, <1>3 DEF Fine, OwnToken, Callers, NoConn
<1>5. NothingLost(k, u, y)
  BY <1>2, <1>3, Zenon DEF Fine, OwnToken, NothingLost, AllSent, Callers, Conns, NoConn
<1> QED
  BY <1>2, <1>3, <1>4, <1>5, Zenon DEF Fine

\* The handler of a download writes a buffer.
LEMMA GivesFine ==
  ASSUME NEW c, NEW k, NEW u, NEW v, Fine(c, k, u, v),
         v.st = "handled",
         ~v.sfin,
         NEW m \in Nat,
         ~v.cfin => m = v.down + 1,
         NEW y, y = [v EXCEPT !.moved = v.moved + 1, !.down = m]
  PROVE  Fine(c, k, u, y)
<1>1. v.moved + 1 \in Nat
  BY DEF Fine, Conns
<1>2. y \in Conns /\ y.st = v.st /\ y.tok = v.tok /\ y.down = m /\ y.moved = v.moved + 1 /\ y.args = v.args
  BY <1>1, Zenon DEF Fine, Conns
<1>3. y.cfin = v.cfin /\ y.sfin = v.sfin /\ y.broken = v.broken /\ y.early = v.early
  BY <1>1, Zenon DEF Fine, Conns
<1>4. OwnToken(c, k, u, y)
  BY <1>2, <1>3 DEF Fine, OwnToken, Callers, NoConn
<1>5. NothingLost(k, u, y)
  BY <1>2, <1>3 DEF Fine, OwnToken, NothingLost, AllSent, Callers, Conns, NoConn
<1> QED
  BY <1>2, <1>3, <1>4, <1>5, Zenon DEF Fine

\* A cancelled context.
LEMMA CancelFine ==
  ASSUME NEW c, NEW k, NEW u, NEW v, Fine(c, k, u, v),
         NEW x, x = [u EXCEPT !.cancelled = TRUE]
  PROVE  Fine(c, k, x, v)
<1>1. x \in Callers /\ x.pc = u.pc /\ x.err = u.err /\ x.tok = u.tok /\ x.n = u.n /\ x.moved = u.moved /\ x.dead = u.dead
  BY Zenon DEF Fine, Callers
<1>2. OwnToken(c, k, x, v)
  BY <1>1, Zenon DEF Fine, OwnToken, Callers, NoConn
<1>3. NothingLost(k, x, v)
  BY <1>1, Zenon DEF Fine, OwnToken, NothingLost, AllSent, Callers, Conns, NoConn
<1> QED
  BY <1>1, <1>2, <1>3, Zenon DEF Fine

\* A host that vanishes.
LEMMA VanishFine ==
  ASSUME NEW c, NEW k, NEW u, NEW v, Fine(c, k, u, v),
         u.pc # "done",
         NEW x, x = [u EXCEPT !.dead = TRUE]
  PROVE  Fine(c, k, x, v)
<1>1. x \in Callers /\ x.pc = u.pc /\ x.err = u.err /\ x.tok = u.tok /\ x.n = u.n /\ x.moved = u.moved /\ x.dead = TRUE
  BY Zenon DEF Fine, Callers
<1>2. OwnToken(c, k, x, v)
  BY <1>1, Zenon DEF Fine, OwnToken, Callers, NoConn
<1>3. NothingLost(k, x, v)
  BY <1>1, Zenon DEF Fine, OwnToken, NothingLost, AllSent, Callers, Conns, NoConn
<1> QED
  BY <1>1, <1>2, <1>3, Zenon DEF Fine

\* A connection that breaks.
LEMMA BrokenFine ==
  ASSUME NEW c, NEW k, NEW u, NEW v, Fine(c, k, u, v),
         v # NoConn,
         u.dead \/ ~v.sfin,
         NEW y, y = [v EXCEPT !.broken = TRUE]
  PROVE  Fine(c, k, u, y)
<1>1. y \in Conns /\ y.st = v.st /\ y.tok = v.tok /\ y.down = v.down /\ y.moved = v.moved /\ y.args = v.args
  BY Zenon DEF Fine, Conns
<1>2. y.cfin = v.cfin /\ y.sfin = v.sfin /\ y.broken = TRUE /\ y.early = v.early
  BY Zenon DEF Fine, Conns
<1>3. OwnToken(c, k, u, y)
  BY <1>1, <1>2, Zenon DEF Fine, OwnToken, Callers, NoConn
<1>4. NothingLost(k, u, y)
  BY <1>1, <1>2, Zenon DEF Fine, OwnToken, NothingLost, AllSent, Callers, Conns, NoConn
<1> QED
  BY <1>1, <1>2, <1>3, <1>4, Zenon DEF Fine

\* The end of the server's process, f with a FIN and b with or after a reset.
LEMMA DiesFine ==
  ASSUME NEW c, NEW k, NEW u, NEW v, Fine(c, k, u, v),
         v.st # "none", ~v.sfin, NEW f \in BOOLEAN, NEW b \in BOOLEAN, f \/ b,
         NEW y, y = [v EXCEPT !.sfin = TRUE, !.up = 0, !.early = f, !.broken = b]
  PROVE  Fine(c, k, u, y)
<1>1. y \in Conns /\ y.st = v.st /\ y.tok = v.tok /\ y.down = v.down /\ y.moved = v.moved /\ y.args = v.args
  BY Zenon DEF Fine, Conns
<1>2. y.cfin = v.cfin /\ y.sfin = TRUE /\ y.broken = b /\ y.early = f
  BY Zenon DEF Fine, Conns
<1>3. OwnToken(c, k, u, y)
  BY <1>1, <1>2 DEF Fine, OwnToken, Callers, NoConn
<1>4. NothingLost(k, u, y)
  BY <1>1, <1>2, Zenon DEF Fine, OwnToken, NothingLost, AllSent, Callers, Conns, NoConn
<1> QED
  BY <1>1, <1>2, <1>3, <1>4, Zenon DEF Fine
-----------------------------------------------------------------------------
(* The token cache *)

\* No key is there twice.
Distinct(s) == \A i, j \in DOMAIN s : s[i][1] = s[j][1] => i = j

\* A sequence without the element at i.
LEMMA CutOut ==
  ASSUME NEW S, NEW s \in Seq(S), NEW i \in 1..Len(s)
  PROVE  LET r == SubSeq(s, 1, i - 1) \o SubSeq(s, i + 1, Len(s))
         IN  /\ r \in Seq(S) /\ Len(r) = Len(s) - 1
             /\ \A j \in 1..(i - 1) : r[j] = s[j]
             /\ \A j \in i..Len(r) : r[j] = s[j + 1]
<1> DEFINE a == SubSeq(s, 1, i - 1)
           b == SubSeq(s, i + 1, Len(s))
<1>1. a \in Seq(S) /\ Len(a) = i - 1 /\ \A j \in 1..(i - 1) : a[j] = s[j]
  OBVIOUS
<1>2. b \in Seq(S) /\ Len(b) = Len(s) - i /\ \A j \in 1..(Len(s) - i) : b[j] = s[i + j]
  OBVIOUS
<1> HIDE DEF a, b
<1>3. a \o b \in Seq(S) /\ Len(a \o b) = Len(s) - 1
  <2>0. a \in Seq(S) /\ b \in Seq(S)
    BY <1>1, <1>2, Zenon
  <2>1. a \o b \in Seq(S) /\ Len(a \o b) = Len(a) + Len(b)
    BY <2>0
  <2>2. Len(s) \in Nat /\ i \in Nat
    OBVIOUS
  <2> QED
    BY <1>1, <1>2, <2>1, <2>2
<1>4. \A j \in 1..(i - 1) : (a \o b)[j] = s[j]
  BY <1>1, <1>2
<1>5. \A j \in i..(Len(s) - 1) : (a \o b)[j] = s[j + 1]
  <2> SUFFICES ASSUME NEW j \in i..(Len(s) - 1) PROVE (a \o b)[j] = s[j + 1]
    BY Zenon
  <2>1. Len(s) \in Nat /\ i \in Nat /\ j \in Nat
    OBVIOUS
  <2>2. j \in (Len(a) + 1)..(Len(a) + Len(b))
    BY <1>1, <1>2, <2>1
  <2>3. (a \o b)[j] = b[j - Len(a)]
    BY <1>1, <1>2, <2>1, <2>2
  <2>4. j - Len(a) \in 1..(Len(s) - i) /\ i + (j - Len(a)) = j + 1
    BY <1>1, <2>1
  <2> QED
    BY <1>2, <2>3, <2>4, Zenon
<1> QED
  BY <1>3, <1>4, <1>5, Zenon DEF a, b

\* Without drops the entry of a token, if there is one, and keeps the others.
LEMMA WithoutKeeps ==
  ASSUME cache \in Seq(Infos), Distinct(cache), NEW t
  PROVE  /\ Without(t) \in Seq(Infos) /\ Distinct(Without(t))
         /\ \A j \in DOMAIN Without(t) :
              \E i \in DOMAIN cache : Without(t)[j] = cache[i] /\ cache[i][1] # t
         /\ \A i \in DOMAIN cache : cache[i][1] # t =>
              \E j \in DOMAIN Without(t) : Without(t)[j] = cache[i]
<1>1. CASE ~Cached(t)
  BY <1>1, Zenon DEF Without, Cached
<1>2. CASE Cached(t)
  <2> DEFINE p == Place(t)
             r == Without(t)
  <2>1. p \in DOMAIN cache /\ cache[p][1] = t
    BY <1>2, Zenon DEF Cached, Place
  <2> HIDE DEF p
  <2>2. p \in 1..Len(cache)
    BY <2>1
  <2>3. r = SubSeq(cache, 1, p - 1) \o SubSeq(cache, p + 1, Len(cache))
    BY <1>2, Zenon DEF Without, p
  <2>4. /\ r \in Seq(Infos) /\ Len(r) = Len(cache) - 1
        /\ \A j \in 1..(p - 1) : r[j] = cache[j]
        /\ \A j \in p..Len(r) : r[j] = cache[j + 1]
    BY <2>2, <2>3, CutOut
  <2> HIDE DEF r
  <2>5. DOMAIN r = 1..(Len(cache) - 1) /\ DOMAIN cache = 1..Len(cache) /\ Len(cache) \in Nat
    BY <2>4
  <2>6. \A j \in DOMAIN r : \E i \in DOMAIN cache : i # p /\ r[j] = cache[i] /\ i = IF j < p THEN j ELSE j + 1
    <3> SUFFICES ASSUME NEW j \in DOMAIN r
                 PROVE  \E i \in DOMAIN cache : i # p /\ r[j] = cache[i] /\ i = IF j < p THEN j ELSE j + 1
      BY Zenon
    <3>1. CASE j < p
      BY <2>2, <2>4, <2>5, <3>1
    <3>2. CASE ~(j < p)
      <4>1. j + 1 \in DOMAIN cache /\ j + 1 # p /\ r[j] = cache[j + 1]
        BY <2>2, <2>4, <2>5, <3>2
      <4> QED
        BY <3>2, <4>1, Zenon
    <3> QED
      BY <3>1, <3>2, Zenon
  <2>7. \A i \in DOMAIN cache : i # p => \E j \in DOMAIN r : r[j] = cache[i]
    <3> SUFFICES ASSUME NEW i \in DOMAIN cache, i # p PROVE \E j \in DOMAIN r : r[j] = cache[i]
      BY Zenon
    <3>1. CASE i < p
      BY <2>2, <2>4, <2>5, <3>1
    <3>2. CASE i > p
      <4>1. i - 1 \in DOMAIN r /\ i - 1 \in p..Len(r) /\ (i - 1) + 1 = i
        BY <2>2, <2>4, <2>5, <3>2
      <4> QED
        BY <2>4, <4>1, Zenon
    <3> QED
      BY <2>2, <2>5, <3>1, <3>2
  <2>8. Distinct(r)
    <3> SUFFICES ASSUME NEW j \in DOMAIN r, NEW h \in DOMAIN r, r[j][1] = r[h][1] PROVE j = h
      BY Zenon DEF Distinct
    <3>1. PICK i \in DOMAIN cache : r[j] = cache[i] /\ i = IF j < p THEN j ELSE j + 1
      BY <2>6, Zenon
    <3>2. PICK g \in DOMAIN cache : r[h] = cache[g] /\ g = IF h < p THEN h ELSE h + 1
      BY <2>6, Zenon
    <3>3. i = g
      BY <3>1, <3>2, Zenon DEF Distinct
    <3> QED
      BY <2>2, <2>5, <3>1, <3>2, <3>3
  <2>9. \A i \in DOMAIN cache : cache[i][1] = t <=> i = p
    BY <2>1, Zenon DEF Distinct
  <2> QED
    BY <2>4, <2>6, <2>7, <2>8, <2>9, Zenon DEF r
<1> QED
  BY <1>1, <1>2, Zenon

\* r holds e, all that s holds, and nothing else.
Extended(r, s, e) ==
  /\ \A j \in DOMAIN r : r[j] = e \/ \E i \in DOMAIN s : r[j] = s[i]
  /\ \A i \in DOMAIN s : \E j \in DOMAIN r : r[j] = s[i]
  /\ \E j \in DOMAIN r : r[j] = e

\* An entry of a new key at the end.
LEMMA AppendKeeps ==
  ASSUME NEW s \in Seq(Infos), Distinct(s), NEW e \in Infos,
         \A i \in DOMAIN s : s[i][1] # e[1],
         NEW r, r = Append(s, e)
  PROVE  r \in Seq(Infos) /\ Distinct(r) /\ Extended(r, s, e)
<1>1. /\ r \in Seq(Infos) /\ Len(r) = Len(s) + 1 /\ Len(s) \in Nat
      /\ DOMAIN r = 1..(Len(s) + 1) /\ DOMAIN s = 1..Len(s)
      /\ \A i \in 1..Len(s) : r[i] = s[i]
      /\ r[Len(s) + 1] = e
  OBVIOUS
<1>2. Distinct(r)
  BY <1>1 DEF Distinct
<1>3. \A j \in DOMAIN r : r[j] = e \/ \E i \in DOMAIN s : r[j] = s[i]
  BY <1>1
<1>4. \A i \in DOMAIN s : \E j \in DOMAIN r : r[j] = s[i]
  BY <1>1
<1>5. \E j \in DOMAIN r : r[j] = e
  BY <1>1
<1> QED
  BY <1>1, <1>2, <1>3, <1>4, <1>5, Zenon DEF Extended

\* Entries depends on nothing but the cache and the tokens.
LEMMA EntriesKept ==
  ASSUME Types, Entries, UNCHANGED <<kind, cache, spent, full>>, cl' \in [Clients -> Callers],
         \A c \in Clients : cl'[c].n = cl[c].n
  PROVE  Entries'
<1>1. Issued' = Issued
  BY DEF Issued
<1> QED
  BY <1>1, Zenon DEF Entries

\* There are no more entries than tokens that are out.
LEMMA CacheFits ==
  ASSUME Types, Entries
  PROVE  IsFiniteSet(Issued \ spent) /\ Len(cache) <= Cardinality(Issued \ spent)
         /\ Cardinality(Issued \ spent) \in Nat
<1> DEFINE out == Issued \ spent
           f == [i \in 1..Len(cache) |-> cache[i][1]]
<1>1. IsFiniteSet(out) /\ Cardinality(out) \in Nat
  BY FS_Difference, FS_CardinalityType, Zenon DEF Entries
<1>2. Len(cache) \in Nat /\ DOMAIN cache = 1..Len(cache)
  BY DEF Types
<1>3. f \in Injection(1..Len(cache), out)
  <2>1. f \in [1..Len(cache) -> out]
    BY <1>2, Zenon DEF Entries
  <2>2. \A i, j \in 1..Len(cache) : f[i] = f[j] => i = j
    BY <1>2, Zenon DEF Entries
  <2> QED
    BY <2>1, <2>2, Zenon DEF Injection, IsInjective
<1>4. Cardinality(1..Len(cache)) <= Cardinality(out)
  BY <1>1, <1>3, FS_Injection, Zenon
<1>5. Cardinality(1..Len(cache)) = Len(cache)
  <2>1. 1 \in Int /\ Len(cache) \in Int
    BY <1>2
  <2>2. Cardinality(1..Len(cache)) = IF 1 > Len(cache) THEN 0 ELSE Len(cache) - 1 + 1
    BY <2>1, FS_Interval, Zenon
  <2> QED
    BY <1>2, <2>2
<1> QED
  BY <1>1, <1>4, <1>5, Zenon

\* Another token is handed out.
LEMMA HandOutEntries ==
  ASSUME Types, Entries, NEW c \in Clients, NEW k, k = kind[c], HandOut(c, k)
  PROVE  Entries' /\ cache' \in Seq(Infos)
<1> DEFINE t == <<c, cl[c].n + 1>>
           e == <<t, k>>
           old == IF Len(cache) < WaitNum THEN cache ELSE Tail(cache)
<1>1. /\ cache' = Append(old, e) /\ UNCHANGED <<kind, spent>>
      /\ cl' = [cl EXCEPT ![c].n = @ + 1]
      /\ full' = (full \/ Cardinality(Issued \ spent) >= WaitNum)
  BY Zenon DEF HandOut, LruAdd, Fixed, Service
<1>2. cl[c] \in Callers /\ cl[c].n \in Nat /\ t \in Tokens /\ e \in Infos
  BY DEF Types, Callers, Tokens, Infos
<1>3. Issued' = Issued \cup {t} /\ t \notin Issued
  <2>1. \A d \in Clients : d # c => cl'[d] = cl[d]
    BY <1>1, Zenon DEF Types
  <2>2. cl'[c].n = cl[c].n + 1
    BY <1>1, <1>2, Zenon DEF Types, Callers
  <2>3. t \notin Issued
    BY <1>2 DEF Issued
  <2>4. {<<c, i>> : i \in 1..cl'[c].n} = {<<c, i>> : i \in 1..cl[c].n} \cup {t}
    BY <1>2, <2>2
  <2>5. \A x : x \in Issued' <=> \E d \in Clients : x \in {<<d, i>> : i \in 1..cl'[d].n}
    BY Zenon DEF Issued
  <2>6. \A x : x \in Issued <=> \E d \in Clients : x \in {<<d, i>> : i \in 1..cl[d].n}
    BY Zenon DEF Issued
  <2>7. \A x : x \in Issued' <=> x \in Issued \/ x = t
    BY <2>1, <2>4, <2>5, <2>6
  <2> QED
    BY <2>3, <2>7, Zenon
<1>4. /\ old \in Seq(Infos) /\ Distinct(old)
      /\ \A j \in DOMAIN old : \E i \in DOMAIN cache : old[j] = cache[i]
      /\ Len(cache) < WaitNum => old = cache
  <2>1. CASE Len(cache) < WaitNum
    BY <2>1, Zenon DEF Types, Entries, Distinct
  <2>2. CASE ~(Len(cache) < WaitNum)
    <3>1. cache # <<>> /\ Len(cache) \in Nat /\ Len(cache) > 0
      BY <2>2, TransferConstants DEF Types
    <3>2. /\ Tail(cache) \in Seq(Infos) /\ Len(Tail(cache)) = Len(cache) - 1
          /\ DOMAIN Tail(cache) = 1..(Len(cache) - 1) /\ DOMAIN cache = 1..Len(cache)
          /\ \A i \in 1..(Len(cache) - 1) : Tail(cache)[i] = cache[i + 1]
      BY <3>1 DEF Types
    <3>3. \A i \in 1..(Len(cache) - 1) : i + 1 \in DOMAIN cache /\ i \in Int
      BY <3>1, <3>2
    <3>4. Distinct(Tail(cache))
      <4> SUFFICES ASSUME NEW i \in 1..(Len(cache) - 1), NEW j \in 1..(Len(cache) - 1),
                          Tail(cache)[i][1] = Tail(cache)[j][1]
                   PROVE  i = j
        BY <3>2, Zenon DEF Distinct
      <4>1. i + 1 = j + 1
        BY <3>2, <3>3 DEF Entries
      <4> QED
        BY <3>3, <4>1
    <3> QED
      BY <2>2, <3>2, <3>3, <3>4, Zenon
  <2> QED
    BY <2>1, <2>2, Zenon
<1>a. e = <<t, k>> /\ e[1] = t /\ t[1] = c
  BY Zenon
<1> HIDE DEF old, t, e
<1>5. \A j \in DOMAIN old : old[j][1] # e[1]
  <2> SUFFICES ASSUME NEW j \in DOMAIN old PROVE old[j][1] # t
    BY <1>a, Zenon
  <2>1. PICK i \in DOMAIN cache : old[j] = cache[i]
    BY <1>4, Zenon
  <2>2. cache[i][1] \in Issued
    BY Zenon DEF Entries
  <2> QED
    BY <1>3, <2>1, <2>2, Zenon
<1>6. /\ cache' \in Seq(Infos) /\ Distinct(cache')
      /\ \A j \in DOMAIN cache' : cache'[j] = e \/ \E i \in DOMAIN old : cache'[j] = old[i]
      /\ \A i \in DOMAIN old : \E j \in DOMAIN cache' : cache'[j] = old[i]
      /\ \E j \in DOMAIN cache' : cache'[j] = e
  <2>1. PICK r : r = cache'
    BY Zenon
  <2>2. old \in Seq(Infos) /\ Distinct(old) /\ e \in Infos /\ r = Append(old, e)
    BY <1>1, <1>2, <1>4, <2>1, Zenon
  <2>3. r \in Seq(Infos) /\ Distinct(r) /\ Extended(r, old, e)
    BY <2>2, <1>5, AppendKeeps, Zenon
  <2> QED
    BY <2>1, <2>3, Zenon DEF Extended
<1>7. spent' \subseteq Issued' /\ IsFiniteSet(Issued')
  BY <1>1, <1>3, FS_AddElement, Zenon DEF Entries
<1>8. \A j \in DOMAIN cache' : /\ cache'[j][1] \in Issued' \ spent'
                               /\ cache'[j] = <<cache'[j][1], kind'[cache'[j][1][1]]>>
  <2> SUFFICES ASSUME NEW j \in DOMAIN cache'
               PROVE  /\ cache'[j][1] \in Issued' \ spent'
                      /\ cache'[j] = <<cache'[j][1], kind'[cache'[j][1][1]]>>
    BY Zenon
  <2>1. CASE cache'[j] = e
    BY <1>1, <1>3, <1>a, <2>1, Zenon DEF Entries
  <2>2. CASE \E i \in DOMAIN cache : cache'[j] = cache[i]
    BY <1>1, <1>3, <2>2 DEF Entries
  <2> QED
    BY <1>4, <1>6, <2>1, <2>2
<1>9. ~full' => \A x \in Issued' \ spent' : \E j \in DOMAIN cache' : cache'[j][1] = x
  <2> SUFFICES ASSUME ~full', NEW x \in Issued' \ spent' PROVE \E j \in DOMAIN cache' : cache'[j][1] = x
    BY Zenon
  <2>0. ~full /\ ~(Cardinality(Issued \ spent) >= WaitNum)
    BY <1>1, Zenon
  <2>1. ~full /\ Cardinality(Issued \ spent) < WaitNum
    BY <2>0, CacheFits, TransferConstants
  <2>2. old = cache
    <3>1. Len(cache) <= Cardinality(Issued \ spent) /\ Cardinality(Issued \ spent) \in Nat /\ Len(cache) \in Nat
      BY CacheFits DEF Types
    <3> QED
      BY <1>4, <2>1, <3>1, TransferConstants
  <2>3. CASE x = t
    BY <1>6, <1>a, <2>3, Zenon
  <2>4. CASE x \in Issued \ spent
    BY <1>6, <2>1, <2>2, <2>4 DEF Entries
  <2> QED
    BY <1>1, <1>3, <2>3, <2>4, Zenon
<1> QED
  BY <1>6, <1>7, <1>8, <1>9, Zenon DEF Entries, Distinct

\* Get makes the entry the newest.
LEMMA GetEntries ==
  ASSUME Types, Entries, NEW t, Cached(t), cache' = Append(Without(t), cache[Place(t)]),
         UNCHANGED <<kind, cl, spent, full>>
  PROVE  /\ Entries' /\ cache' \in Seq(Infos)
         /\ t \in Issued \ spent /\ cache[Place(t)] = <<t, kind[t[1]]>> /\ cache[Place(t)] \in Infos
<1> DEFINE e == cache[Place(t)]
           w == Without(t)
<1>1. Place(t) \in DOMAIN cache /\ e[1] = t
  BY Zenon DEF Cached, Place
<1>2. e \in Infos /\ t \in Issued \ spent /\ e = <<t, kind[t[1]]>>
  BY <1>1 DEF Types, Entries
<1>3. /\ w \in Seq(Infos) /\ Distinct(w)
      /\ \A j \in DOMAIN w : \E i \in DOMAIN cache : w[j] = cache[i] /\ cache[i][1] # t
      /\ \A i \in DOMAIN cache : cache[i][1] # t => \E j \in DOMAIN w : w[j] = cache[i]
  BY WithoutKeeps, Zenon DEF Types, Entries, Distinct
<1> HIDE DEF e, w
<1>4. \A j \in DOMAIN w : w[j][1] # e[1]
  BY <1>1, <1>3, Zenon
<1>5. cache' = Append(w, e)
  BY Zenon DEF w, e
<1>6. /\ cache' \in Seq(Infos) /\ Distinct(cache')
      /\ \A j \in DOMAIN cache' : cache'[j] = e \/ \E i \in DOMAIN w : cache'[j] = w[i]
      /\ \A i \in DOMAIN w : \E j \in DOMAIN cache' : cache'[j] = w[i]
      /\ \E j \in DOMAIN cache' : cache'[j] = e
  <2>1. PICK r : r = cache'
    BY Zenon
  <2>2. w \in Seq(Infos) /\ Distinct(w) /\ e \in Infos /\ r = Append(w, e)
    BY <1>2, <1>3, <1>5, <2>1, Zenon DEF e
  <2>3. r \in Seq(Infos) /\ Distinct(r) /\ Extended(r, w, e)
    BY <2>2, <1>4, AppendKeeps, Zenon
  <2> QED
    BY <2>1, <2>3, Zenon DEF Extended
<1>7. Issued' = Issued
  BY DEF Issued
<1>8. \A j \in DOMAIN cache' : \E i \in DOMAIN cache : cache'[j] = cache[i]
  <2>1. e = cache[Place(t)]
    BY Zenon DEF e
  <2> SUFFICES ASSUME NEW j \in DOMAIN cache' PROVE \E i \in DOMAIN cache : cache'[j] = cache[i]
    BY Zenon
  <2>2. CASE cache'[j] = e
    BY <1>1, <2>1, <2>2, Zenon
  <2>3. ASSUME NEW i \in DOMAIN w, cache'[j] = w[i] PROVE \E h \in DOMAIN cache : cache'[j] = cache[h]
    BY <1>3, <2>3
  <2> QED
    BY <1>6, <2>2, <2>3, Zenon
<1>9. \A i \in DOMAIN cache : \E j \in DOMAIN cache' : cache'[j][1] = cache[i][1]
  <2> SUFFICES ASSUME NEW i \in DOMAIN cache PROVE \E j \in DOMAIN cache' : cache'[j][1] = cache[i][1]
    BY Zenon
  <2>1. CASE cache[i][1] = t
    BY <1>1, <1>6, <2>1, Zenon
  <2>2. CASE cache[i][1] # t
    <3>1. PICK j \in DOMAIN w : w[j] = cache[i]
      BY <1>3, <2>2, Zenon
    <3>2. PICK h \in DOMAIN cache' : cache'[h] = w[j]
      BY <1>6, Zenon
    <3> QED
      BY <3>1, <3>2, Zenon
  <2> QED
    BY <2>1, <2>2, Zenon
<1>10. Entries'
  <2>1. Distinct(cache')
    BY <1>6, Zenon
  <2>2. \A j \in DOMAIN cache' : /\ cache'[j][1] \in Issued \ spent
                                 /\ cache'[j] = <<cache'[j][1], kind[cache'[j][1][1]]>>
    BY <1>8 DEF Entries
  <2>3. ~full => \A x \in Issued \ spent : \E j \in DOMAIN cache' : cache'[j][1] = x
    BY <1>9 DEF Entries
  <2> QED
    BY <1>7, <2>1, <2>2, <2>3, Zenon DEF Entries, Distinct
<1> QED
  BY <1>2, <1>6, <1>10, Zenon DEF e

\* Remove takes the token.
LEMMA RemoveEntries ==
  ASSUME Types, Entries, NEW t \in Issued, cache' = Without(t), spent' = spent \cup {t},
         UNCHANGED <<kind, cl, full>>
  PROVE  Entries' /\ cache' \in Seq(Infos)
<1>1. /\ cache' \in Seq(Infos) /\ Distinct(cache')
      /\ \A j \in DOMAIN cache' : \E i \in DOMAIN cache : cache'[j] = cache[i] /\ cache[i][1] # t
      /\ \A i \in DOMAIN cache : cache[i][1] # t => \E j \in DOMAIN cache' : cache'[j] = cache[i]
  BY WithoutKeeps DEF Types, Entries, Distinct
<1>2. Issued' = Issued
  BY DEF Issued
<1> QED
  BY <1>1, <1>2 DEF Entries, Distinct
-----------------------------------------------------------------------------
(* The steps *)

\* The transfer of c becomes the caller u and the connection v.
Becomes(c, u, v) ==
  /\ cl' = [cl EXCEPT ![c] = u] /\ conn' = [conn EXCEPT ![c] = v] /\ kind' = kind
  /\ Fine(c, kind[c], u, v)

LEMMA BecomesFine ==
  ASSUME Types, AllFine, NEW c \in Clients, NEW u, NEW v, Becomes(c, u, v)
  PROVE  /\ AllFine' /\ cl' \in [Clients -> Callers] /\ conn' \in [Clients -> Conns]
         /\ cl'[c] = u /\ conn'[c] = v
         /\ \A d \in Clients \ {c} : cl'[d] = cl[d] /\ conn'[d] = conn[d]
<1>1. u \in Callers /\ v \in Conns
  BY Zenon DEF Becomes, Fine
<1>2. /\ cl' \in [Clients -> Callers] /\ conn' \in [Clients -> Conns]
      /\ cl'[c] = u /\ conn'[c] = v
      /\ \A d \in Clients \ {c} : cl'[d] = cl[d] /\ conn'[d] = conn[d]
  BY <1>1, Zenon DEF Becomes, Types
<1>3. \A d \in Clients : Fine(d, kind'[d], cl'[d], conn'[d])
  BY <1>2, Zenon DEF Becomes, AllFine
<1> QED
  BY <1>2, <1>3, Zenon DEF AllFine

\* A step of one transfer that the service does not see: no RPC ran, the
\* connection is where it was, and the token is the one that it carries.
Local(c, u, v) ==
  /\ Becomes(c, u, v)
  /\ u.n = cl[c].n /\ v.st = conn[c].st /\ (conn[c].st # "none" => u.tok = cl[c].tok)

LEMMA LocalStep ==
  ASSUME TransferInv, NEW c \in Clients, NEW u, NEW v, Local(c, u, v), UNCHANGED Server
  PROVE  TransferInv'
<1>1. /\ AllFine' /\ cl' \in [Clients -> Callers] /\ conn' \in [Clients -> Conns]
      /\ cl'[c] = u /\ conn'[c] = v
      /\ \A d \in Clients \ {c} : cl'[d] = cl[d] /\ conn'[d] = conn[d]
  BY BecomesFine, Zenon DEF Local, TransferInv
<1>2. /\ \A d \in Clients : cl'[d].n = cl[d].n /\ conn'[d].st = conn[d].st
      /\ \A d \in Clients : conn[d].st # "none" => cl'[d].tok = cl[d].tok
  BY <1>1, Zenon DEF Local
<1>3. UNCHANGED <<kind, cache, loop, backlog, spent, full>>
  BY Zenon DEF Local, Becomes, Server
<1>4. Types'
  BY <1>1, <1>3, Zenon DEF TransferInv, Types
<1>5. Queue'
  <2>1. \A i \in DOMAIN backlog : backlog[i] \in Clients
    BY DEF TransferInv, Types
  <2> QED
    BY <1>2, <1>3, <2>1, Zenon DEF TransferInv, Queue
<1>6. Entries'
  BY <1>1, <1>2, <1>3, EntriesKept, Zenon DEF TransferInv
<1> QED
  BY <1>1, <1>4, <1>5, <1>6, Zenon DEF TransferInv

\* What is known of a transfer before its step.
LEMMA Before ==
  ASSUME TransferInv, NEW c \in Clients
  PROVE  /\ Fine(c, kind[c], cl[c], conn[c]) /\ cl[c] \in Callers /\ conn[c] \in Conns
         /\ kind[c] \in Kinds
         /\ cl[c].pc \in {"open", "call", "dial"} => conn[c] = NoConn
         /\ cl = [cl EXCEPT ![c] = cl[c]] /\ conn = [conn EXCEPT ![c] = conn[c]]
BY Zenon DEF TransferInv, Types, AllFine, Fine, OwnToken

\* A caller that returns.
LEMMA ReturnLocal ==
  ASSUME TransferInv, NEW c \in Clients, NEW e \in {"nil", "error"}, Return(c, e), kind' = kind,
         cl[c].pc # "done", ~cl[c].dead,
         kind[c] = "DownloadFile" /\ e = "nil" => AllSent(cl[c], conn[c])
  PROVE  \E u, v : Local(c, u, v)
<1> DEFINE u == [cl[c] EXCEPT !.pc = "done", !.err = e, !.cancelled = FALSE]
           v == [conn[c] EXCEPT !.cfin = conn[c].st # "none", !.down = 0]
<1>1. cl' = [cl EXCEPT ![c] = u] /\ conn' = [conn EXCEPT ![c] = v]
  BY ReturnEffect, Zenon DEF TransferInv
<1>2. Fine(c, kind[c], u, v)
  <2>1. Fine(c, kind[c], cl[c], conn[c])
    BY Before, Zenon
  <2> QED
    BY <2>1, ReturnFine, Zenon
<1>3. u.n = cl[c].n /\ v.st = conn[c].st /\ u.tok = cl[c].tok
  BY Before, Zenon DEF Callers, Conns
<1> HIDE DEF u, v
<1> QED
  BY <1>1, <1>2, <1>3, Zenon DEF Local, Becomes

\* Every step of a caller but Dial is local.
LEMMA CallerLocal ==
  ASSUME TransferInv, NEW c \in Clients, kind' = kind,
         Open(c) \/ CallReturns(c) \/ SendToken(c) \/ StreamClosed(c) \/ SendFile(c) \/ DownloadFile(c)
  PROVE  \E u, v : Local(c, u, v)
<1>0. /\ Fine(c, kind[c], cl[c], conn[c]) /\ cl[c] \in Callers /\ conn[c] \in Conns
      /\ cl[c].pc \in {"open", "call", "dial"} => conn[c] = NoConn
      /\ cl = [cl EXCEPT ![c] = cl[c]] /\ conn = [conn EXCEPT ![c] = conn[c]]
  BY Before, Zenon
<1>1. CASE Return(c, "error") /\ cl[c].pc # "done" /\ ~cl[c].dead
  BY <1>1, ReturnLocal, Zenon
<1>2. CASE Open(c)
  <2>1. CASE GoTo(c, "call") /\ UNCHANGED conn
    <3> DEFINE u == [cl[c] EXCEPT !.pc = "call"]
    <3>1. cl[c].pc = "open" /\ cl' = [cl EXCEPT ![c] = u] /\ conn' = [conn EXCEPT ![c] = conn[c]]
      BY <1>0, <1>2, <2>1, Zenon DEF Open, At, GoTo
    <3>2. Fine(c, kind[c], u, conn[c])
      BY <1>0, <3>1, OpenFine, Zenon
    <3>3. u.n = cl[c].n /\ u.tok = cl[c].tok
      BY <1>0, Zenon DEF Callers
    <3> HIDE DEF u
    <3> QED
      BY <3>1, <3>2, <3>3, Zenon DEF Local, Becomes
  <2> QED
    BY <1>1, <1>2, <2>1, Zenon DEF Open, At
<1>3. CASE CallReturns(c)
  <2>1. ASSUME NEW i \in 1..cl[c].n, cl' = [cl EXCEPT ![c].pc = "dial", ![c].tok = <<c, i>>], UNCHANGED conn
        PROVE  \E u, v : Local(c, u, v)
    <3> DEFINE u == [cl[c] EXCEPT !.pc = "dial", !.tok = <<c, i>>]
    <3>1. cl[c].pc = "call" /\ cl' = [cl EXCEPT ![c] = u] /\ conn' = [conn EXCEPT ![c] = conn[c]]
      BY <1>0, <1>3, <2>1, Zenon DEF CallReturns, At, TransferInv, Types
    <3>2. Fine(c, kind[c], u, conn[c])
      BY <1>0, <3>1, TokenFine, Zenon
    <3>3. u.n = cl[c].n /\ conn[c].st = "none"
      BY <1>0, <3>1 DEF Callers, NoConn
    <3> HIDE DEF u
    <3> QED
      BY <3>1, <3>2, <3>3, Zenon DEF Local, Becomes
  <2> QED
    BY <1>1, <1>3, <2>1, Zenon DEF CallReturns, At
<1>4. CASE SendToken(c)
  <2>1. CASE ~conn[c].broken
    <3> DEFINE l == IF kind[c] = "Stream" THEN "held" ELSE Select(c)
               u == [cl[c] EXCEPT !.pc = l]
               v == [conn[c] EXCEPT !.tok = cl[c].tok]
    <3>1. /\ cl[c].pc = "token" /\ cl' = [cl EXCEPT ![c] = u] /\ conn' = [conn EXCEPT ![c] = v]
      BY <1>4, <2>1, Zenon DEF SendToken, At
    <3>2. l \in {"held", "io", "spin"} /\ (l = "held" => kind[c] = "Stream")
      BY Zenon DEF Select
    <3> HIDE DEF l
    <3>3. Fine(c, kind[c], u, v)
      BY <1>0, <3>1, <3>2, SendTokenFine, Zenon
    <3>4. u.n = cl[c].n /\ v.st = conn[c].st /\ u.tok = cl[c].tok
      BY <1>0, Zenon DEF Callers, Conns
    <3> HIDE DEF u, v
    <3> QED
      BY <3>1, <3>3, <3>4, Zenon DEF Local, Becomes
  <2> QED
    BY <1>1, <1>4, <2>1, Zenon DEF SendToken, At
<1>5. CASE StreamClosed(c)
  <2>1. kind[c] = "Stream" /\ Return(c, "nil") /\ cl[c].pc # "done" /\ ~cl[c].dead
    BY <1>0, <1>5, Zenon DEF StreamClosed, At, Fine, OwnToken
  <2> QED
    BY <2>1, ReturnLocal, Zenon
<1>6. CASE SendFile(c)
  <2>1. CASE Return(c, "nil")
    BY <1>6, <2>1, ReturnLocal, Zenon DEF SendFile, At
  <2>2. CASE /\ cl' = [cl EXCEPT ![c].pc = Select(c), ![c].moved = @ + 1]
             /\ conn' = [conn EXCEPT ![c].up = IF conn[c].sfin THEN @ ELSE @ + 1]
    <3> DEFINE l == Select(c)
               m == IF conn[c].sfin THEN conn[c].up ELSE conn[c].up + 1
               u == [cl[c] EXCEPT !.pc = l, !.moved = cl[c].moved + 1]
               v == [conn[c] EXCEPT !.up = m]
    <3>1. cl' = [cl EXCEPT ![c] = u] /\ conn' = [conn EXCEPT ![c] = v]
      BY <2>2, Zenon DEF TransferInv, Types
    <3>2. l \in {"io", "spin"} /\ m \in Nat
      BY <1>0 DEF Select, Conns
    <3> HIDE DEF l, m
    <3>3. kind[c] = "TransferFile" /\ cl[c].pc = "io"
      BY <1>6, Zenon DEF SendFile, At
    <3>4. Fine(c, kind[c], u, v)
      BY <1>0, <3>2, <3>3, UploadFine, Zenon
    <3>5. u.n = cl[c].n /\ v.st = conn[c].st /\ u.tok = cl[c].tok
      BY <1>0, Zenon DEF Callers, Conns
    <3> HIDE DEF u, v
    <3> QED
      BY <3>1, <3>4, <3>5, Zenon DEF Local, Becomes
  <2> QED
    BY <1>1, <1>6, <2>1, <2>2, Zenon DEF SendFile, At
<1>7. CASE DownloadFile(c)
  <2>1. CASE conn[c].down = 0 /\ conn[c].sfin /\ ~conn[c].broken /\ Return(c, "nil")
    <3>1. kind[c] = "DownloadFile" /\ cl[c].pc = "io" /\ ~cl[c].dead
      BY <1>7, Zenon DEF DownloadFile, At
    <3>2. AllSent(cl[c], conn[c])
      BY <1>0, <2>1, <3>1 DEF Fine, NothingLost, AllSent, Callers, Conns
    <3> QED
      BY <2>1, <3>1, <3>2, ReturnLocal, Zenon
  <2>2. CASE /\ cl' = [cl EXCEPT ![c].pc = Select(c), ![c].moved = @ + 1]
             /\ conn' = [conn EXCEPT ![c].down = @ - 1]
             /\ conn[c].down > 0
    <3> DEFINE l == Select(c)
               u == [cl[c] EXCEPT !.pc = l, !.moved = cl[c].moved + 1]
               v == [conn[c] EXCEPT !.down = conn[c].down - 1]
    <3>1. cl' = [cl EXCEPT ![c] = u] /\ conn' = [conn EXCEPT ![c] = v]
      BY <2>2, Zenon DEF TransferInv, Types
    <3>2. l \in {"io", "spin"}
      BY <1>0, Zenon DEF Select, Conns
    <3> HIDE DEF l
    <3>3. cl[c].pc = "io"
      BY <1>7, Zenon DEF DownloadFile, At
    <3>4. Fine(c, kind[c], u, v)
      BY <1>0, <2>2, <3>2, <3>3, DownloadFine, Zenon
    <3>5. u.n = cl[c].n /\ v.st = conn[c].st /\ u.tok = cl[c].tok
      BY <1>0, Zenon DEF Callers, Conns
    <3> HIDE DEF u, v
    <3> QED
      BY <3>1, <3>4, <3>5, Zenon DEF Local, Becomes
  <2> QED
    BY <1>1, <1>7, <2>1, <2>2, Zenon DEF DownloadFile, At
<1> QED
  BY <1>2, <1>3, <1>4, <1>5, <1>6, <1>7, Zenon

\* Every step of a handler is local.
LEMMA HandlerLocal ==
  ASSUME TransferInv, NEW c \in Clients, Handler(c)
  PROVE  \E u, v : Local(c, u, v)
<1>0. /\ Fine(c, kind[c], cl[c], conn[c]) /\ cl[c] \in Callers /\ conn[c] \in Conns
      /\ cl = [cl EXCEPT ![c] = cl[c]] /\ cl' = cl /\ kind' = kind
  BY Before, Zenon DEF Handler, FileTransferHandler, DownloadFileHandler, StreamHandler, Fixed, Service
<1>1. conn[c].st = "handled" /\ ~conn[c].sfin /\ kind[c] = conn[c].args[2]
  <2>1. PICK k : Handled(c, k)
    BY Zenon DEF Handler, FileTransferHandler, DownloadFileHandler, StreamHandler
  <2>2. conn[c].st = "handled" /\ ~conn[c].sfin /\ conn[c].args = <<cl[c].tok, kind[c]>>
    BY <1>0, <2>1, Zenon DEF Handled, Fine, OwnToken
  <2> QED
    BY <2>2
<1>2. ASSUME NEW e \in BOOLEAN, HandlerCloses(c, e),
             kind[c] = "DownloadFile" => conn[c].broken \/ conn[c].moved = Chunks \/ e
      PROVE  \E u, v : Local(c, u, v)
  <2> DEFINE v == [conn[c] EXCEPT !.sfin = TRUE, !.up = 0, !.early = e]
  <2>1. conn' = [conn EXCEPT ![c] = v]
    BY <1>2, Zenon DEF HandlerCloses, TransferInv, Types
  <2>2. Fine(c, kind[c], cl[c], v)
    BY <1>0, <1>1, <1>2, ClosesFine, Zenon
  <2>3. v.st = conn[c].st
    BY <1>0, Zenon DEF Conns
  <2> HIDE DEF v
  <2> QED
    BY <1>0, <2>1, <2>2, <2>3, Zenon DEF Local, Becomes
<1>3. CASE FileTransferHandler(c)
  <2>1. kind[c] = "TransferFile"
    BY <1>1, <1>3, Zenon DEF FileTransferHandler, Handled
  <2>2. CASE conn[c].up > 0 /\ conn' = [conn EXCEPT ![c].up = @ - 1, ![c].moved = @ + 1]
    <3> DEFINE v == [conn[c] EXCEPT !.up = conn[c].up - 1, !.moved = conn[c].moved + 1]
    <3>1. conn' = [conn EXCEPT ![c] = v]
      BY <2>2, Zenon DEF TransferInv, Types
    <3>2. Fine(c, kind[c], cl[c], v)
      BY <1>0, <1>1, <2>1, <2>2, TakesFine, Zenon
    <3>3. v.st = conn[c].st
      BY <1>0, Zenon DEF Conns
    <3> HIDE DEF v
    <3> QED
      BY <1>0, <3>1, <3>2, <3>3, Zenon DEF Local, Becomes
  <2> DEFINE end == conn[c].broken \/ (conn[c].up = 0 /\ conn[c].cfin)
  <2>3. CASE HandlerCloses(c, ~end)
    <3>1. PICK e \in BOOLEAN : e = ~end
      BY Zenon
    <3>2. HandlerCloses(c, e) /\ kind[c] # "DownloadFile"
      BY <2>1, <2>3, <3>1
    <3> QED
      BY <1>2, <3>2, Zenon
  <2> QED
    BY <1>3, <2>2, <2>3, Zenon DEF FileTransferHandler
<1>4. CASE DownloadFileHandler(c)
  <2>1. CASE conn' = [conn EXCEPT ![c].moved = @ + 1,
                                  ![c].down = IF conn[c].cfin THEN @ ELSE @ + 1]
    <3> DEFINE m == IF conn[c].cfin THEN conn[c].down ELSE conn[c].down + 1
               v == [conn[c] EXCEPT !.moved = conn[c].moved + 1, !.down = m]
    <3>1. conn' = [conn EXCEPT ![c] = v]
      BY <2>1, Zenon DEF TransferInv, Types
    <3>2. m \in Nat /\ (~conn[c].cfin => m = conn[c].down + 1)
      BY <1>0 DEF Conns
    <3> HIDE DEF m
    <3>3. Fine(c, kind[c], cl[c], v)
      BY <1>0, <1>1, <3>2, GivesFine, Zenon
    <3>4. v.st = conn[c].st
      BY <1>0, Zenon DEF Conns
    <3> HIDE DEF v
    <3> QED
      BY <1>0, <3>1, <3>3, <3>4, Zenon DEF Local, Becomes
  <2> DEFINE end == conn[c].broken \/ conn[c].moved = Chunks
  <2>2. CASE HandlerCloses(c, ~end)
    <3>1. PICK e \in BOOLEAN : e = ~end
      BY Zenon
    <3>2. HandlerCloses(c, e) /\ (conn[c].broken \/ conn[c].moved = Chunks \/ e)
      BY <2>2, <3>1
    <3> QED
      BY <1>2, <3>2, Zenon
  <2> QED
    BY <1>4, <2>1, <2>2, Zenon DEF DownloadFileHandler
<1>5. CASE StreamHandler(c)
  <2>1. kind[c] = "Stream" /\ HandlerCloses(c, FALSE)
    BY <1>1, <1>5, Zenon DEF StreamHandler, Handled
  <2>2. kind[c] # "DownloadFile"
    BY <2>1
  <2> QED
    BY <1>2, <2>1, <2>2, Zenon
<1> QED
  BY <1>3, <1>4, <1>5, Zenon DEF Handler

\* A cancelled context, a host that vanishes and a broken connection are local.
LEMMA FaultLocal ==
  ASSUME TransferInv, NEW c \in Clients, Cancel(c) \/ Vanish(c) \/ KeepAlive(c) \/ Break(c)
  PROVE  \E u, v : Local(c, u, v)
<1>0. /\ Fine(c, kind[c], cl[c], conn[c]) /\ cl[c] \in Callers /\ conn[c] \in Conns
      /\ cl = [cl EXCEPT ![c] = cl[c]] /\ conn = [conn EXCEPT ![c] = conn[c]] /\ kind' = kind
  BY Before, Zenon DEF Cancel, Vanish, KeepAlive, Break, Fixed, Service
<1>1. CASE Cancel(c)
  <2> DEFINE u == [cl[c] EXCEPT !.cancelled = TRUE]
  <2>1. cl' = [cl EXCEPT ![c] = u] /\ conn' = conn
    BY <1>1, Zenon DEF Cancel
  <2>2. Fine(c, kind[c], u, conn[c])
    BY <1>0, CancelFine, Zenon
  <2>3. u.n = cl[c].n /\ u.tok = cl[c].tok
    BY <1>0, Zenon DEF Callers
  <2> HIDE DEF u
  <2> QED
    BY <1>0, <2>1, <2>2, <2>3, Zenon DEF Local, Becomes
<1>2. CASE Vanish(c)
  <2> DEFINE u == [cl[c] EXCEPT !.dead = TRUE]
  <2>1. cl' = [cl EXCEPT ![c] = u] /\ conn' = conn
    BY <1>2, Zenon DEF Vanish
  <2>2. Fine(c, kind[c], u, conn[c])
    BY <1>0, <1>2, VanishFine, Zenon DEF Vanish
  <2>3. u.n = cl[c].n /\ u.tok = cl[c].tok
    BY <1>0, Zenon DEF Callers
  <2> HIDE DEF u
  <2> QED
    BY <1>0, <2>1, <2>2, <2>3, Zenon DEF Local, Becomes
<1>3. CASE KeepAlive(c) \/ Break(c)
  <2> DEFINE v == [conn[c] EXCEPT !.broken = TRUE]
  <2>1. conn' = [conn EXCEPT ![c] = v] /\ cl' = cl
    BY <1>3, Zenon DEF KeepAlive, Break
  <2>2. conn[c] # NoConn /\ (cl[c].dead \/ ~conn[c].sfin)
    BY <1>3 DEF KeepAlive, Break, NoConn
  <2>3. Fine(c, kind[c], cl[c], v)
    BY <1>0, <2>2, BrokenFine, Zenon
  <2>4. v.st = conn[c].st
    BY <1>0, Zenon DEF Conns
  <2> HIDE DEF v
  <2> QED
    BY <1>0, <2>1, <2>3, <2>4, Zenon DEF Local, Becomes
<1> QED
  BY <1>1, <1>2, <1>3, Zenon

\* A dialled connection joins the backlog.
LEMMA DialStep ==
  ASSUME TransferInv, NEW c \in Clients, Dial(c)
  PROVE  TransferInv'
<1>0. /\ Fine(c, kind[c], cl[c], conn[c]) /\ cl[c] \in Callers /\ conn[c] \in Conns
      /\ conn[c] = NoConn /\ cl[c].pc = "dial" /\ ~cl[c].dead
      /\ UNCHANGED <<kind, cache, loop, spent, full>>
  BY Before, Zenon DEF Dial, At, Fixed, Service
<1>1. CASE Return(c, "error") /\ UNCHANGED backlog
  <2>1. \E u, v : Local(c, u, v)
    BY <1>0, <1>1, ReturnLocal, Zenon
  <2> QED
    BY <1>0, <1>1, <2>1, LocalStep, Zenon DEF Server
<1>2. CASE /\ GoTo(c, "token")
           /\ conn' = [conn EXCEPT ![c].st = "queued"]
           /\ backlog' = Append(backlog, c)
  <2> DEFINE u == [cl[c] EXCEPT !.pc = "token"]
             v == [conn[c] EXCEPT !.st = "queued"]
  <2>1. cl' = [cl EXCEPT ![c] = u] /\ conn' = [conn EXCEPT ![c] = v]
    BY <1>2, Zenon DEF GoTo
  <2>2. Fine(c, kind[c], u, v)
    BY <1>0, DialFine, Zenon
  <2>3. u.n = cl[c].n /\ v.st = "queued" /\ u.tok = cl[c].tok
    BY <1>0, Zenon DEF Callers, Conns
  <2> HIDE DEF u, v
  <2>4. Becomes(c, u, v)
    BY <1>0, <2>1, <2>2, Zenon DEF Becomes
  <2>5. /\ AllFine' /\ cl' \in [Clients -> Callers] /\ conn' \in [Clients -> Conns]
        /\ cl'[c] = u /\ conn'[c] = v
        /\ \A d \in Clients \ {c} : cl'[d] = cl[d] /\ conn'[d] = conn[d]
    BY <2>4, BecomesFine, Zenon DEF TransferInv
  <2>6. /\ \A d \in Clients : cl'[d].n = cl[d].n /\ cl'[d].tok = cl[d].tok
        /\ conn'[c].st = "queued" /\ \A d \in Clients \ {c} : conn'[d].st = conn[d].st
    BY <2>3, <2>5, Zenon
  <2>7. Types'
    BY <1>0, <1>2, <2>5 DEF TransferInv, Types
  <2>8. Entries'
    BY <1>0, <2>5, <2>6, EntriesKept, Zenon DEF TransferInv
  <2>9. Queue'
    <3>1. /\ DOMAIN backlog = 1..Len(backlog) /\ Len(backlog) \in Nat
          /\ \A i \in DOMAIN backlog : backlog[i] \in Clients
          /\ DOMAIN backlog' = 1..(Len(backlog) + 1) /\ backlog'[Len(backlog) + 1] = c
          /\ \A i \in DOMAIN backlog : backlog'[i] = backlog[i]
      BY <1>2 DEF TransferInv, Types
    <3>2. conn[c].st = "none"
      BY <1>0 DEF NoConn
    <3>3. \A i \in DOMAIN backlog : backlog[i] # c /\ conn[backlog[i]].st = "queued"
      BY <3>2, Zenon DEF TransferInv, Queue
    <3>4. \A i \in DOMAIN backlog' : conn'[backlog'[i]].st = "queued"
      BY <2>6, <3>1, <3>3
    <3>5. \A i, j \in DOMAIN backlog' : backlog'[i] = backlog'[j] => i = j
      BY <3>1, <3>3 DEF TransferInv, Queue
    <3>6. loop.at \in {"read", "remove"} => loop.cur \in Clients /\ loop.cur # c /\ conn[loop.cur].st = "accepted"
      BY <3>2, Zenon DEF TransferInv, Queue
    <3> QED
      BY <1>0, <2>6, <3>4, <3>5, <3>6, Zenon DEF TransferInv, Queue
  <2> QED
    BY <2>5, <2>7, <2>8, <2>9, Zenon DEF TransferInv
<1> QED
  BY <1>1, <1>2, Zenon DEF Dial

\* An execution of the token's RPC.
LEMMA HandOutStep ==
  ASSUME TransferInv, NEW c \in Clients, NEW k, k = kind[c], HandOut(c, k)
  PROVE  TransferInv'
<1>0. /\ Fine(c, kind[c], cl[c], conn[c]) /\ cl[c] \in Callers /\ cl[c].pc # "open"
      /\ conn = [conn EXCEPT ![c] = conn[c]]
      /\ UNCHANGED <<kind, conn, loop, backlog>>
  BY Before, Zenon DEF HandOut, Fixed, Service
<1> DEFINE u == [cl[c] EXCEPT !.n = cl[c].n + 1]
<1>1. cl' = [cl EXCEPT ![c] = u]
  BY Zenon DEF HandOut, TransferInv, Types
<1>2. Fine(c, kind[c], u, conn[c])
  BY <1>0, HandOutFine, Zenon
<1>3. u.tok = cl[c].tok
  BY <1>0, Zenon DEF Callers
<1> HIDE DEF u
<1>4. Becomes(c, u, conn[c])
  BY <1>0, <1>1, <1>2, Zenon DEF Becomes
<1>5. /\ AllFine' /\ cl' \in [Clients -> Callers] /\ conn' \in [Clients -> Conns]
      /\ cl'[c] = u
      /\ \A d \in Clients \ {c} : cl'[d] = cl[d]
  BY <1>4, BecomesFine, Zenon DEF TransferInv
<1>6. Entries' /\ cache' \in Seq(Infos)
  BY HandOutEntries, Zenon DEF TransferInv
<1>7. Types'
  BY <1>0, <1>5, <1>6, Zenon DEF TransferInv, Types
<1>8. Queue'
  <2>1. \A d \in Clients : cl'[d].tok = cl[d].tok
    BY <1>3, <1>5, Zenon
  <2> QED
    BY <1>0, <2>1, Zenon DEF TransferInv, Queue
<1> QED
  BY <1>5, <1>6, <1>7, <1>8, Zenon DEF TransferInv

\* The loop accepts the oldest connection.
LEMMA AcceptStep ==
  ASSUME TransferInv, Accept
  PROVE  TransferInv'
<1> DEFINE c == Head(backlog)
           v == [conn[c] EXCEPT !.st = "accepted", !.alive = TRUE]
<1>1. /\ c \in Clients /\ c = backlog[1] /\ 1 \in DOMAIN backlog
      /\ DOMAIN backlog = 1..Len(backlog) /\ Len(backlog) \in Nat \ {0}
      /\ \A i \in DOMAIN backlog : backlog[i] \in Clients
      /\ backlog' \in Seq(Clients) /\ DOMAIN backlog' = 1..(Len(backlog) - 1)
      /\ \A i \in DOMAIN backlog' : i + 1 \in DOMAIN backlog /\ backlog'[i] = backlog[i + 1]
  BY DEF Accept, TransferInv, Types
<1>2. /\ conn' = [conn EXCEPT ![c] = v] /\ UNCHANGED <<kind, cl, cache, spent, full>>
      /\ loop' = [at |-> "read", cur |-> c, info |-> <<>>]
  BY Zenon DEF Accept, Fixed, Service
<1>3. conn[c].st = "queued"
  BY <1>1, Zenon DEF TransferInv, Queue
<1> HIDE DEF c
<1>4. Fine(c, kind[c], cl[c], conn[c]) /\ cl = [cl EXCEPT ![c] = cl[c]] /\ conn[c] \in Conns
  BY <1>1, Before, Zenon
<1>5. Fine(c, kind[c], cl[c], v)
  BY <1>3, <1>4, AcceptFine, Zenon
<1>6. v.st = "accepted"
  BY <1>4, Zenon DEF Conns
<1> HIDE DEF v
<1>7. /\ AllFine' /\ cl' \in [Clients -> Callers] /\ conn' \in [Clients -> Conns]
      /\ conn'[c] = v
      /\ \A d \in Clients \ {c} : conn'[d] = conn[d]
  <2>1. Becomes(c, cl[c], v)
    BY <1>2, <1>4, <1>5, Zenon DEF Becomes
  <2> QED
    BY <1>1, <2>1, BecomesFine DEF TransferInv
<1>8. Types'
  BY <1>1, <1>2, <1>7, Zenon DEF TransferInv, Types
<1>9. Queue'
  <2>1. \A i \in DOMAIN backlog' : backlog'[i] \in Clients \ {c} /\ conn[backlog'[i]].st = "queued"
    BY <1>1 DEF TransferInv, Queue
  <2>2. \A i, j \in DOMAIN backlog' : backlog'[i] = backlog'[j] => i = j
    BY <1>1 DEF TransferInv, Queue
  <2>3. \A i \in DOMAIN backlog' : conn'[backlog'[i]].st = "queued"
    BY <1>7, <2>1, Zenon
  <2>4. loop'.at = "read" /\ loop'.cur = c /\ conn'[c].st = "accepted"
    BY <1>2, <1>6, <1>7, Zenon
  <2> QED
    BY <1>1, <2>2, <2>3, <2>4, Zenon DEF Queue
<1>10. Entries'
  BY <1>2, <1>7, EntriesKept, Zenon DEF TransferInv
<1> QED
  BY <1>7, <1>8, <1>9, <1>10, Zenon DEF TransferInv

\* The loop is done with the connection of c, which becomes v.
LEMMA LoopGoesOn ==
  ASSUME TransferInv, NEW c, c = loop.cur, c \in Clients, conn[c].st = "accepted", NEW v,
         Fine(c, kind[c], cl[c], v), conn' = [conn EXCEPT ![c] = v],
         UNCHANGED <<kind, cl, backlog>>, loop' = AtRest("accept"), Entries', cache' \in Seq(Infos)
  PROVE  TransferInv'
<1>1. cl = [cl EXCEPT ![c] = cl[c]]
  BY Before, Zenon
<1>2. /\ AllFine' /\ cl' \in [Clients -> Callers] /\ conn' \in [Clients -> Conns]
      /\ \A d \in Clients \ {c} : conn'[d] = conn[d]
  <2>1. Becomes(c, cl[c], v)
    BY <1>1, Zenon DEF Becomes
  <2> QED
    BY <2>1, BecomesFine, Zenon DEF TransferInv
<1>3. loop'.at = "accept" /\ loop'.cur = "none" /\ loop'.info = <<>>
  BY Zenon DEF AtRest
<1>4. Types'
  BY <1>2, Zenon DEF TransferInv, Types, AtRest
<1>5. Queue'
  <2>1. \A i \in DOMAIN backlog : backlog[i] \in Clients \ {c} /\ conn[backlog[i]].st = "queued"
    BY DEF TransferInv, Types, Queue
  <2> QED
    BY <1>2, <1>3, <2>1, Zenon DEF TransferInv, Queue
<1> QED
  BY <1>2, <1>4, <1>5, Zenon DEF TransferInv

\* The loop closes a connection.
LEMMA RefusedStep ==
  ASSUME TransferInv, NEW c, c = loop.cur, c \in Clients, conn[c].st = "accepted",
         conn' = Refused(c), UNCHANGED <<kind, cl, backlog>>, loop' = AtRest("accept"),
         Entries', cache' \in Seq(Infos)
  PROVE  TransferInv'
<1> DEFINE v == [conn[c] EXCEPT !.st = "refused", !.sfin = TRUE, !.up = 0]
<1>1. Fine(c, kind[c], cl[c], conn[c])
  BY Before, Zenon
<1>2. Fine(c, kind[c], cl[c], v)
  BY <1>1, RefusedFine, Zenon
<1>3. conn' = [conn EXCEPT ![c] = v]
  BY Zenon DEF Refused, TransferInv, Types
<1> HIDE DEF v
<1> QED
  BY <1>2, <1>3, LoopGoesOn, Zenon

\* The loop reads a token and looks it up.
LEMMA ReadTokenStep ==
  ASSUME TransferInv, ReadToken
  PROVE  TransferInv'
<1>0. PICK c : c = loop.cur
  BY Zenon
<1>1. /\ c \in Clients /\ conn[c].st = "accepted"
      /\ UNCHANGED <<kind, cl, backlog, spent, full>>
  BY <1>0, Zenon DEF ReadToken, TransferInv, Queue, Fixed, Service
<1>2. Fine(c, kind[c], cl[c], conn[c])
  BY <1>1, Before, Zenon
<1>3. CASE conn' = Refused(c) /\ loop' = AtRest("accept") /\ UNCHANGED cache
  <2>1. cl' \in [Clients -> Callers] /\ cache' \in Seq(Infos)
    BY <1>1, <1>3, Zenon DEF TransferInv, Types
  <2>2. Entries'
    BY <1>1, <1>3, <2>1, EntriesKept, Zenon DEF TransferInv
  <2> QED
    BY <1>0, <1>1, <1>3, <2>1, <2>2, RefusedStep, Zenon
<1>4. ASSUME NEW t, t = conn[c].tok, t # <<>>, Cached(t),
             cache' = Append(Without(t), cache[Place(t)]),
             loop' = [at |-> "remove", cur |-> c, info |-> cache[Place(t)]], UNCHANGED conn
      PROVE  TransferInv'
  <2>1. /\ Entries' /\ cache' \in Seq(Infos)
        /\ cache[Place(t)] = <<t, kind[t[1]]>> /\ cache[Place(t)] \in Infos
    BY <1>1, <1>4, GetEntries, Zenon DEF TransferInv
  <2>2. t = cl[c].tok /\ t[1] = c
    BY <1>2, <1>4 DEF Fine, OwnToken
  <2>3. loop'.at = "remove" /\ loop'.cur = c /\ loop'.info = <<cl[c].tok, kind[c]>>
    BY <1>4, <2>1, <2>2, Zenon
  <2>4. Types'
    BY <1>1, <1>4, <2>1, Zenon DEF TransferInv, Types
  <2>5. Queue'
    BY <1>1, <1>4, <2>2, <2>3, Zenon DEF TransferInv, Queue
  <2>6. AllFine'
    BY <1>1, <1>4, Zenon DEF TransferInv, AllFine
  <2> QED
    BY <2>1, <2>4, <2>5, <2>6, Zenon DEF TransferInv
<1> QED
  BY <1>0, <1>3, <1>4, Zenon DEF ReadToken

\* The loop takes the token out and starts the handler.
LEMMA RemoveStep ==
  ASSUME TransferInv, Remove
  PROVE  TransferInv'
<1>0. PICK c : c = loop.cur
  BY Zenon
<1>1. /\ c \in Clients /\ conn[c].st = "accepted"
      /\ loop.info = <<cl[c].tok, kind[c]>> /\ cl[c].tok # <<>>
      /\ UNCHANGED <<kind, cl, backlog, full>> /\ loop' = AtRest("accept")
  BY <1>0, Zenon DEF Remove, TransferInv, Queue, Fixed, Service
<1>2. Fine(c, kind[c], cl[c], conn[c]) /\ kind[c] \in Kinds /\ cl[c] \in Callers
  BY <1>1, Before, Zenon
<1>3. cl[c].tok \in Issued /\ cl[c].tok \in Tokens
  <2>1. PICK i \in 1..cl[c].n : cl[c].tok = <<c, i>>
    BY <1>1, <1>2, Zenon DEF Fine, OwnToken
  <2>2. cl[c].tok \in {<<c, j>> : j \in 1..cl[c].n}
    BY <2>1, Zenon
  <2>3. cl[c].tok \in Tokens
    BY <1>1, <1>2, <2>1, Zenon DEF Tokens, Callers
  <2> QED
    BY <1>1, <2>2, <2>3, Zenon DEF Issued
<1>4. Entries' /\ cache' \in Seq(Infos)
  <2>1. cache' = Without(cl[c].tok) /\ spent' = spent \cup {cl[c].tok}
    BY <1>1 DEF Remove
  <2> QED
    BY <1>1, <1>3, <2>1, RemoveEntries, Zenon DEF TransferInv
<1>5. CASE conn' = Refused(c)
  BY <1>0, <1>1, <1>4, <1>5, RefusedStep, Zenon
<1>6. CASE conn' = [conn EXCEPT ![c].st = "handled", ![c].args = loop.info]
  <2> DEFINE v == [conn[c] EXCEPT !.st = "handled", !.args = <<cl[c].tok, kind[c]>>]
  <2>1. Fine(c, kind[c], cl[c], v)
    BY <1>1, <1>2, <1>3, DispatchFine, Zenon
  <2>2. conn' = [conn EXCEPT ![c] = v]
    BY <1>1, <1>6, Zenon DEF TransferInv, Types
  <2> HIDE DEF v
  <2> QED
    BY <1>0, <1>1, <1>4, <2>1, <2>2, LoopGoesOn, Zenon
<1> QED
  BY <1>0, <1>5, <1>6, Zenon DEF Remove, Dispatch

\* A step of the accept loop between connections.
LEMMA LoopMoves ==
  ASSUME TransferInv, NEW at \in {"deaf", "accept", "end"}, loop' \in {loop, AtRest(at)},
         UNCHANGED <<kind, cl, conn, cache, backlog, spent, full>>
  PROVE  TransferInv'
<1>0. AllFine' /\ Entries'
  <2>1. Issued' = Issued
    BY DEF Issued
  <2>2. AllFine'
    BY Zenon DEF TransferInv, AllFine
  <2> QED
    BY <2>1, <2>2, Zenon DEF TransferInv, Entries
<1>1. CASE loop' = loop
  BY <1>0, <1>1, Zenon DEF TransferInv, Types, Queue
<1>2. CASE loop' = AtRest(at)
  <2>1. Types'
    BY <1>2, Zenon DEF TransferInv, Types, AtRest
  <2>2. loop'.at = at
    BY <1>2, Zenon DEF AtRest
  <2>3. Queue'
    BY <2>2, Zenon DEF TransferInv, Queue
  <2> QED
    BY <1>0, <2>1, <2>3, Zenon DEF TransferInv
<1> QED
  BY <1>1, <1>2, Zenon

\* The server's process ends.
LEMMA DeathStep ==
  ASSUME TransferInv, ServerDies
  PROVE  TransferInv'
<1>1. PICK fin \in [Clients -> BOOLEAN] : conn' = [c \in Clients |-> Dies(conn[c], fin[c])]
  BY Zenon DEF ServerDies
<1>2. /\ UNCHANGED <<kind, cl, cache, spent, full>>
      /\ loop' = AtRest("dead") /\ backlog' = <<>>
  BY Zenon DEF ServerDies, Service
<1>3. ASSUME NEW c \in Clients
      PROVE  Fine(c, kind[c], cl[c], Dies(conn[c], fin[c]))
  <2>1. Fine(c, kind[c], cl[c], conn[c])
    BY Before, Zenon
  <2>2. CASE conn[c].st = "none" \/ conn[c].sfin
    BY <2>1, <2>2, Zenon DEF Dies
  <2>3. CASE ~(conn[c].st = "none" \/ conn[c].sfin)
    <3>1. PICK f \in BOOLEAN : f = fin[c]
      BY Zenon
    <3>2. PICK b \in BOOLEAN : b = (conn[c].broken \/ ~f)
      BY Zenon
    <3>3. PICK y : y = [conn[c] EXCEPT !.sfin = TRUE, !.up = 0, !.early = f, !.broken = b]
      BY Zenon
    <3>4. Dies(conn[c], fin[c]) = y
      BY <2>3, <3>1, <3>2, <3>3 DEF Dies
    <3>5. f \/ b
      BY <3>2, Zenon
    <3>6. Fine(c, kind[c], cl[c], y)
      BY <2>1, <2>3, <3>3, <3>5, DiesFine, Zenon
    <3> QED
      BY <3>4, <3>6, Zenon
  <2> QED
    BY <2>2, <2>3, Zenon
<1>4. \A c \in Clients : conn'[c] = Dies(conn[c], fin[c])
  BY <1>1, Zenon
<1>5. AllFine'
  BY <1>2, <1>3, <1>4, Zenon DEF AllFine
<1>6. conn' \in [Clients -> Conns]
  <2>1. \A c \in Clients : Dies(conn[c], fin[c]) \in Conns
    BY <1>3, Zenon DEF Fine
  <2> QED
    BY <1>1, <2>1, Zenon
<1>7. Types'
  BY <1>2, <1>6 DEF TransferInv, Types, AtRest
<1>8. Queue'
  <2>1. loop'.at = "dead" /\ DOMAIN backlog' = {}
    BY <1>2 DEF AtRest
  <2> QED
    BY <2>1 DEF Queue
<1>9. Entries'
  <2>1. cl' \in [Clients -> Callers] /\ \A c \in Clients : cl'[c].n = cl[c].n
    BY <1>2, Zenon DEF TransferInv, Types
  <2> QED
    BY <1>2, <2>1, EntriesKept, Zenon DEF TransferInv
<1> QED
  BY <1>5, <1>7, <1>8, <1>9, Zenon DEF TransferInv

LEMMA TransferInit ==
  ASSUME Init
  PROVE  TransferInv
<1> DEFINE u == [pc |-> "open", err |-> "none", tok |-> <<>>, n |-> 0, moved |-> 0,
                 cancelled |-> FALSE, dead |-> FALSE]
<1>1. /\ cl = [c \in Clients |-> u] /\ conn = [c \in Clients |-> NoConn]
      /\ cache = <<>> /\ backlog = <<>> /\ loop = AtRest("new") /\ spent = {}
  BY Zenon DEF Init
<1>2. kind \in [Clients -> Kinds]
  <2>1. PICK s \in Services : kind = s.kind
    BY Zenon DEF Init
  <2>2. PICK ks \in {{"TransferFile", "DownloadFile"}, {"Stream"}} : kind \in [Clients -> ks]
    BY <2>1, TransferConstants, Zenon
  <2> QED
    BY <2>2, Zenon DEF Kinds
<1>3. u \in Callers /\ u.pc = "open" /\ u.err = "none" /\ u.tok = <<>> /\ u.n = 0 /\ u.moved = 0 /\ u.dead = FALSE
  BY Zenon DEF Callers
<1>4. NoConn \in Conns
  BY Zenon DEF Conns, NoConn
<1>5. Types
  BY <1>1, <1>2, <1>3, <1>4 DEF Types, AtRest
<1> HIDE DEF u
<1>6. AllFine
  <2> SUFFICES ASSUME NEW c \in Clients PROVE Fine(c, kind[c], u, NoConn)
    BY <1>1, Zenon DEF AllFine
  <2>1. OwnToken(c, kind[c], u, NoConn)
    BY <1>3, Zenon DEF OwnToken, NoConn
  <2>2. NothingLost(kind[c], u, NoConn)
    BY <1>3 DEF NothingLost, NoConn
  <2> QED
    BY <1>3, <1>4, <2>1, <2>2, Zenon DEF Fine
<1>7. Queue
  BY <1>1 DEF Queue, AtRest
<1>8. Issued = {}
  <2>1. \A c \in Clients : cl[c].n = 0
    BY <1>1, <1>3, Zenon
  <2> QED
    BY <2>1 DEF Issued
<1>9. Entries
  <2>1. IsFiniteSet(Issued)
    BY <1>8, FS_EmptySet, Zenon
  <2> QED
    BY <1>1, <1>8, <2>1 DEF Entries
<1> QED
  BY <1>5, <1>6, <1>7, <1>9, Zenon DEF TransferInv

LEMMA TransferNext ==
  ASSUME TransferInv, [Next]_vars
  PROVE  TransferInv'
<1>1. CASE Loop
  <2>1. CASE Listen
    BY <2>1, LoopMoves, Zenon DEF Listen, Fixed, Service
  <2> QED
    BY <1>1, <2>1, AcceptStep, ReadTokenStep, RemoveStep, Zenon DEF Loop
<1>2. CASE AcceptFails \/ ServerDies
  BY <1>2, LoopMoves, DeathStep, Zenon DEF AcceptFails, Service
<1>3. ASSUME NEW c \in Clients, Caller(c)
      PROVE  TransferInv'
  <2>1. CASE Dial(c)
    BY <2>1, DialStep, Zenon
  <2>2. CASE Open(c) \/ CallReturns(c) \/ SendToken(c) \/ StreamClosed(c) \/ SendFile(c) \/ DownloadFile(c)
    <3>1. kind' = kind /\ UNCHANGED Server
      BY <2>2, Zenon DEF Open, CallReturns, SendToken, StreamClosed, SendFile, DownloadFile, Fixed, Service
    <3>2. \E u, v : Local(c, u, v)
      BY <2>2, <3>1, CallerLocal, Zenon
    <3> QED
      BY <3>1, <3>2, LocalStep, Zenon
  <2> QED
    BY <1>3, <2>1, <2>2, Zenon DEF Caller
<1>4. ASSUME NEW c \in Clients, Handler(c)
      PROVE  TransferInv'
  <2>1. UNCHANGED Server
    BY <1>4, Zenon DEF Handler, FileTransferHandler, DownloadFileHandler, StreamHandler
  <2>2. \E u, v : Local(c, u, v)
    BY <1>4, HandlerLocal, Zenon
  <2> QED
    BY <2>1, <2>2, LocalStep, Zenon
<1>5. ASSUME NEW c \in Clients, TransferFile(c) \/ DownloadToken(c) \/ StreamToken(c)
      PROVE  TransferInv'
  BY <1>5, HandOutStep, Zenon DEF TransferFile, DownloadToken, StreamToken
<1>6. ASSUME NEW c \in Clients, Cancel(c) \/ Vanish(c) \/ KeepAlive(c) \/ Break(c)
      PROVE  TransferInv'
  <2>1. UNCHANGED Server
    BY <1>6, Zenon DEF Cancel, Vanish, KeepAlive, Break
  <2>2. \E u, v : Local(c, u, v)
    BY <1>6, FaultLocal, Zenon
  <2> QED
    BY <2>1, <2>2, LocalStep, Zenon
<1>7. CASE UNCHANGED vars
  BY <1>7, LoopMoves, Zenon DEF vars
<1> QED
  BY <1>1, <1>2, <1>3, <1>4, <1>5, <1>6, <1>7, Zenon DEF Next
-----------------------------------------------------------------------------
(* The theorems *)

\* What holds in every state that the callers, the RPCs, the accept loop, the
\* handlers and the faults can reach.
THEOREM TransferInvariance == Spec => []TransferInv
<1>1. Init => TransferInv
  BY TransferInit, Zenon
<1>2. TransferInv /\ [Next]_vars => TransferInv'
  BY TransferNext, Zenon
<1> QED
  BY <1>1, <1>2, PTL DEF Spec

\* start runs a handler with the arguments of the dialler's own call, whatever
\* tokens other callers, retries and late executions of the RPC left in the cache.
THEOREM HandlersServeTheirCall == Spec => []HandlerOfItsCall
<1>1. TransferInv => HandlerOfItsCall
  BY Zenon DEF TransferInv, AllFine, Fine, OwnToken, HandlerOfItsCall
<1> QED
  BY <1>1, TransferInvariance, PTL

\* While no more than WaitNum tokens were ever out, the cache is exactly the
\* tokens that were handed out and not taken.
THEOREM PendingTokensKept == Spec => []PendingAreKept
<1>1. TransferInv => PendingAreKept
  <2> SUFFICES ASSUME TransferInv, ~full PROVE {e[1] : e \in Range(cache)} = Issued \ spent
    BY Zenon DEF PendingAreKept
  <2>1. Range(cache) = {cache[i] : i \in DOMAIN cache}
    BY Zenon DEF Range
  <2>2. \A e \in Range(cache) : e[1] \in Issued \ spent
    BY <2>1 DEF TransferInv, Entries
  <2>3. \A t \in Issued \ spent : \E e \in Range(cache) : e[1] = t
    BY <2>1 DEF TransferInv, Entries
  <2> QED
    BY <2>2, <2>3, Zenon
<1> QED
  BY <1>1, TransferInvariance, PTL

\* A DownloadFile that returns nil saved all that was written to its connection
\* up to the server's FIN, never up to a reset; that is the whole file unless the
\* handler or the server's process ended early or the token was refused.
THEOREM NilDownloadsAreAllSent == Spec => []NilIsAllSent
<1>1. TransferInv => NilIsAllSent
  BY Zenon DEF TransferInv, AllFine, Fine, NothingLost, AllSent, NilIsAllSent
<1> QED
  BY <1>1, TransferInvariance, PTL
=============================================================================
