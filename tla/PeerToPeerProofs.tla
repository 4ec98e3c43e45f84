-------------------------- MODULE PeerToPeerProofs --------------------------
(***************************************************************************)
(* The threads and messages of the peers, as long as users settle, for any *)
(* number of peers, paths, sizes and bounds, and whatever users do:        *)
(*   - a receiving thread is sent what it waits for, and the peers enter   *)
(*     the same collectives in the same order (IInv);                      *)
(*   - each peer's inode table is one, of as many inodes as lastIno says,  *)
(*     through every handler and every request that is replayed (TypeInv); *)
(*   - a list of blocks has as many as the size says, those this peer      *)
(*     owns point into its heap, and no other pointer is followed          *)
(*     (LocalInv).                                                         *)
(***************************************************************************)
EXTENDS PeerToPeer, StripingProofs, FiniteSetTheorems

Settled == Pace = "settled"

(* A sequence, of whatever. *)
IsSeq(s) == \E S : s \in Seq(S)
IsExchange(e) == e = [call |-> e.call, parts |-> e.parts, gathered |-> e.gathered]

(* What the variables look like, as far as the order of steps depends on it. *)
Shape ==
    /\ DOMAIN fuse = Ranks /\ DOMAIN recv = Ranks
    /\ mounted \in [Ranks -> BOOLEAN]
    /\ fromThread \in [Ranks -> [Announced -> BOOLEAN]]
    /\ DOMAIN net = Ranks
    /\ \A q \in Ranks : DOMAIN net[q] = Ranks /\ \A p \in Ranks : IsSeq(net[q][p])
    /\ user \in Ranks
    /\ IsSeq(exchanges) /\ \A k \in 1 .. Len(exchanges) : IsExchange(exchanges[k])
    /\ pos \in [Ranks -> Nat]

(* Who is not in the session loop is not mounted.                          *)
OnlyLoopsMounted ==
    \A p \in Ranks : fuse[p].at \in {"starting", "unmounted", "finished", "failed"} => ~mounted[p]

(* The parts of an exchange are those of the peers that have taken part.   *)
PartsOfThose ==
    \A k \in 1 .. Len(exchanges) : DOMAIN exchanges[k].gathered = {q \in Ranks : pos[q] >= k}

(* While not all are mounted, there is nothing but terminations.           *)
Resting ==
    /\ \A p \in Ranks : /\ fuse[p].at \in {"starting", "loop", "unmounted", "finished", "failed"}
                        /\ recv[p].at \in {"request", "terminated"}
                        /\ pos[p] = Len(exchanges)
    /\ \A q, p \in Ranks : /\ net[q][p] # <<>> => fuse[q].at = "finished"
                           /\ \A i \in 1 .. Len(net[q][p]) : net[q][p][i] = Header("TERMINATE")

(* The requests from u to p: header, body, header, body; the first header  *)
(* may have been received.                                                 *)
Alternates(u, p) ==
    /\ net[u][p] # <<>> => /\ IF recv[p].at = "body" THEN net[u][p][1].part = "body"
                              ELSE net[u][p][1].part = "header"
                           /\ net[u][p][Len(net[u][p])].part = "body"
    /\ recv[p].at = "body" => /\ net[u][p] # <<>>
                              /\ net[u][p][1].content.type = recv[p].type
                              /\ recv[p].source = u
    /\ \A i \in 1 .. Len(net[u][p]) :
          /\ net[u][p][i].part \in {"header", "body"}
          /\ net[u][p][i].part = "header" => /\ net[u][p][i] = Header(net[u][p][i].type)
                                             /\ net[u][p][i].type # "TERMINATE"
    /\ \A i \in 1 .. Len(net[u][p]) - 1 :
          IF net[u][p][i].part = "header"
          THEN /\ net[u][p][i + 1].part = "body"
               /\ net[u][p][i + 1].content.type = net[u][p][i].type
          ELSE net[u][p][i + 1].part = "header"

(* An operation of this type is on its way to p, or with its threads.      *)
HeaderIn(u, p, type) == \E i \in 1 .. Len(net[u][p]) : net[u][p][i] = Header(type)
Receiving(p, type) == recv[p].at \in {"body", "syscall"} /\ recv[p].type = type
Repeating(p, type) == fuse[p].at = "announce" /\ fuse[p].op.type = type

(* p repeats what u announces, and does not announce it again. *)
Repeats(u, p) ==
    /\ \A type \in Announced : Receiving(p, type) => fromThread[p][type]
    /\ recv[p].at = "syscall" => /\ recv[p].type \in Announced
                                 /\ recv[p].op.type = recv[p].type
    /\ fuse[p].at = "announce" => fuse[p].op.type \in Announced /\ fromThread[p][fuse[p].op.type]
    /\ Repeating(p, "CREATE_FILE") => recv[p].at = "close"
    /\ \A type \in Announced \ {"CREATE_FILE"} :
          /\ Repeating(p, type) => ~Receiving(p, type) /\ ~HeaderIn(u, p, type)
          /\ Receiving(p, type) => ~HeaderIn(u, p, type)
          /\ \A i, j \in 1 .. Len(net[u][p]) :
                net[u][p][i] = Header(type) /\ net[u][p][j] = Header(type) => i = j
          /\ Repeating(u, type) => ~Repeating(p, type) /\ ~Receiving(p, type) /\ ~HeaderIn(u, p, type)

(* The calls that a receiving thread takes part in.                        *)
Joined(c) == c.type \notin Announced /\ ~(c.type = "READ" /\ c.fileSize = 0)

(* u is in a call and p has not done its part.                             *)
Awaited(u, p) == \/ fuse[u].at = "scatter"
                 \/ fuse[u].at = "gather" /\ pos[p] # Len(exchanges)

(* p has done its part in every exchange but the one that u is in.         *)
Contributes(u, p) ==
    /\ pos[p] # Len(exchanges) => fuse[u].at = "gather" /\ pos[p] = Len(exchanges) - 1
    /\ recv[p].at = "scatter" => Awaited(u, p) /\ recv[p].call = fuse[u].call
    /\ \A i \in 1 .. Len(net[u][p]) :
          net[u][p][i].part = "body" /\ Joined(net[u][p][i].content) =>
             /\ i = Len(net[u][p])
             /\ Awaited(u, p) /\ net[u][p][i].content = fuse[u].call
             /\ recv[p].at # "scatter"

Follows(u, p) ==
    /\ fuse[p].at \in {"loop", "announce"}
    /\ recv[p].at \in {"request", "body", "syscall", "close", "scatter", "gather"}
    /\ Alternates(u, p)
    /\ Repeats(u, p)
    /\ Contributes(u, p)

(* While all are mounted, one peer is used and the others follow.          *)
Leads(u) ==
    /\ fuse[u].at \in {"loop", "announce", "reset", "scatter", "gather"}
    /\ fuse[u].at \in {"announce", "reset"} => fuse[u].op.type \in Announced
    /\ fuse[u].at \in {"scatter", "gather"} => fuse[u] = [at |-> fuse[u].at, call |-> fuse[u].call]
    /\ fuse[u].at = "gather" => /\ Len(exchanges) > 0
                                /\ exchanges[Len(exchanges)].call = fuse[u].call
    /\ recv[u].at = "request"
    /\ pos[u] = Len(exchanges)
    /\ \A i \in 1 .. Len(net[u][u]) : net[u][u][i].part = "header" /\ net[u][u][i].type # "TERMINATE"
    /\ \A q \in Others(u), p \in Ranks : net[q][p] = <<>>

Working(u) == Leads(u) /\ \A p \in Others(u) : Follows(u, p)

IInv == /\ Shape
        /\ OnlyLoopsMounted
        /\ PartsOfThose
        /\ IF AllMounted THEN Working(user) ELSE Resting
-----------------------------------------------------------------------------
(* Sequences of whatever. *)

LEMMA SeqFacts ==
    ASSUME NEW s, IsSeq(s)
    PROVE  /\ Len(s) \in Nat /\ DOMAIN s = 1 .. Len(s)
           /\ s # <<>> => Len(s) > 0
           /\ s = <<>> => Len(s) = 0
<1>1. PICK S : s \in Seq(S)
  BY DEF IsSeq
<1> QED BY <1>1

LEMMA AppendFacts ==
    ASSUME NEW s, IsSeq(s), NEW e
    PROVE  /\ IsSeq(Append(s, e)) /\ Append(s, e) # <<>>
           /\ Len(Append(s, e)) = Len(s) + 1
           /\ Append(s, e)[Len(s) + 1] = e
           /\ \A i \in 1 .. Len(s) : Append(s, e)[i] = s[i]
<1>1. PICK S : s \in Seq(S)
  BY DEF IsSeq
<1>2. s \in Seq(S \cup {e})
  BY <1>1
<1>3. Append(s, e) \in Seq(S \cup {e})
  BY <1>2
<1>4. IsSeq(Append(s, e))
  BY <1>3 DEF IsSeq
<1> QED BY <1>1, <1>2, <1>4

LEMMA PairFacts ==
    ASSUME NEW s, IsSeq(s), NEW d, NEW e
    PROVE  /\ IsSeq(s \o <<d, e>>) /\ s \o <<d, e>> # <<>>
           /\ Len(s \o <<d, e>>) = Len(s) + 2
           /\ (s \o <<d, e>>)[Len(s) + 1] = d
           /\ (s \o <<d, e>>)[Len(s) + 2] = e
           /\ \A i \in 1 .. Len(s) : (s \o <<d, e>>)[i] = s[i]
<1>1. PICK S : s \in Seq(S)
  BY DEF IsSeq
<1> DEFINE all == S \cup {d, e}
<1>2. s \in Seq(all) /\ <<d, e>> \in Seq(all)
  BY <1>1
<1>3. s \o <<d, e>> \in Seq(all) /\ Len(s \o <<d, e>>) = Len(s) + 2
  BY <1>2
<1>4. \A i \in 1 .. Len(s) : (s \o <<d, e>>)[i] = s[i]
  BY <1>2
<1>5. (s \o <<d, e>>)[Len(s) + 1] = d /\ (s \o <<d, e>>)[Len(s) + 2] = e
  BY <1>2
<1>6. IsSeq(s \o <<d, e>>)
  BY <1>3 DEF IsSeq
<1> QED BY <1>2, <1>3, <1>4, <1>5, <1>6

LEMMA TailFacts ==
    ASSUME NEW s, IsSeq(s), s # <<>>
    PROVE  /\ IsSeq(Tail(s)) /\ Len(s) > 0 /\ Len(s) \in Nat
           /\ Head(s) = s[1]
           /\ Len(Tail(s)) = Len(s) - 1
           /\ \A i \in 1 .. Len(s) - 1 : Tail(s)[i] = s[i + 1]
           /\ Tail(s) # <<>> <=> Len(s) > 1
<1>1. PICK S : s \in Seq(S)
  BY DEF IsSeq
<1>2. Tail(s) \in Seq(S)
  BY <1>1
<1>3. IsSeq(Tail(s))
  BY <1>2 DEF IsSeq
<1>4. Len(s) > 0 /\ Len(s) \in Nat /\ Head(s) = s[1] /\ Len(Tail(s)) = Len(s) - 1
  BY <1>1
<1>5. \A i \in 1 .. Len(s) - 1 : Tail(s)[i] = s[i + 1]
  BY <1>1
<1>6. Tail(s) # <<>> <=> Len(s) > 1
  <2>1. Len(<<>>) = 0 /\ (Tail(s) # <<>> => Len(Tail(s)) \in Nat \ {0})
    BY <1>2, EmptySeq
  <2>2. Tail(s) = <<>> => Len(Tail(s)) = 0
    BY <2>1
  <2> QED BY <1>4, <2>1, <2>2
<1> QED BY <1>3, <1>4, <1>5, <1>6
-----------------------------------------------------------------------------
(* What follows from the invariant. *)

LEMMA RanksFacts == /\ 0 \in Ranks
                    /\ \A p \in Ranks : p \in Nat
  BY StripingAssumption DEF Ranks

LEMMA SequencesThere ==
    ASSUME Shape
    PROVE  /\ Len(exchanges) \in Nat
           /\ \A q, p \in Ranks : IsSeq(net[q][p]) /\ Len(net[q][p]) \in Nat
  BY SeqFacts DEF Shape

LEMMA InvPairs == ASSUME IInv PROVE RequestsPaired
<1>1. SUFFICES ASSUME NEW q \in Ranks, NEW p \in Ranks, net[q][p] # <<>>
               PROVE  /\ recv[p].at = "body" => /\ Head(net[q][p]).part = "body"
                                                /\ Head(net[q][p]).content.type = recv[p].type
                                                /\ q = recv[p].source
                      /\ recv[p].at = "request" => Head(net[q][p]).part = "header"
  BY DEF RequestsPaired
<1>2. Head(net[q][p]) = net[q][p][1] /\ 1 \in 1 .. Len(net[q][p])
  BY <1>1, TailFacts DEF IInv, Shape
<1>3. CASE AllMounted
  <2>1. PICK u : u = user
    OBVIOUS
  <2>2. Working(u) /\ u \in Ranks
    BY <1>3, <2>1 DEF IInv, Shape
  <2>3. q = u
    BY <1>1, <2>2 DEF Working, Leads, Others
  <2>4. CASE p = u
    BY <1>2, <2>2, <2>3, <2>4 DEF Working, Leads
  <2>5. CASE p # u
    <3>1. Alternates(u, p)
      BY <2>2, <2>5 DEF Working, Others, Follows
    <3> QED BY <1>1, <1>2, <2>3, <3>1 DEF Alternates
  <2> QED BY <2>4, <2>5
<1>4. CASE ~AllMounted
  <2>1. net[q][p][1] = Header("TERMINATE") /\ recv[p].at # "body"
    BY <1>2, <1>4 DEF IInv, Resting
  <2> QED BY <1>2, <2>1 DEF Header
<1> QED BY <1>3, <1>4

LEMMA InvMatches == ASSUME IInv PROVE CollectivesMatch
<1>1. SUFFICES ASSUME NEW p \in Ranks
               PROVE  /\ ~(InCall(fuse[p]) /\ InCall(recv[p]))
                      /\ fuse[p].at = "scatter" => pos[p] = Len(exchanges)
                      /\ recv[p].at = "scatter" => (pos[p] = Len(exchanges) \/ Joins(p, recv[p].call))
  BY DEF CollectivesMatch
<1>2. CASE AllMounted
  <2>1. PICK u : u = user
    OBVIOUS
  <2>2. Working(u) /\ u \in Ranks /\ Len(exchanges) \in Nat
    BY <1>2, <2>1, SequencesThere DEF IInv, Shape
  <2>3. CASE p = u
    BY <2>2, <2>3 DEF Working, Leads, InCall
  <2>4. CASE p # u
    <3>1. Follows(u, p) /\ Leads(u)
      BY <2>2, <2>4 DEF Working, Others
    <3>2. fuse[p].at \in {"loop", "announce"}
      BY <3>1 DEF Follows
    <3>3. ASSUME recv[p].at = "scatter", pos[p] # Len(exchanges)
          PROVE  Joins(p, recv[p].call)
      <4>1. /\ fuse[u].at = "gather" /\ pos[p] = Len(exchanges) - 1 /\ recv[p].call = fuse[u].call
            /\ exchanges[Len(exchanges)].call = fuse[u].call
        BY <3>1, <3>3 DEF Follows, Contributes, Leads
      <4>2. pos[p] < Len(exchanges) /\ pos[p] + 1 = Len(exchanges)
        BY <2>2, <4>1
      <4> QED BY <4>1, <4>2 DEF Joins
    <3> QED BY <3>2, <3>3 DEF InCall
  <2> QED BY <2>3, <2>4
<1>3. CASE ~AllMounted
  BY <1>3 DEF IInv, Resting, InCall
<1> QED BY <1>2, <1>3

LEMMA InitEstablishes == ASSUME Init PROVE IInv
<1>1. \A q, p \in Ranks : net[q][p] = <<>>
  BY DEF Init
<1>2. IsSeq(<<>>) /\ Len(<<>>) = 0
  <2>1. <<>> \in Seq({}) /\ Len(<<>>) = 0
    BY EmptySeq
  <2> QED BY <2>1 DEF IsSeq
<1>3. Shape
  BY <1>1, <1>2, RanksFacts DEF Init, Shape
<1>4. ~AllMounted
  BY RanksFacts DEF Init, AllMounted
<1>5. Resting
  BY <1>1, <1>2 DEF Init, Resting, At
<1>6. OnlyLoopsMounted /\ PartsOfThose
  BY <1>2 DEF Init, OnlyLoopsMounted, PartsOfThose
<1> QED BY <1>3, <1>4, <1>5, <1>6 DEF IInv
-----------------------------------------------------------------------------
(* Peers that start, unmount and end. *)

(* What such a step leaves alone. *)
RequestsStill == UNCHANGED <<fromThread, exchanges, pos, user>>

LEMMA RestingShape ==
    ASSUME Shape, RequestsStill, DOMAIN fuse' = Ranks, DOMAIN recv' = Ranks, mounted' \in [Ranks -> BOOLEAN],
           DOMAIN net' = Ranks, \A q \in Ranks : DOMAIN net'[q] = Ranks /\ \A p \in Ranks : IsSeq(net'[q][p])
    PROVE  Shape'
  BY DEF Shape, RequestsStill

LEMMA PartsStill ==
    ASSUME PartsOfThose, UNCHANGED <<exchanges, pos>>
    PROVE  PartsOfThose'
  BY DEF PartsOfThose

LEMMA MountKeeps == ASSUME IInv, NEW p \in Ranks, Mount(p) PROVE IInv'
<1>1. /\ fuse[p].at = "starting" /\ ~mounted[p]
      /\ fuse' = [fuse EXCEPT ![p] = At("loop")] /\ mounted' = [mounted EXCEPT ![p] = TRUE]
      /\ RequestsStill /\ UNCHANGED <<recv, net>>
  BY DEF Mount, At, IInv, OnlyLoopsMounted, RequestsStill, dataVars, userVars
<1>2. /\ fuse'[p].at = "loop" /\ \A q \in Ranks \ {p} : fuse'[q] = fuse[q] /\ mounted'[q] = mounted[q]
      /\ mounted'[p]
  BY <1>1 DEF At, IInv, Shape
<1>3. Shape'
  <2>1. DOMAIN fuse' = Ranks /\ mounted' \in [Ranks -> BOOLEAN]
    BY <1>1 DEF IInv, Shape
  <2> QED BY <1>1, <2>1, RestingShape DEF IInv, Shape
<1>4. OnlyLoopsMounted'
  BY <1>2 DEF IInv, OnlyLoopsMounted
<1>5. PartsOfThose'
  BY <1>1, PartsStill DEF IInv, RequestsStill
<1>6. ~AllMounted /\ Resting
  BY <1>1 DEF IInv, AllMounted
<1>7. \A q \in Ranks : fuse[q].at = "finished" => q # p /\ fuse'[q].at = "finished" /\ ~mounted'[q]
  BY <1>1, <1>2 DEF IInv, OnlyLoopsMounted
<1>8. Resting'
  BY <1>1, <1>2, <1>6, <1>7 DEF Resting, RequestsStill
<1>9. ASSUME AllMounted' PROVE Working(user)'
  <2>1. \A q, r \in Ranks : net[q][r] = <<>>
    BY <1>6, <1>7, <1>9 DEF Resting, AllMounted
  <2>2. \A q \in Ranks : fuse'[q].at = "loop" /\ recv[q].at = "request" /\ pos[q] = Len(exchanges)
    <3>1. SUFFICES ASSUME NEW q \in Ranks
                   PROVE  fuse'[q].at = "loop" /\ recv[q].at = "request" /\ pos[q] = Len(exchanges)
      OBVIOUS
    <3>2. recv'[q].at # "terminated" /\ mounted'[q]
      BY <1>9 DEF AllMounted
    <3>3. fuse'[q].at \notin {"starting", "unmounted", "finished", "failed"}
      BY <1>4, <3>2 DEF OnlyLoopsMounted
    <3> QED BY <1>1, <1>8, <3>2, <3>3, <1>6 DEF Resting
  <2>3. Len(<<>>) = 0 /\ user \in Ranks
    BY EmptySeq DEF IInv, Shape
  <2>4. PICK u : u = user
    OBVIOUS
  <2>5. Working(u)'
    <3>1. Leads(u)'
      BY <1>1, <2>1, <2>2, <2>3, <2>4 DEF Leads, Others, RequestsStill
    <3>2. ASSUME NEW q \in Others(u) PROVE Follows(u, q)'
      <4>1. net'[u][q] = <<>> /\ fuse'[q].at = "loop" /\ recv'[q].at = "request" /\ fuse'[u].at = "loop"
            /\ pos'[q] = Len(exchanges')
        BY <1>1, <2>1, <2>2, <2>3, <2>4 DEF Others, RequestsStill
      <4>2. Alternates(u, q)'
        BY <2>3, <4>1 DEF Alternates
      <4>3. Repeats(u, q)'
        BY <2>3, <4>1 DEF Repeats, Receiving, Repeating, HeaderIn
      <4>4. Contributes(u, q)'
        BY <2>3, <4>1 DEF Contributes
      <4> QED BY <4>1, <4>2, <4>3, <4>4 DEF Follows
    <3> QED BY <3>1, <3>2 DEF Working, Others
  <2>6. user' = u
    BY <1>1, <2>4 DEF RequestsStill
  <2> QED BY <2>5, <2>6
<1> QED BY <1>3, <1>4, <1>5, <1>8, <1>9 DEF IInv

(* A peer outside its session loop that goes on there: no one is mounted   *)
(* who was not, and no requests are on their way.                          *)
LEMMA RestingStep ==
    ASSUME IInv, NEW p \in Ranks, ~AllMounted, ~(AllMounted'),
           NEW place \in {At("unmounted"), At("finished"), At("failed")},
           ~mounted[p], fuse[p].at # "finished",
           fuse' = [fuse EXCEPT ![p] = place],
           RequestsStill, UNCHANGED <<recv, mounted>>,
           \/ net' = net
           \/ /\ place = At("finished")
              /\ net' = [net EXCEPT ![p] = [q \in Ranks |-> Append(@[q], Header("TERMINATE"))]]
    PROVE  IInv'
<1>1. /\ fuse'[p] = place /\ \A q \in Ranks \ {p} : fuse'[q] = fuse[q]
      /\ place.at \in {"unmounted", "finished", "failed"}
  BY DEF IInv, Shape, At
<1>2. ASSUME NEW q \in Ranks, NEW r \in Ranks
      PROVE  /\ IsSeq(net'[q][r]) /\ DOMAIN net' = Ranks /\ DOMAIN net'[q] = Ranks
             /\ net'[q][r] # <<>> => fuse'[q].at = "finished"
             /\ \A i \in 1 .. Len(net'[q][r]) : net'[q][r][i] = Header("TERMINATE")
  <2>1. /\ IsSeq(net[q][r]) /\ DOMAIN net = Ranks /\ DOMAIN net[q] = Ranks
        /\ net[q][r] # <<>> => fuse[q].at = "finished"
        /\ \A i \in 1 .. Len(net[q][r]) : net[q][r][i] = Header("TERMINATE")
    BY DEF IInv, Shape, Resting
  <2>2. CASE net' = net
    BY <1>1, <2>1, <2>2
  <2>3. CASE net' # net /\ q = p
    <3>1. net'[q][r] = Append(net[q][r], Header("TERMINATE")) /\ DOMAIN net'[q] = Ranks /\ DOMAIN net' = Ranks
      BY <2>1, <2>3
    <3>2. place.at = "finished"
      BY <2>3 DEF At
    <3>3. /\ IsSeq(net'[q][r]) /\ Len(net'[q][r]) = Len(net[q][r]) + 1 /\ Len(net[q][r]) \in Nat
          /\ net'[q][r][Len(net[q][r]) + 1] = Header("TERMINATE")
          /\ \A i \in 1 .. Len(net[q][r]) : net'[q][r][i] = net[q][r][i]
      BY <2>1, <3>1, AppendFacts, SeqFacts
    <3>4. \A i \in 1 .. Len(net'[q][r]) : i \in 1 .. Len(net[q][r]) \/ i = Len(net[q][r]) + 1
      BY <3>3
    <3>5. \A i \in 1 .. Len(net'[q][r]) : net'[q][r][i] = Header("TERMINATE")
      BY <2>1, <3>3, <3>4
    <3> QED BY <1>1, <2>3, <3>1, <3>2, <3>3, <3>5
  <2>4. CASE net' # net /\ q # p
    <3>1. net'[q] = net[q] /\ DOMAIN net' = Ranks
      BY <2>1, <2>4
    <3> QED BY <1>1, <2>1, <2>4, <3>1
  <2> QED BY <2>2, <2>3, <2>4
<1>3. Shape'
  <2>1. DOMAIN fuse' = Ranks /\ DOMAIN recv' = Ranks /\ mounted' \in [Ranks -> BOOLEAN]
    BY DEF IInv, Shape
  <2> QED BY <1>2, <2>1, RestingShape, RanksFacts DEF IInv
<1>4. OnlyLoopsMounted'
  BY <1>1 DEF IInv, OnlyLoopsMounted
<1>5. PartsOfThose'
  BY PartsStill DEF IInv, RequestsStill
<1>6. Resting'
  <2>1. \A q \in Ranks : fuse[q].at = "finished" => fuse'[q].at = "finished"
    BY <1>1
  <2> QED BY <1>1, <1>2, <2>1 DEF IInv, Resting, RequestsStill
<1> QED BY <1>3, <1>4, <1>5, <1>6 DEF IInv

LEMMA EndsKeep ==
    ASSUME IInv, NEW p \in Ranks,
           StartFails(p) \/ MountFails(p) \/ LoopEnds(p) \/ SendTermination(p)
    PROVE  IInv'
<1>1. RequestsStill /\ UNCHANGED <<recv, mounted>>
  BY DEF StartFails, MountFails, LoopEnds, SendTermination, RequestsStill, dataVars, userVars
<1>2. ~mounted[p] /\ fuse[p].at # "finished"
  BY DEF StartFails, MountFails, LoopEnds, SendTermination, IInv, OnlyLoopsMounted, At
<1>3. ~AllMounted /\ ~(AllMounted')
  BY <1>1, <1>2 DEF AllMounted
<1>4. CASE StartFails(p) \/ MountFails(p) \/ LoopEnds(p)
  <2>1. PICK place \in {At("failed"), At("unmounted")} : fuse' = [fuse EXCEPT ![p] = place] /\ net' = net
    BY <1>4 DEF StartFails, MountFails, LoopEnds
  <2> QED BY <1>1, <1>2, <1>3, <2>1, RestingStep
<1>5. CASE SendTermination(p)
  <2>1. /\ fuse' = [fuse EXCEPT ![p] = At("finished")]
        /\ \/ net' = net
           \/ net' = [net EXCEPT ![p] = [q \in Ranks |-> Append(@[q], Header("TERMINATE"))]]
    BY <1>5 DEF SendTermination
  <2> QED BY <1>1, <1>2, <1>3, <2>1, RestingStep
<1> QED BY <1>4, <1>5

LEMMA QuietPlaces ==
    ASSUME IInv, AllMounted, Quiet
    PROVE  /\ \A q, p \in Ranks : net[q][p] = <<>>
           /\ \A p \in Ranks : fuse[p].at = "loop" /\ recv[p].at = "request" /\ pos[p] = Len(exchanges)
<1>1. \A q, p \in Ranks : net[q][p] = <<>>
  BY DEF AllMounted, Quiet, InFlight
<1>2. \A p \in Ranks : fuse[p].at = "loop" /\ recv[p].at = "request"
  BY DEF AllMounted, Quiet, IInv, OnlyLoopsMounted
<1>3. ASSUME NEW p \in Ranks PROVE pos[p] = Len(exchanges)
  <2>1. Working(user) /\ user \in Ranks
    BY DEF IInv, Shape
  <2>2. CASE p = user
    BY <2>1, <2>2 DEF Working, Leads
  <2>3. CASE p # user
    <3>1. Contributes(user, p) /\ fuse[user].at = "loop"
      BY <1>2, <2>1, <2>3 DEF Working, Others, Follows
    <3> QED BY <3>1 DEF Contributes
  <2> QED BY <2>2, <2>3
<1> QED BY <1>1, <1>2, <1>3

LEMMA UnmountKeeps == ASSUME IInv, Settled, NEW p \in Ranks, Unmount(p) PROVE IInv'
<1>1. /\ Quiet /\ mounted[p] /\ RequestsStill /\ UNCHANGED <<fuse, recv, net>>
      /\ mounted' = [mounted EXCEPT ![p] = FALSE]
  BY DEF Unmount, Settled, RequestsStill, dataVars, userVars
<1>2. \A q \in Ranks : mounted'[q] => mounted[q]
  BY <1>1 DEF IInv, Shape
<1>3. ~mounted'[p]
  BY <1>1 DEF IInv, Shape
<1>4. Shape'
  <2>1. mounted' \in [Ranks -> BOOLEAN]
    BY <1>1 DEF IInv, Shape
  <2> QED BY <1>1, <2>1, RestingShape DEF IInv, Shape
<1>5. OnlyLoopsMounted'
  BY <1>1, <1>2 DEF IInv, OnlyLoopsMounted
<1>6. PartsOfThose'
  BY <1>1, PartsStill DEF IInv, RequestsStill
<1>7. ~(AllMounted')
  BY <1>3 DEF AllMounted
<1>8. Resting
  <2>1. CASE AllMounted
    <3>1. Len(<<>>) = 0
      BY EmptySeq
    <3>2. /\ \A q, r \in Ranks : net[q][r] = <<>>
          /\ \A q \in Ranks : fuse[q].at = "loop" /\ recv[q].at = "request" /\ pos[q] = Len(exchanges)
      BY <1>1, <2>1, QuietPlaces
    <3> QED BY <3>1, <3>2 DEF Resting
  <2>2. CASE ~AllMounted
    BY <2>2 DEF IInv
  <2> QED BY <2>1, <2>2
<1>9. Resting'
  BY <1>1, <1>8 DEF Resting, RequestsStill
<1> QED BY <1>4, <1>5, <1>6, <1>7, <1>9 DEF IInv

(* What receiving the first message does to the messages. *)
LEMMA ReceiveFacts ==
    ASSUME Shape, NEW q \in Ranks, NEW p \in Ranks, net[q][p] # <<>>, Receive(q, p)
    PROVE  /\ Head(net[q][p]) = net[q][p][1] /\ Len(net[q][p]) > 0 /\ Len(net[q][p]) \in Nat
           /\ DOMAIN net' = Ranks /\ \A r \in Ranks : DOMAIN net'[r] = Ranks
           /\ \A r, s \in Ranks : IsSeq(net'[r][s]) /\ (r # q \/ s # p => net'[r][s] = net[r][s])
           /\ Len(net'[q][p]) = Len(net[q][p]) - 1
           /\ \A i \in 1 .. Len(net[q][p]) - 1 : net'[q][p][i] = net[q][p][i + 1]
           /\ net'[q][p] # <<>> <=> Len(net[q][p]) > 1
<1>1. DOMAIN net = Ranks /\ DOMAIN net[q] = Ranks /\ IsSeq(net[q][p])
  BY DEF Shape
<1>2. net' = [net EXCEPT ![q] = [net[q] EXCEPT ![p] = Tail(net[q][p])]]
  BY DEF Receive
<1>3. /\ DOMAIN net' = Ranks /\ \A r \in Ranks : DOMAIN net'[r] = Ranks
      /\ \A r, s \in Ranks : r # q \/ s # p => net'[r][s] = net[r][s]
      /\ net'[q][p] = Tail(net[q][p])
  BY <1>1, <1>2 DEF Shape
<1>4. /\ IsSeq(Tail(net[q][p])) /\ Len(net[q][p]) > 0 /\ Len(net[q][p]) \in Nat
      /\ Head(net[q][p]) = net[q][p][1]
      /\ Len(Tail(net[q][p])) = Len(net[q][p]) - 1
      /\ \A i \in 1 .. Len(net[q][p]) - 1 : Tail(net[q][p])[i] = net[q][p][i + 1]
      /\ Tail(net[q][p]) # <<>> <=> Len(net[q][p]) > 1
  BY <1>1, TailFacts
<1>5. \A r, s \in Ranks : IsSeq(net'[r][s])
  BY <1>3, <1>4 DEF Shape
<1> QED BY <1>3, <1>4, <1>5

LEMMA NoTermination ==
    ASSUME IInv, AllMounted, NEW q \in Ranks, NEW p \in Ranks, net[q][p] # <<>>
    PROVE  q = user /\ Head(net[q][p]) # Header("TERMINATE")
<1>1. PICK u : u = user
  OBVIOUS
<1>2. Working(u) /\ u \in Ranks
  BY <1>1 DEF IInv, Shape
<1>3. q = u
  BY <1>2 DEF Working, Leads, Others
<1>4. Head(net[q][p]) = net[q][p][1] /\ 1 \in 1 .. Len(net[q][p])
  BY TailFacts DEF IInv, Shape
<1>5. Header("TERMINATE").part = "header" /\ Header("TERMINATE").type = "TERMINATE"
  BY DEF Header
<1>6. CASE p = u
  <2>1. net[q][p][1].type # "TERMINATE"
    BY <1>2, <1>3, <1>4, <1>6 DEF Working, Leads
  <2> QED BY <1>1, <1>3, <1>4, <1>5, <2>1
<1>7. CASE p # u
  <2>1. Alternates(u, p)
    BY <1>2, <1>7 DEF Working, Others, Follows
  <2>2. net[q][p][1].part = "header" => net[q][p][1].type # "TERMINATE"
    BY <1>3, <1>4, <2>1 DEF Alternates
  <2> QED BY <1>1, <1>3, <1>4, <1>5, <2>2
<1> QED BY <1>6, <1>7

LEMMA RecvTerminateKeeps ==
    ASSUME IInv, NEW q \in Ranks, NEW p \in Ranks, RecvTerminate(q, p)
    PROVE  IInv'
<1>1. /\ net[q][p] # <<>> /\ Head(net[q][p]) = Header("TERMINATE") /\ Receive(q, p)
      /\ RequestsStill /\ fuse' = fuse
      /\ recv' = [recv EXCEPT ![p] = At("terminated")]
      /\ mounted' = [mounted EXCEPT ![p] = mounted[p] /\ q = p]
  BY DEF RecvTerminate, RequestsStill, dataVars, userVars
<1>2. ~AllMounted
  BY <1>1, NoTermination
<1>3. recv'[p].at = "terminated" /\ \A r \in Ranks : r # p => recv'[r] = recv[r]
  BY <1>1 DEF IInv, Shape, At
<1>4. ~(AllMounted')
  BY <1>3 DEF AllMounted
<1>5. \A r \in Ranks : mounted'[r] => mounted[r]
  BY <1>1 DEF IInv, Shape
<1>6. /\ DOMAIN net' = Ranks /\ \A r \in Ranks : DOMAIN net'[r] = Ranks
      /\ \A r, s \in Ranks : IsSeq(net'[r][s]) /\ (r # q \/ s # p => net'[r][s] = net[r][s])
      /\ Len(net'[q][p]) = Len(net[q][p]) - 1 /\ Len(net[q][p]) \in Nat
      /\ \A i \in 1 .. Len(net[q][p]) - 1 : net'[q][p][i] = net[q][p][i + 1]
  BY <1>1, ReceiveFacts DEF IInv
<1>7. Shape'
  <2>1. mounted' \in [Ranks -> BOOLEAN] /\ DOMAIN recv' = Ranks
    BY <1>1 DEF IInv, Shape
  <2> QED BY <1>1, <1>6, <2>1, RestingShape DEF IInv, Shape
<1>8. OnlyLoopsMounted'
  BY <1>1, <1>5 DEF IInv, OnlyLoopsMounted
<1>9. PartsOfThose'
  BY <1>1, PartsStill DEF IInv, RequestsStill
<1>10. Resting'
  <2>1. Resting
    BY <1>2 DEF IInv
  <2>2. ASSUME NEW r \in Ranks, NEW s \in Ranks
        PROVE  /\ net'[r][s] # <<>> => fuse[r].at = "finished"
               /\ \A i \in 1 .. Len(net'[r][s]) : net'[r][s][i] = Header("TERMINATE")
    <3>1. CASE r = q /\ s = p
      <4>1. \A i \in 1 .. Len(net[q][p]) - 1 : i + 1 \in 1 .. Len(net[q][p])
        BY <1>6
      <4>2. fuse[q].at = "finished" /\ \A i \in 1 .. Len(net[q][p]) : net[q][p][i] = Header("TERMINATE")
        BY <1>1, <2>1 DEF Resting
      <4>3. \A i \in 1 .. Len(net'[q][p]) : net'[q][p][i] = net[q][p][i + 1] /\ i + 1 \in 1 .. Len(net[q][p])
        BY <1>6, <4>1
      <4> QED BY <3>1, <4>2, <4>3
    <3>2. CASE r # q \/ s # p
      BY <1>6, <2>1, <3>2 DEF Resting
    <3> QED BY <3>1, <3>2
  <2> QED BY <1>1, <1>3, <2>1, <2>2 DEF Resting, RequestsStill
<1> QED BY <1>4, <1>7, <1>8, <1>9, <1>10 DEF IInv
-----------------------------------------------------------------------------
(* Users. *)

(* No operation of this type is on its way to q, or with its threads.      *)
Rid(p, q, type) == ~Repeating(q, type) /\ ~Receiving(q, type) /\ ~HeaderIn(p, q, type)

(* The peer that is used next leads, and nobody still has to join a call.  *)
LEMMA UserLeads ==
    ASSUME IInv, Settled, NEW p \in Ranks, NEW type, MayUse(p, type)
    PROVE  /\ AllMounted /\ Working(p) /\ fuse[p].at = "loop"
           /\ \A q \in Ranks : pos[q] = Len(exchanges)
           /\ type \in Announced \ {"CREATE_FILE"} => \A q \in Others(p) : Rid(p, q, type)
<1>1. AllMounted /\ fuse[p].at = "loop"
  BY DEF MayUse, Settled, At
<1>2. CASE Quiet
  <2>1. /\ \A q, r \in Ranks : net[q][r] = <<>>
        /\ \A q \in Ranks : fuse[q].at = "loop" /\ recv[q].at = "request" /\ pos[q] = Len(exchanges)
    BY <1>1, <1>2, QuietPlaces
  <2>2. Len(<<>>) = 0
    BY EmptySeq
  <2>3. Leads(p)
    BY <2>1, <2>2 DEF Leads, Others
  <2>4. ASSUME NEW q \in Others(p) PROVE Follows(p, q) /\ Rid(p, q, type)
    <3>1. net[p][q] = <<>> /\ fuse[q].at = "loop" /\ recv[q].at = "request" /\ pos[q] = Len(exchanges)
          /\ fuse[p].at = "loop"
      BY <2>1 DEF Others
    <3>2. Alternates(p, q)
      BY <2>2, <3>1 DEF Alternates
    <3>3. Repeats(p, q)
      BY <2>2, <3>1 DEF Repeats, Receiving, Repeating, HeaderIn
    <3>4. Contributes(p, q)
      BY <2>2, <3>1 DEF Contributes
    <3>5. Rid(p, q, type)
      BY <2>2, <3>1 DEF Rid, Receiving, Repeating, HeaderIn
    <3> QED BY <3>1, <3>2, <3>3, <3>4, <3>5 DEF Follows
  <2> QED BY <1>1, <2>1, <2>3, <2>4 DEF Working
<1>3. CASE ~Quiet
  <2>1. /\ user = p
        /\ type \in Announced \ {"CREATE_FILE"} => ~Outstanding(type)
    BY <1>3 DEF MayUse, Settled
  <2>2. Working(p)
    BY <1>1, <2>1 DEF IInv
  <2>3. ASSUME NEW q \in Ranks PROVE pos[q] = Len(exchanges)
    <3>1. CASE q = p
      BY <2>2, <3>1 DEF Working, Leads
    <3>2. CASE q # p
      <4>1. Contributes(p, q)
        BY <2>2, <3>2 DEF Working, Others, Follows
      <4> QED BY <1>1, <4>1 DEF Contributes
    <3> QED BY <3>1, <3>2
  <2>4. ASSUME type \in Announced \ {"CREATE_FILE"}, NEW q \in Others(p) PROVE Rid(p, q, type)
    <3>1. q \in Ranks /\ DOMAIN net[p][q] = 1 .. Len(net[p][q])
      BY SeqFacts DEF Others, IInv, Shape
    <3> QED BY <2>1, <2>4, <3>1 DEF Outstanding, Rid, Repeating, Receiving, HeaderIn
  <2> QED BY <1>1, <2>2, <2>3, <2>4
<1> QED BY <1>2, <1>3

(* A step of the leading peer that sends nothing. *)
LEMMA FollowsMoved ==
    ASSUME NEW u, NEW q, Follows(u, q), net'[u][q] = net[u][q], fuse'[q] = fuse[q],
           recv'[q] = recv[q], fromThread'[q] = fromThread[q], Contributes(u, q)',
           \A type \in Announced \ {"CREATE_FILE"} : Repeating(u, type)' => Repeating(u, type) \/ Rid(u, q, type)
    PROVE  Follows(u, q)'
<1>1. Alternates(u, q)'
  BY DEF Follows, Alternates
<1>2. Repeats(u, q)'
  BY DEF Follows, Repeats, Rid, Repeating, Receiving, HeaderIn
<1> QED BY <1>1, <1>2 DEF Follows

LEMMA FollowsStill ==
    ASSUME NEW u, NEW q, Follows(u, q), net'[u][q] = net[u][q], fuse'[q] = fuse[q],
           recv'[q] = recv[q], fromThread'[q] = fromThread[q], pos'[q] = pos[q],
           Len(exchanges') = Len(exchanges), fuse'[u] = fuse[u]
    PROVE  Follows(u, q)'
<1>1. Contributes(u, q)'
  BY DEF Follows, Contributes, Awaited
<1>2. \A type : Repeating(u, type)' => Repeating(u, type)
  BY DEF Repeating
<1> QED BY <1>1, <1>2, FollowsMoved

LEMMA ChangeKeeps ==
    ASSUME IInv, Settled, NEW p \in Ranks, NEW o, Change(p, o)
    PROVE  IInv'
<1>1. /\ MayUse(p, o.type)
      /\ user' = p
      /\ fuse' = IF o.type \in Announced
                 THEN [fuse EXCEPT ![p] = [at |-> "announce", op |-> Announcement(tree[p], o)]] ELSE fuse
      /\ UNCHANGED <<recv, mounted, fromThread, net, exchanges, pos>>
  BY DEF Change, dataVars
<1>2. /\ AllMounted /\ Working(p) /\ fuse[p].at = "loop"
      /\ \A q \in Ranks : pos[q] = Len(exchanges)
      /\ o.type \in Announced \ {"CREATE_FILE"} => \A q \in Others(p) : Rid(p, q, o.type)
  BY <1>1, UserLeads
<1>3. /\ DOMAIN fuse' = Ranks /\ \A q \in Ranks \ {p} : fuse'[q] = fuse[q]
      /\ IF o.type \in Announced THEN fuse'[p].at = "announce" /\ fuse'[p].op.type = o.type
         ELSE fuse'[p] = fuse[p]
  <2>1. Announcement(tree[p], o).type = o.type
    BY DEF Announcement
  <2> QED BY <1>1, <2>1 DEF IInv, Shape
<1>4. Shape'
  BY <1>1, <1>3 DEF IInv, Shape
<1>5. OnlyLoopsMounted'
  BY <1>1, <1>2, <1>3 DEF IInv, OnlyLoopsMounted
<1>6. PartsOfThose'
  BY <1>1, PartsStill DEF IInv
<1>7. AllMounted'
  BY <1>1, <1>2 DEF AllMounted
<1>8. Leads(p)'
  BY <1>1, <1>2, <1>3 DEF Working, Leads
<1>9. ASSUME NEW q \in Others(p) PROVE Follows(p, q)'
  <2>1. Follows(p, q) /\ q \in Ranks /\ q # p
    BY <1>2 DEF Working, Others
  <2>2. Contributes(p, q)'
    BY <1>1, <1>2, <2>1 DEF Follows, Contributes, Awaited
  <2>3. \A type \in Announced \ {"CREATE_FILE"} : Repeating(p, type)' => Repeating(p, type) \/ Rid(p, q, type)
    BY <1>2, <1>3 DEF Repeating
  <2> QED BY <1>1, <1>3, <2>1, <2>2, <2>3, FollowsMoved
<1>10. Working(p)'
  BY <1>8, <1>9 DEF Working, Others
<1> QED BY <1>1, <1>4, <1>5, <1>6, <1>7, <1>10 DEF IInv
-----------------------------------------------------------------------------
(* Requests that are sent. *)

(* A header and a body more. *)
Sent(u, q, c) == net'[u][q] = net[u][q] \o <<Header(c.type), Body(c)>>

LEMMA SentFacts ==
    ASSUME NEW u, NEW q, IsSeq(net[u][q]), NEW c, Sent(u, q, c)
    PROVE  /\ Len(net[u][q]) \in Nat /\ Len(net'[u][q]) = Len(net[u][q]) + 2 /\ net'[u][q] # <<>>
           /\ IsSeq(net'[u][q])
           /\ net'[u][q][Len(net[u][q]) + 1] = Header(c.type)
           /\ net'[u][q][Len(net[u][q]) + 2] = Body(c)
           /\ \A i \in 1 .. Len(net[u][q]) : net'[u][q][i] = net[u][q][i]
           /\ \A i \in 1 .. Len(net'[u][q]) : \/ i \in 1 .. Len(net[u][q])
                                              \/ i = Len(net[u][q]) + 1 \/ i = Len(net[u][q]) + 2
<1>1. Len(net[u][q]) \in Nat
  BY SeqFacts
<1>2. Len(net'[u][q]) = Len(net[u][q]) + 2
  BY PairFacts DEF Sent
<1>3. \A i \in 1 .. Len(net'[u][q]) : \/ i \in 1 .. Len(net[u][q])
                                      \/ i = Len(net[u][q]) + 1 \/ i = Len(net[u][q]) + 2
  BY <1>1, <1>2
<1> QED BY <1>1, <1>2, <1>3, PairFacts DEF Sent

LEMMA MessageParts ==
    /\ \A type : Header(type).part = "header" /\ Header(type).type = type
    /\ \A c : Body(c).part = "body" /\ Body(c).content = c
    /\ \A type, c : Header(type) # Body(c)
    /\ \A type, other : Header(type) = Header(other) => type = other
<1>1. \A type : Header(type).part = "header" /\ Header(type).type = type
  BY DEF Header
<1>2. \A c : Body(c).part = "body" /\ Body(c).content = c
  BY DEF Body
<1>3. \A type, c : Header(type) # Body(c)
  <2>1. SUFFICES ASSUME NEW type, NEW c, Header(type) = Body(c) PROVE FALSE
    OBVIOUS
  <2>2. Header(type).part = "header" /\ Body(c).part = "body"
    BY <1>1, <1>2
  <2> QED BY <2>1, <2>2
<1>4. \A type, other : Header(type) = Header(other) => type = other
  <2>1. SUFFICES ASSUME NEW type, NEW other, Header(type) = Header(other) PROVE type = other
    OBVIOUS
  <2>2. Header(type).type = type /\ Header(other).type = other
    BY <1>1
  <2> QED BY <2>1, <2>2
<1> QED BY <1>1, <1>2, <1>3, <1>4

LEMMA SentAlternates ==
    ASSUME NEW u, NEW q, IsSeq(net[u][q]), Alternates(u, q), NEW c, c.type # "TERMINATE", Sent(u, q, c),
           recv'[q] = recv[q]
    PROVE  Alternates(u, q)'
<1> DEFINE n == Len(net[u][q])
<1>1. /\ n \in Nat /\ Len(net'[u][q]) = n + 2 /\ net'[u][q] # <<>>
      /\ net'[u][q][n + 1].part = "header" /\ net'[u][q][n + 1].type = c.type
      /\ net'[u][q][n + 1] = Header(c.type)
      /\ net'[u][q][n + 2].part = "body" /\ net'[u][q][n + 2].content = c
      /\ \A i \in 1 .. n : net'[u][q][i] = net[u][q][i]
      /\ \A i \in 1 .. Len(net'[u][q]) : i \in 1 .. n \/ i = n + 1 \/ i = n + 2
  <2>1. /\ n \in Nat /\ Len(net'[u][q]) = n + 2 /\ net'[u][q] # <<>>
        /\ net'[u][q][n + 1] = Header(c.type) /\ net'[u][q][n + 2] = Body(c)
        /\ \A i \in 1 .. n : net'[u][q][i] = net[u][q][i]
        /\ \A i \in 1 .. Len(net'[u][q]) : i \in 1 .. n \/ i = n + 1 \/ i = n + 2
    BY SentFacts
  <2>2. /\ Header(c.type).part = "header" /\ Header(c.type).type = c.type
        /\ Body(c).part = "body" /\ Body(c).content = c
    BY MessageParts
  <2> QED BY <2>1, <2>2
<1>2. net[u][q] = <<>> <=> n = 0
  BY SeqFacts, EmptySeq
<1>3. /\ n > 0 => /\ IF recv[q].at = "body" THEN net[u][q][1].part = "body" ELSE net[u][q][1].part = "header"
                  /\ net[u][q][n].part = "body"
      /\ recv[q].at = "body" => n > 0 /\ net[u][q][1].content.type = recv[q].type /\ recv[q].source = u
  BY <1>2 DEF Alternates
<1> HIDE DEF n
<1>4. IF recv[q].at = "body" THEN net'[u][q][1].part = "body" ELSE net'[u][q][1].part = "header"
  <2>1. CASE n = 0
    BY <1>1, <1>3, <2>1
  <2>2. CASE n > 0
    <3>1. 1 \in 1 .. n
      BY <1>1, <2>2
    <3> QED BY <1>1, <1>3, <2>2, <3>1
  <2> QED BY <1>1, <2>1, <2>2
<1>5. recv[q].at = "body" => net'[u][q][1].content.type = recv[q].type /\ recv[q].source = u
  <2>1. n > 0 => 1 \in 1 .. n
    BY <1>1
  <2> QED BY <1>1, <1>3, <2>1
<1>6. ASSUME NEW i \in 1 .. Len(net'[u][q])
      PROVE  /\ net'[u][q][i].part \in {"header", "body"}
             /\ net'[u][q][i].part = "header" => /\ net'[u][q][i] = Header(net'[u][q][i].type)
                                                /\ net'[u][q][i].type # "TERMINATE"
  <2>1. CASE i \in 1 .. n
    BY <1>1, <2>1 DEF Alternates, n
  <2>2. CASE i \notin 1 .. n
    BY <1>1, <2>2
  <2> QED BY <2>1, <2>2
<1>7. ASSUME NEW i \in 1 .. Len(net'[u][q]) - 1
      PROVE  IF net'[u][q][i].part = "header"
             THEN /\ net'[u][q][i + 1].part = "body"
                  /\ net'[u][q][i + 1].content.type = net'[u][q][i].type
             ELSE net'[u][q][i + 1].part = "header"
  <2>1. CASE i \in 1 .. n - 1
    <3>1. i \in 1 .. n /\ i + 1 \in 1 .. n
      BY <1>1, <2>1
    <3> QED BY <1>1, <2>1, <3>1 DEF Alternates, n
  <2>2. CASE i = n
    <3>1. n \in 1 .. n /\ n > 0
      BY <1>1, <2>2
    <3> QED BY <1>1, <1>3, <2>2, <3>1
  <2>3. CASE i = n + 1
    <3>1. i + 1 = n + 2
      BY <1>1, <2>3
    <3> QED BY <1>1, <2>3, <3>1
  <2> QED BY <1>1, <2>1, <2>2, <2>3
<1>8. net'[u][q][Len(net'[u][q])].part = "body"
  BY <1>1
<1> QED BY <1>1, <1>4, <1>5, <1>6, <1>7, <1>8 DEF Alternates

LEMMA SentHeaders ==
    ASSUME NEW u, NEW q, IsSeq(net[u][q]), NEW c, Sent(u, q, c), NEW type
    PROVE  HeaderIn(u, q, type)' <=> HeaderIn(u, q, type) \/ type = c.type
<1> DEFINE n == Len(net[u][q])
<1>1. /\ n \in Nat /\ Len(net'[u][q]) = n + 2
      /\ net'[u][q][n + 1] = Header(c.type) /\ net'[u][q][n + 2] = Body(c)
      /\ \A i \in 1 .. n : net'[u][q][i] = net[u][q][i]
      /\ \A i \in 1 .. Len(net'[u][q]) : i \in 1 .. n \/ i = n + 1 \/ i = n + 2
  BY SentFacts
<1>2. Header(type) # Body(c) /\ (Header(c.type) = Header(type) => type = c.type)
  BY MessageParts
<1>3. \A i \in 1 .. n : i \in 1 .. Len(net'[u][q])
  BY <1>1
<1>4. n + 1 \in 1 .. Len(net'[u][q])
  BY <1>1
<1> HIDE DEF n
<1>5. HeaderIn(u, q, type)' <=> \E i \in 1 .. Len(net'[u][q]) : net'[u][q][i] = Header(type)
  BY DEF HeaderIn
<1>6. HeaderIn(u, q, type) <=> \E i \in 1 .. n : net[u][q][i] = Header(type)
  BY DEF HeaderIn, n
<1>7. ASSUME HeaderIn(u, q, type)' PROVE HeaderIn(u, q, type) \/ type = c.type
  BY <1>1, <1>2, <1>5, <1>6, <1>7
<1>8. ASSUME HeaderIn(u, q, type) PROVE HeaderIn(u, q, type)'
  BY <1>1, <1>3, <1>5, <1>6, <1>8
<1>9. ASSUME type = c.type PROVE HeaderIn(u, q, type)'
  BY <1>1, <1>4, <1>5, <1>9
<1> QED BY <1>7, <1>8, <1>9

(* A peer that follows is sent another request. *)
LEMMA SentRepeats ==
    ASSUME NEW u, NEW q, IsSeq(net[u][q]), Repeats(u, q), NEW c, Sent(u, q, c),
           recv'[q] = recv[q], fuse'[q] = fuse[q], fromThread'[q] = fromThread[q],
           fuse'[u].at # "announce",
           c.type \in Announced \ {"CREATE_FILE"} => Rid(u, q, c.type)
    PROVE  Repeats(u, q)'
<1> DEFINE n == Len(net[u][q])
<1>1. \A type : HeaderIn(u, q, type)' <=> HeaderIn(u, q, type) \/ type = c.type
  BY SentHeaders
<1>2. \A type : /\ Receiving(q, type)' <=> Receiving(q, type)
                /\ Repeating(q, type)' <=> Repeating(q, type)
                /\ ~(Repeating(u, type)')
  BY DEF Receiving, Repeating
<1>3. ASSUME NEW type \in Announced \ {"CREATE_FILE"},
             NEW i \in 1 .. Len(net'[u][q]), NEW j \in 1 .. Len(net'[u][q]),
             net'[u][q][i] = Header(type), net'[u][q][j] = Header(type)
      PROVE  i = j
  <2>1. /\ n \in Nat /\ Len(net'[u][q]) = n + 2
        /\ net'[u][q][n + 1] = Header(c.type) /\ net'[u][q][n + 2] = Body(c)
        /\ \A k \in 1 .. n : net'[u][q][k] = net[u][q][k]
        /\ \A k \in 1 .. Len(net'[u][q]) : k \in 1 .. n \/ k = n + 1 \/ k = n + 2
    BY SentFacts
  <2>2. Header(type) # Body(c) /\ (Header(c.type) = Header(type) => type = c.type)
    BY MessageParts
  <2>3. \A k, l \in 1 .. n : net[u][q][k] = Header(type) /\ net[u][q][l] = Header(type) => k = l
    BY DEF Repeats
  <2>4. type = c.type => \A k \in 1 .. n : net[u][q][k] # Header(type)
    BY DEF Rid, HeaderIn
  <2> HIDE DEF n
  <2>5. i # n + 2 /\ j # n + 2
    BY <1>3, <2>1, <2>2
  <2>6. CASE type = c.type
    <3>1. i = n + 1 /\ j = n + 1
      BY <1>3, <2>1, <2>4, <2>5, <2>6
    <3> QED BY <3>1
  <2>7. CASE type # c.type
    <3>1. i \in 1 .. n /\ j \in 1 .. n
      BY <1>3, <2>1, <2>2, <2>5, <2>7
    <3> QED BY <1>3, <2>1, <2>3, <3>1
  <2> QED BY <2>6, <2>7
<1>4. ASSUME NEW type \in Announced \ {"CREATE_FILE"}
      PROVE  /\ Repeating(q, type)' => ~(Receiving(q, type)') /\ ~(HeaderIn(u, q, type)')
             /\ Receiving(q, type)' => ~(HeaderIn(u, q, type)')
  BY <1>1, <1>2 DEF Repeats, Rid
<1>5. \A type \in Announced : Receiving(q, type)' => fromThread'[q][type]
  BY <1>2 DEF Repeats
<1>6. /\ recv'[q].at = "syscall" => recv'[q].type \in Announced /\ recv'[q].op.type = recv'[q].type
      /\ fuse'[q].at = "announce" => fuse'[q].op.type \in Announced /\ fromThread'[q][fuse'[q].op.type]
      /\ Repeating(q, "CREATE_FILE")' => recv'[q].at = "close"
  BY <1>2 DEF Repeats
<1> QED BY <1>2, <1>3, <1>4, <1>5, <1>6 DEF Repeats

(* Nobody has to join a call, but for the one that u makes now. *)
LEMMA SentContributes ==
    ASSUME NEW u, NEW q, IsSeq(net[u][q]), Contributes(u, q), ~Awaited(u, q), NEW c, Sent(u, q, c),
           recv'[q] = recv[q], pos'[q] = pos[q], pos[q] = Len(exchanges), Len(exchanges') = Len(exchanges),
           Joined(c) => fuse'[u] = [at |-> "scatter", call |-> c]
    PROVE  Contributes(u, q)'
<1> DEFINE n == Len(net[u][q])
<1>1. /\ n \in Nat /\ Len(net'[u][q]) = n + 2
      /\ net'[u][q][n + 1].part = "header"
      /\ net'[u][q][n + 2].content = c
      /\ \A i \in 1 .. n : net'[u][q][i] = net[u][q][i]
      /\ \A i \in 1 .. Len(net'[u][q]) : i \in 1 .. n \/ i = n + 1 \/ i = n + 2
  <2>1. /\ n \in Nat /\ Len(net'[u][q]) = n + 2
        /\ net'[u][q][n + 1] = Header(c.type) /\ net'[u][q][n + 2] = Body(c)
        /\ \A i \in 1 .. n : net'[u][q][i] = net[u][q][i]
        /\ \A i \in 1 .. Len(net'[u][q]) : i \in 1 .. n \/ i = n + 1 \/ i = n + 2
    BY SentFacts
  <2>2. Header(c.type).part = "header" /\ Body(c).content = c
    BY MessageParts
  <2> QED BY <2>1, <2>2
<1>2. recv[q].at # "scatter"
  BY DEF Contributes
<1>3. ASSUME NEW i \in 1 .. Len(net'[u][q]), net'[u][q][i].part = "body", Joined(net'[u][q][i].content)
      PROVE  /\ i = Len(net'[u][q]) /\ Awaited(u, q)' /\ net'[u][q][i].content = fuse'[u].call
  <2>1. i \notin 1 .. n
    BY <1>1, <1>3 DEF Contributes
  <2>2. i = n + 2
    BY <1>1, <1>3, <2>1
  <2>3. Joined(c) /\ fuse'[u].at = "scatter" /\ fuse'[u].call = c
    BY <1>1, <1>3, <2>2
  <2> QED BY <1>1, <2>2, <2>3 DEF Awaited
<1> QED BY <1>2, <1>3 DEF Contributes

LEMMA SentFollows ==
    ASSUME NEW u, NEW q, IsSeq(net[u][q]), Follows(u, q), NEW c, Sent(u, q, c),
           c.type # "TERMINATE", c.type \in Announced \ {"CREATE_FILE"} => Rid(u, q, c.type),
           fuse[u].at \notin {"scatter", "gather"}, fuse'[u].at # "announce",
           Joined(c) => fuse'[u] = [at |-> "scatter", call |-> c],
           recv'[q] = recv[q], fuse'[q] = fuse[q], fromThread'[q] = fromThread[q],
           pos'[q] = pos[q], Len(exchanges') = Len(exchanges)
    PROVE  Follows(u, q)'
<1>1. Alternates(u, q)'
  BY SentAlternates DEF Follows
<1>2. Repeats(u, q)'
  BY SentRepeats DEF Follows
<1>3. Contributes(u, q)'
  <2>1. pos[q] = Len(exchanges) /\ ~Awaited(u, q)
    BY DEF Follows, Contributes, Awaited
  <2> QED BY <2>1, SentContributes DEF Follows
<1> QED BY <1>1, <1>2, <1>3 DEF Follows

(* A write or a read begins: everyone else is sent the call. *)
CallBegins(p, c) ==
    /\ MayUse(p, c.type) /\ c.type \in {"WRITE", "READ"}
    /\ SendCall(p, c)
    /\ fuse' = [fuse EXCEPT ![p] = [at |-> "scatter", call |-> c]] \/ (fuse' = fuse /\ ~Joined(c))
    /\ user' = p
    /\ UNCHANGED <<recv, mounted, fromThread, exchanges, pos>>

LEMMA CallBeginsKeeps ==
    ASSUME IInv, Settled, NEW p \in Ranks, NEW c, CallBegins(p, c)
    PROVE  IInv'
<1>1. /\ AllMounted /\ Working(p) /\ fuse[p].at = "loop"
      /\ \A q \in Ranks : pos[q] = Len(exchanges)
  BY UserLeads DEF CallBegins
<1>2. /\ DOMAIN fuse' = Ranks /\ \A q \in Ranks \ {p} : fuse'[q] = fuse[q]
      /\ fuse'[p] = fuse[p] \/ fuse'[p] = [at |-> "scatter", call |-> c]
      /\ Joined(c) => fuse'[p] = [at |-> "scatter", call |-> c]
  BY DEF CallBegins, IInv, Shape
<1>3. /\ DOMAIN net = Ranks /\ DOMAIN net[p] = Ranks /\ \A q, r \in Ranks : IsSeq(net[q][r])
      /\ \A q \in Ranks : DOMAIN net[q] = Ranks
  BY DEF IInv, Shape
<1>4. /\ DOMAIN net' = Ranks /\ \A q \in Ranks \ {p} : net'[q] = net[q]
      /\ DOMAIN net'[p] = Ranks
      /\ net'[p][p] = net[p][p] /\ \A q \in Others(p) : Sent(p, q, c)
  BY <1>3 DEF CallBegins, SendCall, Others, Sent
<1>5. \A q \in Others(p) : IsSeq(net'[p][q])
  BY <1>3, <1>4, SentFacts DEF Others
<1>6. Shape'
  <2>1. \A q, r \in Ranks : IsSeq(net'[q][r]) /\ DOMAIN net'[q] = Ranks
    BY <1>3, <1>4, <1>5 DEF Others
  <2> QED BY <1>2, <1>4, <2>1 DEF CallBegins, IInv, Shape
<1>7. OnlyLoopsMounted'
  BY <1>1, <1>2 DEF CallBegins, IInv, OnlyLoopsMounted
<1>8. PartsOfThose'
  BY PartsStill DEF CallBegins, IInv
<1>9. AllMounted'
  BY <1>1 DEF CallBegins, AllMounted
<1>10. Leads(p)'
  <2>1. Leads(p)
    BY <1>1 DEF Working
  <2>2. fuse'[p].at \in {"loop", "scatter"} /\ (fuse'[p].at = "scatter" => fuse'[p] = [at |-> fuse'[p].at, call |-> fuse'[p].call])
    BY <1>1, <1>2
  <2>3. \A q \in Others(p), r \in Ranks : net'[q][r] = <<>>
    BY <1>4, <2>1 DEF Leads, Others
  <2> QED BY <1>4, <2>1, <2>2, <2>3 DEF CallBegins, Leads
<1>11. ASSUME NEW q \in Others(p) PROVE Follows(p, q)'
  <2>1. Follows(p, q) /\ q \in Ranks /\ q # p /\ IsSeq(net[p][q]) /\ Sent(p, q, c)
    BY <1>1, <1>3, <1>4 DEF Working, Others
  <2>2. c.type # "TERMINATE" /\ c.type \notin Announced
    BY DEF CallBegins, Announced
  <2>3. fuse'[p].at # "announce" /\ fuse[p].at \notin {"scatter", "gather"}
    BY <1>1, <1>2
  <2>4. /\ fuse'[q] = fuse[q] /\ recv'[q] = recv[q] /\ fromThread'[q] = fromThread[q] /\ pos'[q] = pos[q]
        /\ Len(exchanges') = Len(exchanges)
    BY <1>2, <2>1 DEF CallBegins
  <2> QED BY <1>2, <2>1, <2>2, <2>3, <2>4, SentFollows
<1>12. Working(p)'
  BY <1>10, <1>11 DEF Working, Others
<1>13. user' = p
  BY DEF CallBegins
<1> QED BY <1>6, <1>7, <1>8, <1>9, <1>12, <1>13 DEF IInv

LEMMA FlushKeeps ==
    ASSUME IInv, Settled, NEW p \in Ranks, NEW path, NEW size, FuseFlush(p, path, size)
    PROVE  IInv'
<1> DEFINE c == [type |-> "WRITE", source |-> p, inode |-> INodeAt(tree[p], path), fileSize |-> size]
<1>1. /\ MayUse(p, "WRITE") /\ SendCall(p, c) /\ fuse' = [fuse EXCEPT ![p] = [at |-> "scatter", call |-> c]]
      /\ user' = p /\ UNCHANGED <<recv, mounted, fromThread, exchanges, pos>>
  BY DEF FuseFlush, dataVars
<1>2. c.type = "WRITE"
  OBVIOUS
<1> HIDE DEF c
<1>3. CallBegins(p, c)
  BY <1>1, <1>2 DEF CallBegins
<1> QED BY <1>3, CallBeginsKeeps

LEMMA OpenKeeps ==
    ASSUME IInv, Settled, NEW p \in Ranks, NEW path, FuseOpen(p, path)
    PROVE  IInv'
<1> DEFINE ino == INodeAt(tree[p], path)
           c == [type |-> "READ", source |-> p, inode |-> ino, fileSize |-> tree[p][ino].st_size]
<1>1. /\ MayUse(p, "READ") /\ SendCall(p, c)
      /\ fuse' = IF c.fileSize = 0 THEN fuse ELSE [fuse EXCEPT ![p] = [at |-> "scatter", call |-> c]]
      /\ user' = p /\ UNCHANGED <<recv, mounted, fromThread, exchanges, pos>>
  BY DEF FuseOpen
<1>2. c.type = "READ"
  OBVIOUS
<1> HIDE DEF c
<1>3. CallBegins(p, c)
  BY <1>1, <1>2 DEF CallBegins, Joined
<1> QED BY <1>3, CallBeginsKeeps

(* The peer that announces, or takes a flag down, leads or repeats.        *)
LEMMA AnnounceKeeps == ASSUME IInv, NEW p \in Ranks, Announce(p) PROVE IInv'
<1> DEFINE o == fuse[p].op
<1>1. /\ fuse[p].at = "announce"
      /\ \/ /\ fromThread[p][o.type]
            /\ fromThread' = [fromThread EXCEPT ![p] = [fromThread[p] EXCEPT ![o.type] = FALSE]]
            /\ fuse' = [fuse EXCEPT ![p] = At("loop")]
            /\ net' = net
         \/ /\ ~fromThread[p][o.type]
            /\ Broadcast(p, o)
            /\ fuse' = [fuse EXCEPT ![p] = IF o.type = "RENAME" THEN At("loop") ELSE [at |-> "reset", op |-> o]]
            /\ fromThread' = fromThread
      /\ UNCHANGED <<recv, mounted, exchanges, pos, user>>
  BY DEF Announce, dataVars, userVars
<1>2. PICK u : u = user
  OBVIOUS
<1>3. AllMounted /\ Working(u) /\ u \in Ranks
  BY <1>1, <1>2 DEF IInv, Shape, Resting
<1>4. o.type \in Announced
  <2>1. CASE p = u
    BY <1>1, <1>3, <2>1 DEF Working, Leads
  <2>2. CASE p # u
    BY <1>1, <1>3, <2>2 DEF Working, Others, Follows, Repeats
  <2> QED BY <2>1, <2>2
<1> HIDE DEF o
<1>5. AllMounted'
  BY <1>1, <1>3 DEF AllMounted
<1>6. PartsOfThose'
  BY <1>1, PartsStill DEF IInv
<1>7. /\ DOMAIN fuse' = Ranks /\ \A q \in Ranks \ {p} : fuse'[q] = fuse[q]
      /\ fuse'[p] = At("loop") \/ fuse'[p] = [at |-> "reset", op |-> o]
  BY <1>1 DEF IInv, Shape
<1>8. fuse'[p].at \in {"loop", "reset"} /\ (fuse'[p].at = "reset" => fuse'[p].op = o)
  BY <1>7 DEF At
<1>9. OnlyLoopsMounted'
  BY <1>1, <1>7, <1>8 DEF IInv, OnlyLoopsMounted
<1>10. CASE fromThread[p][o.type]
  <2>1. /\ fuse'[p] = At("loop") /\ net' = net
        /\ fromThread' = [fromThread EXCEPT ![p] = [fromThread[p] EXCEPT ![o.type] = FALSE]]
    BY <1>1, <1>10 DEF IInv, Shape
  <2>2. /\ fromThread' \in [Ranks -> [Announced -> BOOLEAN]]
        /\ \A q \in Ranks, type \in Announced : q # p \/ type # o.type => fromThread'[q][type] = fromThread[q][type]
        /\ \A q \in Ranks \ {p} : fromThread'[q] = fromThread[q]
    BY <1>4, <2>1 DEF IInv, Shape
  <2>3. Shape'
    BY <1>1, <1>7, <2>1, <2>2 DEF IInv, Shape
  <2>4. fuse'[p].at = "loop"
    BY <2>1 DEF At
  <2>5. ASSUME p = u PROVE Working(u)'
    <3>1. Leads(u)'
      BY <1>1, <1>3, <2>1, <2>4, <2>5 DEF Working, Leads
    <3>2. ASSUME NEW q \in Others(u) PROVE Follows(u, q)'
      <4>1. Follows(u, q) /\ q \in Ranks /\ q # p
        BY <1>3, <2>5 DEF Working, Others
      <4>2. Contributes(u, q)'
        BY <1>1, <2>1, <2>4, <2>5, <4>1 DEF Follows, Contributes, Awaited
      <4>3. \A type : ~(Repeating(u, type)')
        BY <2>4, <2>5 DEF Repeating
      <4> QED BY <1>1, <1>7, <2>1, <2>2, <4>1, <4>2, <4>3, FollowsMoved
    <3> QED BY <3>1, <3>2 DEF Working, Others
  <2>6. ASSUME p # u PROVE Working(u)'
    <3>1. Leads(u)'
      BY <1>1, <1>3, <1>7, <2>1, <2>6 DEF Working, Leads
    <3>2. ASSUME NEW q \in Others(u) PROVE Follows(u, q)'
      <4>1. Follows(u, q) /\ q \in Ranks /\ fuse'[u] = fuse[u]
        BY <1>3, <1>7, <2>6 DEF Working, Others
      <4>2. CASE q # p
        BY <1>1, <1>7, <2>1, <2>2, <4>1, <4>2, FollowsStill
      <4>3. CASE q = p
        <5>1. Alternates(u, q)' /\ Contributes(u, q)'
          BY <1>1, <2>1, <4>1 DEF Follows, Alternates, Contributes, Awaited
        <5>2. Repeats(u, q)'
          <6>1. Repeats(u, q) /\ Repeating(q, o.type) /\ \A type : ~(Repeating(q, type)')
            BY <1>1, <2>4, <4>1, <4>3 DEF Follows, Repeating, o
          <6>2. \A type : /\ Receiving(q, type)' <=> Receiving(q, type)
                          /\ HeaderIn(u, q, type)' <=> HeaderIn(u, q, type)
                          /\ Repeating(u, type)' <=> Repeating(u, type)
            BY <1>1, <2>1, <4>1 DEF Receiving, HeaderIn, Repeating
          <6>3. ~Receiving(q, o.type)
            BY <1>4, <6>1 DEF Repeats, Receiving
          <6>4. \A type \in Announced : Receiving(q, type)' => fromThread'[q][type]
            BY <2>2, <4>3, <6>1, <6>2, <6>3 DEF Repeats
          <6>5. fuse'[q].at # "announce"
            BY <2>4, <4>3
          <6> QED BY <1>1, <2>1, <6>1, <6>2, <6>4, <6>5 DEF Repeats
        <5> QED BY <1>1, <2>4, <4>1, <4>3, <5>1, <5>2 DEF Follows
      <4> QED BY <4>2, <4>3
    <3> QED BY <3>1, <3>2 DEF Working, Others
  <2>7. Working(u)' /\ user' = u
    BY <1>1, <1>2, <2>5, <2>6
  <2> QED BY <1>5, <1>6, <1>9, <2>3, <2>7 DEF IInv
<1>11. CASE ~fromThread[p][o.type]
  <2>1. p = u
    <3>1. p # u => fromThread[p][o.type]
      BY <1>1, <1>3 DEF Working, Others, Follows, Repeats, o
    <3> QED BY <1>11, <3>1
  <2>2. Broadcast(p, o) /\ fromThread' = fromThread
    BY <1>1, <1>11
  <2>3. /\ DOMAIN net = Ranks /\ \A q, r \in Ranks : IsSeq(net[q][r]) /\ DOMAIN net[q] = Ranks
        /\ DOMAIN net[p] = Ranks
    BY DEF IInv, Shape
  <2>4. /\ DOMAIN net' = Ranks /\ \A q \in Ranks \ {p} : net'[q] = net[q]
        /\ DOMAIN net'[p] = Ranks
        /\ net'[p][p] = Append(net[p][p], Header(o.type)) /\ \A q \in Others(p) : Sent(p, q, o)
    BY <2>2, <2>3 DEF Broadcast, Others, Sent
  <2>5. \A q \in Others(p) : IsSeq(net'[p][q])
    BY <2>3, <2>4, SentFacts DEF Others
  <2>6. /\ IsSeq(net'[p][p])
        /\ \A i \in 1 .. Len(net'[p][p]) : \/ i \in 1 .. Len(net[p][p]) /\ net'[p][p][i] = net[p][p][i]
                                           \/ net'[p][p][i] = Header(o.type)
    <3>1. Len(net[p][p]) \in Nat
      BY <2>3, SeqFacts
    <3> QED BY <2>3, <2>4, <3>1, AppendFacts
  <2>7. Shape'
    <3>1. \A q, r \in Ranks : IsSeq(net'[q][r]) /\ DOMAIN net'[q] = Ranks
      BY <2>3, <2>4, <2>5, <2>6 DEF Others
    <3> QED BY <1>1, <1>7, <2>2, <2>4, <3>1 DEF IInv, Shape
  <2>8. Leads(u)'
    <3>1. \A q \in Others(p), r \in Ranks : net'[q][r] = <<>>
      BY <1>3, <2>1, <2>4 DEF Working, Leads, Others
    <3>2. Header(o.type).part = "header" /\ Header(o.type).type # "TERMINATE"
      BY <1>4, MessageParts DEF Announced
    <3>3. \A i \in 1 .. Len(net'[p][p]) : net'[p][p][i].part = "header" /\ net'[p][p][i].type # "TERMINATE"
      BY <1>3, <2>1, <2>6, <3>2 DEF Working, Leads
    <3> QED BY <1>1, <1>3, <1>4, <1>8, <2>1, <3>1, <3>3 DEF Working, Leads
  <2>9. ASSUME NEW q \in Others(u) PROVE Follows(u, q)'
    <3>1. Follows(u, q) /\ q \in Ranks /\ q # p /\ IsSeq(net[u][q]) /\ Sent(u, q, o)
      BY <1>3, <2>1, <2>3, <2>4 DEF Working, Others
    <3>2. o.type # "TERMINATE" /\ ~Joined(o)
      BY <1>4 DEF Announced, Joined
    <3>3. o.type \in Announced \ {"CREATE_FILE"} => Rid(u, q, o.type)
      BY <1>1, <2>1, <3>1 DEF Follows, Repeats, Rid, Repeating, o
    <3>4. fuse[u].at \notin {"scatter", "gather"} /\ fuse'[u].at # "announce"
      BY <1>1, <1>8, <2>1
    <3>5. /\ fuse'[q] = fuse[q] /\ recv'[q] = recv[q] /\ fromThread'[q] = fromThread[q] /\ pos'[q] = pos[q]
          /\ Len(exchanges') = Len(exchanges)
      BY <1>1, <1>7, <2>2, <3>1
    <3> QED BY <3>1, <3>2, <3>3, <3>4, <3>5, SentFollows
  <2>10. Working(u)'
    BY <2>8, <2>9 DEF Working, Others
  <2>11. user' = u
    BY <1>1, <1>2
  <2> QED BY <1>5, <1>6, <1>9, <2>7, <2>10, <2>11 DEF IInv
<1> QED BY <1>10, <1>11

LEMMA ResetKeeps == ASSUME IInv, NEW p \in Ranks, ResetFlag(p) PROVE IInv'
<1>1. /\ fuse[p].at = "reset"
      /\ fromThread' = [fromThread EXCEPT ![p] = [fromThread[p] EXCEPT ![fuse[p].op.type] = FALSE]]
      /\ fuse' = [fuse EXCEPT ![p] = At("loop")]
      /\ UNCHANGED <<recv, mounted, net, exchanges, pos, user>>
  BY DEF ResetFlag, dataVars, userVars
<1>2. PICK u : u = user
  OBVIOUS
<1>3. AllMounted /\ Working(u) /\ u \in Ranks
  BY <1>1, <1>2 DEF IInv, Shape, Resting
<1>4. p = u
  BY <1>1, <1>3 DEF Working, Others, Follows
<1>5. /\ DOMAIN fuse' = Ranks /\ \A q \in Ranks \ {p} : fuse'[q] = fuse[q] /\ fromThread'[q] = fromThread[q]
      /\ fuse'[p].at = "loop"
  BY <1>1 DEF IInv, Shape, At
<1>6. Shape'
  <2>1. fromThread' \in [Ranks -> [Announced -> BOOLEAN]]
    BY <1>1 DEF IInv, Shape
  <2> QED BY <1>1, <1>5, <2>1 DEF IInv, Shape
<1>7. OnlyLoopsMounted'
  BY <1>1, <1>5 DEF IInv, OnlyLoopsMounted
<1>8. PartsOfThose'
  BY <1>1, PartsStill DEF IInv
<1>9. AllMounted'
  BY <1>1, <1>3 DEF AllMounted
<1>10. Leads(u)'
  BY <1>1, <1>3, <1>4, <1>5 DEF Working, Leads
<1>11. ASSUME NEW q \in Others(u) PROVE Follows(u, q)'
  <2>1. Follows(u, q) /\ q \in Ranks /\ q # p
    BY <1>3, <1>4 DEF Working, Others
  <2>2. Contributes(u, q)'
    BY <1>1, <1>4, <1>5, <2>1 DEF Follows, Contributes, Awaited
  <2>3. \A type : ~(Repeating(u, type)')
    BY <1>4, <1>5 DEF Repeating
  <2> QED BY <1>1, <1>5, <2>1, <2>2, <2>3, FollowsMoved
<1>12. Working(u)' /\ user' = u
  BY <1>1, <1>2, <1>10, <1>11 DEF Working, Others
<1> QED BY <1>6, <1>7, <1>8, <1>9, <1>12 DEF IInv
-----------------------------------------------------------------------------
(* Collectives. *)

(* The root begins an exchange; nobody else has a part in it. *)
LEMMA ScatterKeeps == ASSUME IInv, NEW p \in Ranks, FuseScatter(p) PROVE IInv'
<1> DEFINE n == Len(exchanges)
<1>1. PICK parts, part :
         /\ fuse[p].at = "scatter" /\ pos[p] = n
         /\ exchanges' = Append(exchanges, [call |-> fuse[p].call, parts |-> parts, gathered |-> [q \in {p} |-> part]])
         /\ pos' = [pos EXCEPT ![p] = @ + 1]
         /\ fuse' = [fuse EXCEPT ![p].at = "gather"]
         /\ UNCHANGED <<recv, mounted, fromThread, net, user>>
  BY DEF FuseScatter, userVars
<1>2. PICK u : u = user
  OBVIOUS
<1>3. AllMounted /\ Working(u) /\ u \in Ranks
  BY <1>1, <1>2 DEF IInv, Shape, Resting
<1>4. p = u
  BY <1>1, <1>3 DEF Working, Others, Follows
<1>5. /\ DOMAIN fuse' = Ranks /\ \A q \in Ranks \ {p} : fuse'[q] = fuse[q]
      /\ fuse'[p] = [at |-> "gather", call |-> fuse[p].call]
  <2>1. fuse[p] = [at |-> fuse[p].at, call |-> fuse[p].call]
    BY <1>1, <1>3, <1>4 DEF Working, Leads
  <2>2. [fuse[p] EXCEPT !.at = "gather"] = [at |-> "gather", call |-> fuse[p].call]
    BY <2>1
  <2> QED BY <1>1, <2>2 DEF IInv, Shape
<1> DEFINE e == [call |-> fuse[p].call, parts |-> parts, gathered |-> [q \in {p} |-> part]]
<1>6. IsExchange(e) /\ e.call = fuse[p].call /\ DOMAIN e.gathered = {p}
  BY DEF IsExchange
<1>7. /\ n \in Nat /\ Len(exchanges') = n + 1 /\ IsSeq(exchanges') /\ exchanges'[n + 1] = e
      /\ \A k \in 1 .. n : exchanges'[k] = exchanges[k]
  <2> HIDE DEF e
  <2>1. exchanges' = Append(exchanges, e) /\ IsSeq(exchanges)
    BY <1>1 DEF e, IInv, Shape
  <2> QED BY <2>1, AppendFacts, SeqFacts
<1> HIDE DEF e, n
<1>8. \A q \in Ranks : pos[q] = n
  <2>1. SUFFICES ASSUME NEW q \in Ranks PROVE pos[q] = n
    OBVIOUS
  <2>2. CASE q = u
    BY <1>3, <2>2 DEF Working, Leads, n
  <2>3. CASE q # u
    <3>1. Contributes(u, q)
      BY <1>3, <2>3 DEF Working, Others, Follows
    <3> QED BY <1>1, <1>4, <3>1 DEF Contributes, n
  <2> QED BY <2>2, <2>3
<1>9. pos'[p] = n + 1 /\ \A q \in Ranks \ {p} : pos'[q] = n
  BY <1>1, <1>8 DEF IInv, Shape
<1>10. Shape'
  <2>1. \A k \in 1 .. Len(exchanges') : IsExchange(exchanges'[k])
    <3>1. \A k \in 1 .. Len(exchanges') : k \in 1 .. n \/ k = n + 1
      BY <1>7
    <3>2. \A k \in 1 .. n : IsExchange(exchanges[k])
      BY DEF IInv, Shape, n
    <3> QED BY <1>6, <1>7, <3>1, <3>2
  <2>2. pos' \in [Ranks -> Nat]
    BY <1>1 DEF IInv, Shape
  <2> QED BY <1>1, <1>5, <1>7, <2>1, <2>2 DEF IInv, Shape
<1>11. OnlyLoopsMounted'
  BY <1>1, <1>5 DEF IInv, OnlyLoopsMounted
<1>12. PartsOfThose'
  <2>1. SUFFICES ASSUME NEW k \in 1 .. Len(exchanges')
                 PROVE  DOMAIN exchanges'[k].gathered = {q \in Ranks : pos'[q] >= k}
    BY DEF PartsOfThose
  <2>2. CASE k \in 1 .. n
    <3>1. DOMAIN exchanges[k].gathered = {q \in Ranks : pos[q] >= k}
      BY <2>2 DEF IInv, PartsOfThose, n
    <3>2. \A q \in Ranks : pos[q] >= k /\ pos'[q] >= k
      BY <1>7, <1>8, <1>9, <2>2
    <3> QED BY <1>7, <2>2, <3>1, <3>2
  <2>3. CASE k = n + 1
    <3>1. \A q \in Ranks : pos'[q] >= n + 1 <=> q = p
      BY <1>7, <1>9
    <3> QED BY <1>6, <1>7, <2>3, <3>1
  <2> QED BY <1>7, <2>2, <2>3
<1>13. AllMounted'
  BY <1>1, <1>3 DEF AllMounted
<1>14. Leads(u)'
  BY <1>1, <1>3, <1>4, <1>5, <1>6, <1>7, <1>9 DEF Working, Leads
<1>15. ASSUME NEW q \in Others(u) PROVE Follows(u, q)'
  <2>1. Follows(u, q) /\ q \in Ranks /\ q # p
    BY <1>3, <1>4 DEF Working, Others
  <2>2. Awaited(u, q)' /\ fuse'[u].call = fuse[u].call
    BY <1>4, <1>5, <1>7, <1>9, <2>1 DEF Awaited
  <2>3. Contributes(u, q)'
    BY <1>1, <1>4, <1>5, <1>7, <1>9, <2>1, <2>2 DEF Follows, Contributes
  <2>4. \A type : ~(Repeating(u, type)')
    BY <1>4, <1>5 DEF Repeating
  <2> QED BY <1>1, <1>5, <2>1, <2>3, <2>4, FollowsMoved
<1>16. Working(u)' /\ user' = u
  BY <1>1, <1>2, <1>14, <1>15 DEF Working, Others
<1> QED BY <1>10, <1>11, <1>12, <1>13, <1>16 DEF IInv

(* The root has the parts of all: nobody still has to join its exchange.   *)
LEMMA GatherKeeps == ASSUME IInv, NEW p \in Ranks, FuseGather(p) PROVE IInv'
<1>1. /\ fuse[p].at = "gather" /\ Gathered(p) /\ fuse' = [fuse EXCEPT ![p] = At("loop")]
      /\ UNCHANGED <<recv, mounted, fromThread, net, exchanges, pos, user>>
  BY DEF FuseGather, userVars
<1>2. PICK u : u = user
  OBVIOUS
<1>3. AllMounted /\ Working(u) /\ u \in Ranks /\ Len(exchanges) \in Nat
  BY <1>1, <1>2, SequencesThere DEF IInv, Shape, Resting
<1>4. p = u
  BY <1>1, <1>3 DEF Working, Others, Follows
<1>5. /\ DOMAIN fuse' = Ranks /\ \A q \in Ranks \ {p} : fuse'[q] = fuse[q]
      /\ fuse'[p].at = "loop"
  BY <1>1 DEF IInv, Shape, At
<1>6. \A q \in Ranks : pos[q] = Len(exchanges)
  <2>1. pos[p] = Len(exchanges) /\ Len(exchanges) > 0
    BY <1>1, <1>3, <1>4 DEF Working, Leads
  <2>2. DOMAIN exchanges[Len(exchanges)].gathered = {q \in Ranks : pos[q] >= Len(exchanges)}
    BY <1>3, <2>1 DEF IInv, PartsOfThose
  <2>3. \A q \in Ranks : pos[q] >= Len(exchanges)
    BY <1>1, <2>1, <2>2 DEF Gathered
  <2>4. ASSUME NEW q \in Ranks, q # u PROVE pos[q] = Len(exchanges)
    <3>1. Contributes(u, q)
      BY <1>3, <2>4 DEF Working, Others, Follows
    <3> QED BY <1>3, <2>3, <3>1 DEF Contributes
  <2> QED BY <1>4, <2>1, <2>4
<1>7. Shape'
  BY <1>1, <1>5 DEF IInv, Shape
<1>8. OnlyLoopsMounted'
  BY <1>1, <1>5 DEF IInv, OnlyLoopsMounted
<1>9. PartsOfThose'
  BY <1>1, PartsStill DEF IInv
<1>10. AllMounted'
  BY <1>1, <1>3 DEF AllMounted
<1>11. Leads(u)'
  BY <1>1, <1>3, <1>4, <1>5 DEF Working, Leads
<1>12. ASSUME NEW q \in Others(u) PROVE Follows(u, q)'
  <2>1. Follows(u, q) /\ q \in Ranks /\ q # p
    BY <1>3, <1>4 DEF Working, Others
  <2>2. ~Awaited(u, q)
    BY <1>1, <1>4, <1>6, <2>1 DEF Awaited
  <2>3. Contributes(u, q)'
    BY <1>1, <1>6, <2>1, <2>2 DEF Follows, Contributes
  <2>4. \A type : ~(Repeating(u, type)')
    BY <1>4, <1>5 DEF Repeating
  <2> QED BY <1>1, <1>5, <2>1, <2>3, <2>4, FollowsMoved
<1>13. Working(u)' /\ user' = u
  BY <1>1, <1>2, <1>11, <1>12 DEF Working, Others
<1> QED BY <1>7, <1>8, <1>9, <1>10, <1>13 DEF IInv
-----------------------------------------------------------------------------
(* Steps of receiving threads. *)

(* Nothing moves but p's threads, and what u has sent to p. *)
OnlyAt(u, p) ==
    /\ DOMAIN fuse' = Ranks /\ DOMAIN recv' = Ranks
    /\ \A q \in Ranks \ {p} : /\ fuse'[q] = fuse[q] /\ recv'[q] = recv[q]
                              /\ fromThread'[q] = fromThread[q] /\ pos'[q] = pos[q]
    /\ \A q, r \in Ranks : q # u \/ r # p => net'[q][r] = net[q][r]
    /\ Len(exchanges') = Len(exchanges)
    /\ \A k \in 1 .. Len(exchanges) : exchanges'[k].call = exchanges[k].call
    /\ UNCHANGED <<mounted, user>>

LEMMA FollowerKeeps ==
    ASSUME IInv, AllMounted, NEW u \in Ranks, u = user, NEW p \in Others(u), OnlyAt(u, p),
           Shape', PartsOfThose', Follows(u, p)'
    PROVE  IInv'
<1>1. Working(u) /\ p \in Ranks /\ p # u
  BY DEF IInv, Others
<1>2. AllMounted'
  BY DEF AllMounted, OnlyAt, Follows
<1>3. OnlyLoopsMounted'
  BY DEF IInv, OnlyLoopsMounted, OnlyAt, Follows
<1>4. Leads(u)'
  <2>1. Len(exchanges) \in Nat /\ (fuse[u].at = "gather" => Len(exchanges) \in 1 .. Len(exchanges))
    BY <1>1, SequencesThere DEF IInv, Working, Leads
  <2>2. \A q \in Others(u), r \in Ranks : net'[q][r] = <<>>
    BY <1>1 DEF Working, Leads, Others, OnlyAt
  <2> QED BY <1>1, <2>1, <2>2 DEF Working, Leads, OnlyAt
<1>5. ASSUME NEW q \in Others(u), q # p PROVE Follows(u, q)'
  <2>1. Follows(u, q) /\ q \in Ranks
    BY <1>1 DEF Working, Others
  <2>2. /\ net'[u][q] = net[u][q] /\ fuse'[q] = fuse[q] /\ recv'[q] = recv[q]
        /\ fromThread'[q] = fromThread[q] /\ pos'[q] = pos[q]
        /\ Len(exchanges') = Len(exchanges) /\ fuse'[u] = fuse[u]
    BY <1>1, <1>5, <2>1 DEF OnlyAt
  <2> QED BY <2>1, <2>2, FollowsStill
<1>6. Working(u)'
  BY <1>4, <1>5 DEF Working, Others
<1>7. user' = u
  BY DEF OnlyAt
<1> QED BY <1>2, <1>3, <1>6, <1>7 DEF IInv

LEMMA BusyFollows ==
    ASSUME IInv, NEW p \in Ranks, recv[p].at \in {"body", "syscall", "close", "scatter", "gather"}
    PROVE  AllMounted /\ user \in Ranks /\ p \in Others(user) /\ Follows(user, p)
<1>1. AllMounted
  BY DEF IInv, Resting
<1>2. PICK u : u = user
  OBVIOUS
<1>3. Working(u) /\ u \in Ranks
  BY <1>1, <1>2 DEF IInv, Shape
<1>4. p # u
  BY <1>3 DEF Working, Leads
<1> QED BY <1>1, <1>2, <1>3, <1>4 DEF Working, Others

(* The first message goes; the thread waits for a body, or no longer does. *)
LEMMA TailAlternates ==
    ASSUME Shape, NEW u \in Ranks, NEW p \in Ranks, net[u][p] # <<>>, Receive(u, p), Alternates(u, p),
           IF recv[p].at = "body" THEN recv'[p].at # "body"
           ELSE recv'[p] = [at |-> "body", type |-> net[u][p][1].type, source |-> u]
    PROVE  Alternates(u, p)'
<1> DEFINE s == net[u][p]
           t == net'[u][p]
           n == Len(s)
<1>1. /\ n \in Nat /\ n > 0 /\ Len(t) = n - 1 /\ (t # <<>> <=> n > 1)
      /\ \A i \in 1 .. n - 1 : t[i] = s[i + 1]
  BY ReceiveFacts
<1>2. /\ s[n].part = "body"
      /\ IF recv[p].at = "body" THEN s[1].part = "body" ELSE s[1].part = "header"
      /\ \A i \in 1 .. n : /\ s[i].part \in {"header", "body"}
                           /\ s[i].part = "header" => /\ s[i] = Header(s[i].type)
                                                      /\ s[i].type # "TERMINATE"
      /\ \A i \in 1 .. n - 1 : IF s[i].part = "header"
                               THEN s[i + 1].part = "body" /\ s[i + 1].content.type = s[i].type
                               ELSE s[i + 1].part = "header"
  BY DEF Alternates
<1>3. Alternates(u, p)' <=>
         /\ t # <<>> => /\ IF recv'[p].at = "body" THEN t[1].part = "body" ELSE t[1].part = "header"
                        /\ t[Len(t)].part = "body"
         /\ recv'[p].at = "body" => t # <<>> /\ t[1].content.type = recv'[p].type /\ recv'[p].source = u
         /\ \A i \in 1 .. Len(t) : /\ t[i].part \in {"header", "body"}
                                   /\ t[i].part = "header" => /\ t[i] = Header(t[i].type)
                                                              /\ t[i].type # "TERMINATE"
         /\ \A i \in 1 .. Len(t) - 1 : IF t[i].part = "header"
                                       THEN t[i + 1].part = "body" /\ t[i + 1].content.type = t[i].type
                                       ELSE t[i + 1].part = "header"
  BY DEF Alternates
<1> HIDE DEF s, t, n
<1>4. n > 1 => t[1] = s[2] /\ 1 \in 1 .. n - 1 /\ t[Len(t)] = s[n]
  <2>1. SUFFICES ASSUME n > 1 PROVE t[1] = s[2] /\ 1 \in 1 .. n - 1 /\ t[Len(t)] = s[n]
    OBVIOUS
  <2>2. 1 \in 1 .. n - 1 /\ n - 1 \in 1 .. n - 1 /\ (n - 1) + 1 = n /\ 1 + 1 = 2
    BY <1>1, <2>1
  <2> QED BY <1>1, <2>2
<1>5. n > 1 => IF recv[p].at = "body" THEN s[2].part = "header"
               ELSE s[2].part = "body" /\ s[2].content.type = s[1].type
  <2>1. SUFFICES ASSUME n > 1
                 PROVE  IF recv[p].at = "body" THEN s[2].part = "header"
                        ELSE s[2].part = "body" /\ s[2].content.type = s[1].type
    OBVIOUS
  <2>2. 1 \in 1 .. n - 1 /\ 1 + 1 = 2
    BY <1>1, <2>1
  <2> QED BY <1>2, <2>2
<1>6. recv[p].at # "body" => n > 1
  BY <1>1, <1>2
<1>7. \A i \in 1 .. Len(t) : i + 1 \in 1 .. n /\ t[i] = s[i + 1]
  BY <1>1
<1>8. \A i \in 1 .. Len(t) - 1 : i \in 1 .. Len(t) /\ i + 1 \in 1 .. Len(t) /\ i + 1 \in 1 .. n - 1
  BY <1>1
<1>9. t # <<>> => /\ IF recv'[p].at = "body" THEN t[1].part = "body" ELSE t[1].part = "header"
                  /\ t[Len(t)].part = "body"
  BY <1>1, <1>2, <1>4, <1>5
<1>10. recv'[p].at = "body" => t # <<>> /\ t[1].content.type = recv'[p].type /\ recv'[p].source = u
  <2>1. SUFFICES ASSUME recv'[p].at = "body"
                 PROVE  t # <<>> /\ t[1].content.type = recv'[p].type /\ recv'[p].source = u
    OBVIOUS
  <2>2. recv[p].at # "body" /\ recv'[p] = [at |-> "body", type |-> s[1].type, source |-> u]
    BY <2>1 DEF s
  <2> QED BY <1>1, <1>4, <1>5, <1>6, <2>2
<1>11. \A i \in 1 .. Len(t) : /\ t[i].part \in {"header", "body"}
                              /\ t[i].part = "header" => /\ t[i] = Header(t[i].type)
                                                         /\ t[i].type # "TERMINATE"
  BY <1>2, <1>7
<1>12. ASSUME NEW i \in 1 .. Len(t) - 1
       PROVE  IF t[i].part = "header" THEN t[i + 1].part = "body" /\ t[i + 1].content.type = t[i].type
              ELSE t[i + 1].part = "header"
  <2>1. t[i] = s[i + 1] /\ t[i + 1] = s[(i + 1) + 1] /\ i + 1 \in 1 .. n - 1
    BY <1>7, <1>8
  <2> QED BY <1>2, <2>1
<1> QED BY <1>3, <1>9, <1>10, <1>11, <1>12

(* The headers that are left, and the bodies. *)
LEMMA TailHeaders ==
    ASSUME Shape, NEW u \in Ranks, NEW p \in Ranks, net[u][p] # <<>>, Receive(u, p), Repeats(u, p)
    PROVE  /\ \A type : HeaderIn(u, p, type)' => HeaderIn(u, p, type)
           /\ \A type \in Announced \ {"CREATE_FILE"} :
                 /\ net[u][p][1] = Header(type) => ~(HeaderIn(u, p, type)')
                 /\ \A i, j \in 1 .. Len(net'[u][p]) :
                       net'[u][p][i] = Header(type) /\ net'[u][p][j] = Header(type) => i = j
           /\ \A type : net[u][p][1] = Header(type) => HeaderIn(u, p, type)
<1>1. /\ Len(net[u][p]) > 0 /\ Len(net[u][p]) \in Nat /\ Len(net'[u][p]) = Len(net[u][p]) - 1
      /\ \A i \in 1 .. Len(net[u][p]) - 1 : net'[u][p][i] = net[u][p][i + 1]
  BY ReceiveFacts
<1>2. \A i \in 1 .. Len(net'[u][p]) : i \in Nat /\ i > 0 /\ i + 1 \in 1 .. Len(net[u][p])
                                      /\ net'[u][p][i] = net[u][p][i + 1]
  BY <1>1
<1>3. 1 \in 1 .. Len(net[u][p])
  BY <1>1
<1>4. \A type : HeaderIn(u, p, type)' => HeaderIn(u, p, type)
  BY <1>2 DEF HeaderIn
<1>5. ASSUME NEW type \in Announced \ {"CREATE_FILE"}, net[u][p][1] = Header(type)
      PROVE  ~(HeaderIn(u, p, type)')
  <2>1. \A i, j \in 1 .. Len(net[u][p]) : net[u][p][i] = Header(type) /\ net[u][p][j] = Header(type) => i = j
    BY DEF Repeats
  <2>2. ASSUME NEW i \in 1 .. Len(net'[u][p]), net'[u][p][i] = Header(type) PROVE FALSE
    <3>1. i + 1 = 1
      BY <1>2, <1>3, <1>5, <2>1, <2>2
    <3> QED BY <1>2, <3>1
  <2> QED BY <2>2 DEF HeaderIn
<1>6. ASSUME NEW type \in Announced \ {"CREATE_FILE"},
             NEW i \in 1 .. Len(net'[u][p]), NEW j \in 1 .. Len(net'[u][p]),
             net'[u][p][i] = Header(type), net'[u][p][j] = Header(type)
      PROVE  i = j
  <2>1. \A k, l \in 1 .. Len(net[u][p]) : net[u][p][k] = Header(type) /\ net[u][p][l] = Header(type) => k = l
    BY DEF Repeats
  <2>2. i + 1 = j + 1
    BY <1>2, <1>6, <2>1
  <2> QED BY <1>2, <2>2
<1>7. \A type : net[u][p][1] = Header(type) => HeaderIn(u, p, type)
  BY <1>3 DEF HeaderIn
<1> QED BY <1>4, <1>5, <1>6, <1>7

LEMMA TailContributes ==
    ASSUME Shape, NEW u \in Ranks, NEW p \in Ranks, net[u][p] # <<>>, Receive(u, p), Contributes(u, p),
           recv'[p].at # "scatter", fuse'[u] = fuse[u], UNCHANGED <<exchanges, pos>>
    PROVE  Contributes(u, p)'
<1>1. /\ Len(net[u][p]) > 0 /\ Len(net[u][p]) \in Nat /\ Len(net'[u][p]) = Len(net[u][p]) - 1
      /\ \A i \in 1 .. Len(net[u][p]) - 1 : net'[u][p][i] = net[u][p][i + 1]
  BY ReceiveFacts
<1>2. \A i \in 1 .. Len(net'[u][p]) : i \in Nat /\ i + 1 \in 1 .. Len(net[u][p])
                                      /\ net'[u][p][i] = net[u][p][i + 1]
  BY <1>1
<1>3. Awaited(u, p)' <=> Awaited(u, p)
  BY DEF Awaited
<1>4. ASSUME NEW i \in 1 .. Len(net'[u][p]), net'[u][p][i].part = "body", Joined(net'[u][p][i].content)
      PROVE  /\ i = Len(net'[u][p]) /\ Awaited(u, p)' /\ net'[u][p][i].content = fuse'[u].call
  <2>1. /\ i + 1 = Len(net[u][p]) /\ Awaited(u, p) /\ net[u][p][i + 1].content = fuse[u].call
    BY <1>2, <1>4 DEF Contributes
  <2> QED BY <1>1, <1>2, <1>3, <2>1
<1> QED BY <1>4 DEF Contributes

(* The header of a peer's own request is ignored. *)
LEMMA OwnHeaderKeeps ==
    ASSUME IInv, AllMounted, NEW u \in Ranks, u = user, net[u][u] # <<>>, Receive(u, u),
           UNCHANGED <<fuse, recv, fromThread, mounted, exchanges, pos, user>>
    PROVE  IInv'
<1>1. Working(u)
  BY DEF IInv
<1>2. /\ DOMAIN net' = Ranks /\ \A r \in Ranks : DOMAIN net'[r] = Ranks
      /\ \A r, s \in Ranks : IsSeq(net'[r][s]) /\ (r # u \/ s # u => net'[r][s] = net[r][s])
      /\ Len(net[u][u]) \in Nat /\ Len(net'[u][u]) = Len(net[u][u]) - 1
      /\ \A i \in 1 .. Len(net[u][u]) - 1 : net'[u][u][i] = net[u][u][i + 1]
  BY ReceiveFacts DEF IInv
<1>3. Shape'
  BY <1>2, RestingShape DEF IInv, Shape, RequestsStill
<1>4. OnlyLoopsMounted' /\ AllMounted'
  BY DEF IInv, OnlyLoopsMounted, AllMounted
<1>5. PartsOfThose'
  BY PartsStill DEF IInv
<1>6. Leads(u)'
  <2>1. \A i \in 1 .. Len(net'[u][u]) : i + 1 \in 1 .. Len(net[u][u]) /\ net'[u][u][i] = net[u][u][i + 1]
    BY <1>2
  <2>2. \A i \in 1 .. Len(net'[u][u]) : net'[u][u][i].part = "header" /\ net'[u][u][i].type # "TERMINATE"
    BY <1>1, <2>1 DEF Working, Leads
  <2>3. \A q \in Others(u), r \in Ranks : net'[q][r] = <<>>
    BY <1>1, <1>2 DEF Working, Leads, Others
  <2> QED BY <1>1, <2>2, <2>3 DEF Working, Leads
<1>7. ASSUME NEW q \in Others(u) PROVE Follows(u, q)'
  <2>1. Follows(u, q) /\ net'[u][q] = net[u][q]
    BY <1>1, <1>2 DEF Working, Others
  <2> QED BY <2>1, FollowsStill
<1>8. Working(u)' /\ user' = u
  BY <1>6, <1>7 DEF Working, Others
<1> QED BY <1>3, <1>4, <1>5, <1>8 DEF IInv

(* After a header a thread waits for the body, with the flag up. *)
LEMMA HeaderRepeats ==
    ASSUME Shape, NEW u \in Ranks, NEW p \in Others(u), net[u][p] # <<>>, Receive(u, p), Repeats(u, p),
           NEW type, net[u][p][1] = Header(type), recv[p].at = "request",
           recv'[p] = [at |-> "body", type |-> type, source |-> u],
           fromThread' = IF type \in Announced THEN [fromThread EXCEPT ![p][type] = TRUE] ELSE fromThread,
           fuse' = fuse
    PROVE  Repeats(u, p)'
<1>1. p \in Ranks
  BY DEF Others
<1>2. /\ \A other : HeaderIn(u, p, other)' => HeaderIn(u, p, other)
      /\ \A other \in Announced \ {"CREATE_FILE"} :
            /\ net[u][p][1] = Header(other) => ~(HeaderIn(u, p, other)')
            /\ \A i, j \in 1 .. Len(net'[u][p]) :
                  net'[u][p][i] = Header(other) /\ net'[u][p][j] = Header(other) => i = j
      /\ HeaderIn(u, p, type)
  BY <1>1, TailHeaders
<1>3. \A other : /\ Receiving(p, other)' <=> other = type
                 /\ ~Receiving(p, other)
                 /\ Repeating(p, other)' <=> Repeating(p, other)
                 /\ Repeating(u, other)' <=> Repeating(u, other)
  BY DEF Receiving, Repeating
<1>4. fromThread \in [Ranks -> [Announced -> BOOLEAN]]
  BY DEF Shape
<1>5. /\ type \in Announced => fromThread'[p][type]
      /\ \A other \in Announced : fromThread[p][other] => fromThread'[p][other]
  BY <1>1, <1>4
<1>6. \A other \in Announced : Receiving(p, other)' => fromThread'[p][other]
  BY <1>3, <1>5
<1>7. recv'[p].at # "syscall" /\ (fuse'[p].at = "announce" => fuse'[p].op.type \in Announced /\ fromThread'[p][fuse'[p].op.type])
  BY <1>5 DEF Repeats
<1>8. ~(Repeating(p, "CREATE_FILE")')
  BY <1>3 DEF Repeats
<1>9. ASSUME NEW other \in Announced \ {"CREATE_FILE"}
      PROVE  /\ Repeating(p, other)' => ~(Receiving(p, other)') /\ ~(HeaderIn(u, p, other)')
             /\ Receiving(p, other)' => ~(HeaderIn(u, p, other)')
             /\ Repeating(u, other)' => ~(Repeating(p, other)') /\ ~(Receiving(p, other)') /\ ~(HeaderIn(u, p, other)')
  BY <1>2, <1>3 DEF Repeats
<1> QED BY <1>2, <1>6, <1>7, <1>8, <1>9 DEF Repeats

LEMMA RecvHeaderKeeps ==
    ASSUME IInv, NEW q \in Ranks, NEW p \in Ranks, RecvHeader(q, p)
    PROVE  IInv'
<1> DEFINE type == net[q][p][1].type
<1>1. Head(net[q][p]) = net[q][p][1] /\ 1 \in 1 .. Len(net[q][p])
  BY TailFacts DEF RecvHeader, IInv, Shape
<1>2. /\ recv[p] = At("request") /\ net[q][p] # <<>> /\ net[q][p][1].part = "header" /\ type # "TERMINATE"
      /\ Receive(q, p)
      /\ IF q = p THEN recv' = recv /\ fromThread' = fromThread
         ELSE /\ recv' = [recv EXCEPT ![p] = [at |-> "body", type |-> type, source |-> q]]
              /\ fromThread' = IF type \in Announced
                               THEN [fromThread EXCEPT ![p][type] = TRUE] ELSE fromThread
      /\ UNCHANGED <<fuse, mounted, exchanges, pos, user>>
  BY <1>1 DEF RecvHeader, dataVars, userVars
<1>3. AllMounted
  <2>1. CASE ~AllMounted
    <3>1. net[q][p][1] = Header("TERMINATE")
      BY <1>1, <2>1 DEF IInv, Resting
    <3> QED BY <1>2, <3>1, MessageParts
  <2> QED BY <2>1
<1>4. PICK u : u = user
  OBVIOUS
<1>5. q = u /\ u \in Ranks /\ Working(u)
  BY <1>2, <1>3, <1>4, NoTermination DEF IInv
<1>6. CASE p = u
  BY <1>2, <1>3, <1>4, <1>5, <1>6, OwnHeaderKeeps
<1>7. CASE p # u
  <2>1. Follows(u, p) /\ p \in Others(u) /\ recv[p].at = "request"
    BY <1>2, <1>5, <1>7 DEF Working, Others, At
  <2>2. net[u][p][1] = Header(type)
    BY <1>1, <1>2, <1>5, <2>1 DEF Follows, Alternates
  <2> HIDE DEF type
  <2>3. /\ recv'[p] = [at |-> "body", type |-> type, source |-> u] /\ DOMAIN recv' = Ranks
        /\ \A r \in Ranks \ {p} : recv'[r] = recv[r] /\ fromThread'[r] = fromThread[r]
        /\ fromThread' \in [Ranks -> [Announced -> BOOLEAN]]
    <3>1. DOMAIN recv = Ranks /\ fromThread \in [Ranks -> [Announced -> BOOLEAN]]
      BY DEF IInv, Shape
    <3>2. /\ recv' = [recv EXCEPT ![p] = [at |-> "body", type |-> type, source |-> u]]
          /\ fromThread' = IF type \in Announced
                           THEN [fromThread EXCEPT ![p] = [fromThread[p] EXCEPT ![type] = TRUE]] ELSE fromThread
      BY <1>2, <1>5, <1>7
    <3>3. CASE type \in Announced
      <4>1. [fromThread[p] EXCEPT ![type] = TRUE] \in [Announced -> BOOLEAN]
        BY <3>1, <3>3
      <4>2. /\ \A r \in Ranks \ {p} : fromThread'[r] = fromThread[r]
            /\ fromThread' \in [Ranks -> [Announced -> BOOLEAN]]
        BY <3>1, <3>2, <3>3, <4>1
      <4> QED BY <3>1, <3>2, <4>2
    <3>4. CASE type \notin Announced
      BY <3>1, <3>2, <3>4
    <3> QED BY <3>3, <3>4
  <2>4. /\ DOMAIN net' = Ranks /\ \A r \in Ranks : DOMAIN net'[r] = Ranks
        /\ \A r, s \in Ranks : IsSeq(net'[r][s]) /\ (r # u \/ s # p => net'[r][s] = net[r][s])
    BY <1>2, <1>5, ReceiveFacts DEF IInv
  <2>5. Shape'
    BY <1>2, <2>3, <2>4 DEF IInv, Shape
  <2>6. PartsOfThose'
    BY <1>2, PartsStill DEF IInv
  <2>7. OnlyAt(u, p)
    BY <1>2, <2>3, <2>4 DEF OnlyAt, IInv, Shape
  <2>8. Alternates(u, p)'
    <3>1. recv'[p] = [at |-> "body", type |-> net[u][p][1].type, source |-> u]
      BY <2>2, <2>3, MessageParts
    <3> QED BY <1>2, <1>5, <2>1, <3>1, TailAlternates DEF Follows, IInv
  <2>9. Repeats(u, p)'
    BY <1>2, <1>5, <1>7, <2>1, <2>2, <2>3, HeaderRepeats DEF Follows, IInv
  <2>10. Contributes(u, p)'
    BY <1>2, <1>5, <2>1, <2>3, TailContributes DEF Follows, IInv
  <2>11. Follows(u, p)'
    BY <1>2, <2>1, <2>3, <2>8, <2>9, <2>10 DEF Follows
  <2> QED BY <1>3, <1>4, <1>5, <2>1, <2>5, <2>6, <2>7, <2>11, FollowerKeeps
<1> QED BY <1>6, <1>7

LEMMA RecvBodyKeeps ==
    ASSUME IInv, NEW q \in Ranks, NEW p \in Ranks, RecvBody(q, p)
    PROVE  IInv'
<1> DEFINE content == net[q][p][1].content
<1>1. Head(net[q][p]) = net[q][p][1]
  BY TailFacts DEF RecvBody, IInv, Shape
<1>2. /\ recv[p].at = "body" /\ net[q][p] # <<>> /\ net[q][p][1].part = "body"
      /\ content.type = recv[p].type
      /\ Receive(q, p)
      /\ recv' = [recv EXCEPT ![p] =
            IF content.type \in Announced THEN [at |-> "syscall", type |-> content.type, op |-> content]
            ELSE IF content.type = "READ" /\ content.fileSize = 0 THEN At("request")
            ELSE [at |-> "scatter", call |-> content]]
      /\ UNCHANGED <<fuse, mounted, fromThread, exchanges, pos, user>>
  BY <1>1 DEF RecvBody, dataVars, userVars
<1> HIDE DEF content
<1>3. PICK u : u = user
  OBVIOUS
<1>4. AllMounted /\ u \in Ranks /\ p \in Others(u) /\ Follows(u, p)
  BY <1>2, <1>3, BusyFollows
<1>5. q = u
  BY <1>2, <1>3, <1>4, NoTermination
<1>6. /\ DOMAIN recv' = Ranks /\ \A r \in Ranks \ {p} : recv'[r] = recv[r]
      /\ recv'[p] = IF content.type \in Announced THEN [at |-> "syscall", type |-> content.type, op |-> content]
                    ELSE IF content.type = "READ" /\ content.fileSize = 0 THEN At("request")
                    ELSE [at |-> "scatter", call |-> content]
  BY <1>2 DEF IInv, Shape
<1>7. /\ recv'[p].at \in {"request", "syscall", "scatter"}
      /\ recv'[p].at = "syscall" => /\ content.type \in Announced
                                    /\ recv'[p].type = recv[p].type /\ recv'[p].op = content
      /\ recv'[p].at = "scatter" => Joined(content) /\ recv'[p].call = content
  BY <1>2, <1>6 DEF At, Joined
<1>8. /\ DOMAIN net' = Ranks /\ \A r \in Ranks : DOMAIN net'[r] = Ranks
      /\ \A r, s \in Ranks : IsSeq(net'[r][s]) /\ (r # u \/ s # p => net'[r][s] = net[r][s])
      /\ Len(net[u][p]) > 0 /\ Len(net[u][p]) \in Nat /\ Len(net'[u][p]) = Len(net[u][p]) - 1
  BY <1>2, <1>5, ReceiveFacts DEF IInv
<1>9. Shape'
  BY <1>2, <1>6, <1>8 DEF IInv, Shape
<1>10. PartsOfThose'
  BY <1>2, PartsStill DEF IInv
<1>11. OnlyAt(u, p)
  BY <1>2, <1>6, <1>8 DEF OnlyAt, IInv, Shape
<1>12. Alternates(u, p)'
  BY <1>2, <1>4, <1>5, <1>7, TailAlternates DEF Follows, IInv
<1>13. Repeats(u, p)'
  <2>1. Repeats(u, p)
    BY <1>4 DEF Follows
  <2>2. /\ \A type : HeaderIn(u, p, type)' => HeaderIn(u, p, type)
        /\ \A type \in Announced \ {"CREATE_FILE"} : \A i, j \in 1 .. Len(net'[u][p]) :
              net'[u][p][i] = Header(type) /\ net'[u][p][j] = Header(type) => i = j
    BY <1>2, <1>4, <1>5, <2>1, TailHeaders DEF IInv
  <2>3. \A type : /\ Receiving(p, type)' => Receiving(p, type)
                  /\ Repeating(p, type)' <=> Repeating(p, type)
                  /\ Repeating(u, type)' <=> Repeating(u, type)
    BY <1>2, <1>7 DEF Receiving, Repeating
  <2>4. ~Repeating(p, "CREATE_FILE")
    BY <1>2, <2>1 DEF Repeats
  <2>5. recv'[p].at = "syscall" => recv'[p].type \in Announced /\ recv'[p].op.type = recv'[p].type
    BY <1>2, <1>7
  <2> QED BY <1>2, <2>1, <2>2, <2>3, <2>4, <2>5 DEF Repeats
<1>14. Contributes(u, p)'
  <2>1. Contributes(u, p)
    BY <1>4 DEF Follows
  <2>2. CASE recv'[p].at # "scatter"
    BY <1>2, <1>4, <1>5, <2>1, <2>2, TailContributes DEF IInv
  <2>3. CASE recv'[p].at = "scatter"
    <3>1. 1 \in 1 .. Len(net[u][p])
      BY <1>8
    <3>2. Joined(content) /\ recv'[p].call = content
      BY <1>7, <2>3
    <3>3. Len(net[u][p]) = 1 /\ Awaited(u, p) /\ content = fuse[u].call
      BY <1>2, <1>5, <2>1, <3>1, <3>2 DEF Contributes, content
    <3>4. \A i \in 1 .. Len(net'[u][p]) : FALSE
      BY <1>8, <3>3
    <3>5. Awaited(u, p)'
      BY <1>2, <3>3 DEF Awaited
    <3> QED BY <1>2, <2>1, <3>2, <3>3, <3>4, <3>5 DEF Contributes
  <2> QED BY <2>2, <2>3
<1>15. Follows(u, p)'
  BY <1>2, <1>4, <1>7, <1>12, <1>13, <1>14 DEF Follows
<1> QED BY <1>3, <1>4, <1>9, <1>10, <1>11, <1>15, FollowerKeeps

(* A receiving thread that goes on with a request it has received.         *)
LEMMA GoesOnKeeps ==
    ASSUME IInv, NEW p \in Ranks, recv[p].at \in {"syscall", "close", "gather"},
           NEW place, recv' = [recv EXCEPT ![p] = place], place.at \in {"request", "close"},
           \/ fuse' = fuse
           \/ /\ recv[p].at = "syscall" /\ recv[p].op.type = "CREATE_FILE" => place.at = "close"
              /\ recv[p].at = "syscall"
              /\ \E o : /\ fuse' = [fuse EXCEPT ![p] = [at |-> "announce", op |-> o]]
                        /\ o.type = recv[p].op.type,
           recv[p].at # "gather" => fuse[p].at = "loop",
           UNCHANGED <<mounted, fromThread, net, exchanges, pos, user>>
    PROVE  IInv'
<1>1. PICK u : u = user
  OBVIOUS
<1>2. AllMounted /\ u \in Ranks /\ p \in Others(u) /\ Follows(u, p)
  BY <1>1, BusyFollows
<1>3. DOMAIN recv' = Ranks /\ recv'[p] = place /\ \A r \in Ranks \ {p} : recv'[r] = recv[r]
  BY DEF IInv, Shape
<1>4. DOMAIN fuse' = Ranks /\ \A r \in Ranks \ {p} : fuse'[r] = fuse[r]
  BY DEF IInv, Shape
<1>5. \/ fuse'[p] = fuse[p]
      \/ /\ fuse'[p].at = "announce" /\ fuse'[p].op.type = recv[p].op.type /\ recv[p].at = "syscall"
         /\ fuse'[p].op.type = "CREATE_FILE" => place.at = "close"
  BY DEF IInv, Shape
<1>6. Shape'
  BY <1>3, <1>4 DEF IInv, Shape
<1>7. PartsOfThose'
  BY PartsStill DEF IInv
<1>8. OnlyAt(u, p)
  BY <1>2, <1>3, <1>4 DEF OnlyAt, Others, IInv, Shape
<1>9. u # p /\ fuse'[u] = fuse[u]
  BY <1>2, <1>4 DEF Others
<1>10. Alternates(u, p)'
  BY <1>2, <1>3 DEF Follows, Alternates
<1>11. Contributes(u, p)'
  BY <1>2, <1>3, <1>9 DEF Follows, Contributes, Awaited
<1>12. Repeats(u, p)'
  <2>1. Repeats(u, p)
    BY <1>2 DEF Follows
  <2>2. \A type : /\ ~(Receiving(p, type)')
                  /\ HeaderIn(u, p, type)' <=> HeaderIn(u, p, type)
                  /\ Repeating(u, type)' <=> Repeating(u, type)
    BY <1>3, <1>9 DEF Receiving, HeaderIn, Repeating
  <2>3. CASE fuse'[p] = fuse[p]
    <3>1. \A type : Repeating(p, type)' <=> Repeating(p, type)
      BY <2>3 DEF Repeating
    <3>2. ~Repeating(p, "CREATE_FILE")
      BY <2>1 DEF Repeats, Repeating
    <3> QED BY <1>3, <2>1, <2>2, <2>3, <3>1, <3>2 DEF Repeats
  <2>4. CASE fuse'[p] # fuse[p]
    <3> DEFINE T == fuse'[p].op.type
    <3>1. /\ fuse'[p].at = "announce" /\ T = recv[p].type /\ T \in Announced /\ recv[p].at = "syscall"
          /\ T = "CREATE_FILE" => place.at = "close"
      BY <1>5, <2>1, <2>4 DEF Repeats
    <3> HIDE DEF T
    <3>2. Receiving(p, T) /\ fromThread'[p][T] /\ \A type : Repeating(p, type)' <=> type = T
      BY <2>1, <3>1 DEF Receiving, Repeats, Repeating, T
    <3>3. T # "CREATE_FILE" => ~HeaderIn(u, p, T) /\ ~Repeating(u, T)
      BY <2>1, <3>1, <3>2 DEF Repeats
    <3>4. Repeating(p, "CREATE_FILE")' => recv'[p].at = "close"
      BY <1>3, <3>1, <3>2
    <3>5. fuse'[p].at = "announce" => fuse'[p].op.type \in Announced /\ fromThread'[p][fuse'[p].op.type]
      BY <3>1, <3>2 DEF T
    <3> QED BY <1>3, <2>1, <2>2, <3>2, <3>3, <3>4, <3>5 DEF Repeats
  <2> QED BY <2>3, <2>4
<1>13. Follows(u, p)'
  BY <1>2, <1>3, <1>5, <1>10, <1>11, <1>12 DEF Follows
<1> QED BY <1>1, <1>2, <1>6, <1>7, <1>8, <1>13, FollowerKeeps

LEMMA ReplayKeeps == ASSUME IInv, NEW p \in Ranks, Replay(p) PROVE IInv'
<1> DEFINE o == recv[p].op
<1>1. recv[p].at = "syscall"
  BY DEF Replay
<1>2. AllMounted /\ Follows(user, p)
  BY <1>1, BusyFollows
<1>3. mounted[p]
  BY <1>2 DEF AllMounted
<1>4. /\ fuse[p] = At("loop")
      /\ \/ fuse' = fuse
         \/ fuse' = [fuse EXCEPT ![p] = [at |-> "announce", op |-> Announcement(tree[p], o)]]
      /\ recv' = [recv EXCEPT ![p] = IF o.type = "CREATE_FILE" THEN [at |-> "close", type |-> "CREATE_FILE"]
                                     ELSE At("request")]
      /\ UNCHANGED <<mounted, fromThread, net, exchanges, pos, user>>
  BY <1>3 DEF Replay, dataVars, userVars
<1>5. Announcement(tree[p], o).type = o.type
  BY DEF Announcement
<1>6. PICK place : /\ recv' = [recv EXCEPT ![p] = place]
                   /\ place = IF o.type = "CREATE_FILE" THEN [at |-> "close", type |-> "CREATE_FILE"] ELSE At("request")
  BY <1>4
<1>7. place.at \in {"request", "close"} /\ (o.type = "CREATE_FILE" => place.at = "close")
  BY <1>6 DEF At
<1>8. fuse[p].at = "loop"
  BY <1>4 DEF At
<1> QED BY <1>1, <1>4, <1>5, <1>6, <1>7, <1>8, GoesOnKeeps

LEMMA ReplayCloseKeeps == ASSUME IInv, NEW p \in Ranks, ReplayClose(p) PROVE IInv'
<1>1. recv[p].at = "close" /\ recv' = [recv EXCEPT ![p] = At("request")]
      /\ UNCHANGED <<fuse, mounted, fromThread, net, exchanges, pos, user>>
  BY DEF ReplayClose, dataVars, userVars
<1>2. AllMounted
  BY <1>1, BusyFollows
<1>3. fuse[p].at = "loop" /\ At("request").at = "request"
  BY <1>2 DEF ReplayClose, AllMounted, At
<1> QED BY <1>1, <1>3, GoesOnKeeps

LEMMA RecvGatherKeeps == ASSUME IInv, NEW p \in Ranks, RecvGather(p) PROVE IInv'
<1>1. recv[p].at = "gather" /\ recv' = [recv EXCEPT ![p] = At("request")]
      /\ UNCHANGED <<fuse, mounted, fromThread, net, exchanges, pos, user>>
  BY DEF RecvGather, userVars
<1>2. At("request").at = "request"
  BY DEF At
<1> QED BY <1>1, <1>2, GoesOnKeeps

Replaced(s, i, e, t) == t = [s EXCEPT ![i] = e]

LEMMA ExceptFacts ==
    ASSUME NEW s, IsSeq(s), NEW i \in 1 .. Len(s), NEW e, NEW t, Replaced(s, i, e, t)
    PROVE  /\ IsSeq(t) /\ Len(t) = Len(s) /\ t[i] = e
           /\ \A k \in 1 .. Len(s) : k # i => t[k] = s[k]
<1>1. PICK S : s \in Seq(S)
  BY DEF IsSeq
<1>2. s \in [1 .. Len(s) -> S] /\ Len(s) \in Nat
  BY <1>1
<1>3. t \in [1 .. Len(s) -> S \cup {e}] /\ t[i] = e /\ \A k \in 1 .. Len(s) : k # i => t[k] = s[k]
  BY <1>2 DEF Replaced
<1>4. t \in Seq(S \cup {e})
  BY <1>2, <1>3, IsASeq
<1>5. IsSeq(t)
  BY <1>4 DEF IsSeq
<1>6. Len(t) = Len(s)
  BY <1>2, <1>3, <1>4, LenProperties
<1> QED BY <1>3, <1>5, <1>6

(* The last but the root to take part in an exchange, or not the last.     *)
LEMMA RecvScatterKeeps == ASSUME IInv, NEW p \in Ranks, RecvScatter(p) PROVE IInv'
<1> DEFINE n == Len(exchanges)
           c == recv[p].call
           part == Contribution(p, c, ScatterPart(exchanges[pos[p] + 1].parts, p))
           old == exchanges[pos[p] + 1].gathered
           new == [q \in DOMAIN old \cup {p} |-> IF q = p THEN part ELSE old[q]]
           e == [exchanges[pos[p] + 1] EXCEPT !.gathered = new]
<1>1. /\ recv[p].at = "scatter" /\ pos[p] < n
      /\ exchanges' = [exchanges EXCEPT ![pos[p] + 1] = e]
      /\ pos' = [pos EXCEPT ![p] = pos[p] + 1]
      /\ recv' = [recv EXCEPT ![p] = IF c.type = "WRITE" THEN [at |-> "gather", call |-> c] ELSE At("request")]
      /\ UNCHANGED <<fuse, mounted, fromThread, net, user>>
  BY DEF RecvScatter, Joins, userVars
<1>2. PICK u : u = user
  OBVIOUS
<1>3. AllMounted /\ u \in Ranks /\ p \in Others(u) /\ Follows(u, p) /\ n \in Nat
  BY <1>1, <1>2, BusyFollows, SequencesThere DEF IInv
<1>4. /\ fuse[u].at = "gather" /\ pos[p] = n - 1 /\ pos[p] + 1 = n /\ n \in 1 .. n
  <2>1. pos[p] \in Nat /\ pos[p] # n
    BY <1>1, <1>3 DEF IInv, Shape
  <2>2. fuse[u].at = "gather" /\ pos[p] = n - 1
    BY <1>3, <2>1 DEF Follows, Contributes
  <2> QED BY <1>3, <2>1, <2>2
<1>5. /\ IsExchange(e) /\ e.call = exchanges[n].call /\ DOMAIN e.gathered = DOMAIN exchanges[n].gathered \cup {p}
  <2>1. exchanges[n] = [call |-> exchanges[n].call, parts |-> exchanges[n].parts, gathered |-> exchanges[n].gathered]
    BY <1>4 DEF IInv, Shape, IsExchange
  <2> HIDE DEF part
  <2>2. e = [exchanges[n] EXCEPT !.gathered = new] /\ DOMAIN new = DOMAIN exchanges[n].gathered \cup {p}
    BY <1>4
  <2> HIDE DEF new, e
  <2>3. e = [call |-> exchanges[n].call, parts |-> exchanges[n].parts, gathered |-> new]
    BY <2>1, <2>2
  <2> QED BY <2>2, <2>3 DEF IsExchange
<1> HIDE DEF e, n
<1>6. /\ IsSeq(exchanges') /\ Len(exchanges') = n /\ exchanges'[n] = e
      /\ \A k \in 1 .. n : k # n => exchanges'[k] = exchanges[k]
  <2>1. IsSeq(exchanges) /\ n \in 1 .. Len(exchanges) /\ Replaced(exchanges, n, e, exchanges')
    BY <1>1, <1>4 DEF IInv, Shape, n, Replaced
  <2> QED BY <2>1, ExceptFacts DEF n
<1>7. pos'[p] = n /\ \A q \in Ranks \ {p} : pos'[q] = pos[q]
  BY <1>1, <1>4 DEF IInv, Shape
<1>8. /\ DOMAIN recv' = Ranks /\ \A q \in Ranks \ {p} : recv'[q] = recv[q]
      /\ recv'[p].at \in {"request", "gather"}
  BY <1>1 DEF IInv, Shape, At
<1>9. Shape'
  <2>1. \A k \in 1 .. Len(exchanges') : IsExchange(exchanges'[k])
    BY <1>5, <1>6 DEF IInv, Shape, n
  <2>2. pos' \in [Ranks -> Nat]
    BY <1>1 DEF IInv, Shape
  <2> QED BY <1>1, <1>6, <1>8, <2>1, <2>2 DEF IInv, Shape
<1>10. PartsOfThose'
  <2>1. SUFFICES ASSUME NEW k \in 1 .. n
                 PROVE  DOMAIN exchanges'[k].gathered = {q \in Ranks : pos'[q] >= k}
    BY <1>6 DEF PartsOfThose
  <2>2. DOMAIN exchanges[k].gathered = {q \in Ranks : pos[q] >= k}
    BY DEF IInv, PartsOfThose, n
  <2>3. k = n \/ pos[p] >= k
    BY <1>3, <1>4
  <2>4. pos'[p] >= k /\ p \in Ranks
    BY <1>3, <1>7 DEF Others
  <2> QED BY <1>5, <1>6, <1>7, <2>2, <2>3, <2>4
<1>11. OnlyAt(u, p)
  <2>1. \A k \in 1 .. n : exchanges'[k].call = exchanges[k].call
    BY <1>5, <1>6
  <2> QED BY <1>1, <1>6, <1>7, <1>8, <2>1 DEF OnlyAt, IInv, Shape, n
<1>12. Alternates(u, p)'
  BY <1>1, <1>3, <1>8 DEF Follows, Alternates
<1>13. Repeats(u, p)'
  <2>1. Repeats(u, p)
    BY <1>3 DEF Follows
  <2>2. \A type : /\ ~(Receiving(p, type)')
                  /\ HeaderIn(u, p, type)' <=> HeaderIn(u, p, type)
                  /\ Repeating(u, type)' <=> Repeating(u, type)
                  /\ Repeating(p, type)' <=> Repeating(p, type)
    BY <1>1, <1>8 DEF Receiving, HeaderIn, Repeating
  <2>3. ~Repeating(p, "CREATE_FILE")
    BY <1>1, <2>1 DEF Repeats
  <2> QED BY <1>1, <1>8, <2>1, <2>2, <2>3 DEF Repeats
<1>14. Contributes(u, p)'
  BY <1>1, <1>3, <1>6, <1>7, <1>8 DEF Follows, Contributes
<1>15. Follows(u, p)'
  BY <1>1, <1>3, <1>8, <1>12, <1>13, <1>14 DEF Follows
<1> QED BY <1>2, <1>3, <1>9, <1>10, <1>11, <1>15, FollowerKeeps
-----------------------------------------------------------------------------
(* The theorems. *)

LEMMA StutterKeeps == ASSUME IInv, UNCHANGED vars PROVE IInv'
<1>1. UNCHANGED <<fuse, recv, mounted, fromThread, net, exchanges, pos, user>>
  BY DEF vars, threadVars, dataVars, userVars
<1>2. Shape' /\ OnlyLoopsMounted' /\ PartsOfThose' /\ (AllMounted' <=> AllMounted)
  BY <1>1, PartsStill DEF IInv, Shape, OnlyLoopsMounted, AllMounted
<1>3. CASE AllMounted
  <2>1. PICK u : u = user
    OBVIOUS
  <2>2. Working(u)
    BY <1>3, <2>1 DEF IInv
  <2>3. Leads(u)'
    BY <1>1, <2>2 DEF Working, Leads
  <2>4. ASSUME NEW q \in Others(u) PROVE Follows(u, q)'
    BY <1>1, <2>2, FollowsStill DEF Working
  <2>5. Working(u)' /\ user' = u
    BY <1>1, <2>1, <2>3, <2>4 DEF Working, Others
  <2> QED BY <1>2, <1>3, <2>5 DEF IInv
<1>4. CASE ~AllMounted
  BY <1>1, <1>2, <1>4 DEF IInv, Resting
<1> QED BY <1>3, <1>4

LEMMA NextKeeps == ASSUME IInv, Settled, [Next]_vars PROVE IInv'
<1>1. CASE UNCHANGED vars
  BY <1>1, StutterKeeps
<1>2. CASE Next
  <2>1. CASE Terminating
    BY <2>1, StutterKeeps DEF Terminating
  <2>2. CASE \E p \in Ranks : PeerNext(p)
    <3>1. PICK p \in Ranks : UserNext(p) \/ StartNext(p) \/ FuseNext(p) \/ RecvNext(p)
      BY <2>2 DEF PeerNext
    <3>2. CASE UserNext(p)
      BY <3>2, ChangeKeeps, FlushKeeps, OpenKeeps, UnmountKeeps DEF UserNext
    <3>3. CASE StartNext(p)
      BY <3>3, MountKeeps, EndsKeep DEF StartNext
    <3>4. CASE FuseNext(p)
      BY <3>4, AnnounceKeeps, ResetKeeps, ScatterKeeps, GatherKeeps, EndsKeep DEF FuseNext
    <3>5. CASE RecvNext(p)
      BY <3>5, RecvHeaderKeeps, RecvBodyKeeps, RecvTerminateKeeps, ReplayKeeps, ReplayCloseKeeps,
         RecvScatterKeeps, RecvGatherKeeps DEF RecvNext
    <3> QED BY <3>1, <3>2, <3>3, <3>4, <3>5
  <2> QED BY <1>2, <2>1, <2>2 DEF Next
<1> QED BY <1>1, <1>2

(***************************************************************************)
(* As long as users settle, the two threads of every peer, the messages    *)
(* between peers and the collectives keep the order that the rest stands   *)
(* on: one peer is used and leads, and what the others do is what its      *)
(* FUSE thread announced or called, as DistributedCode::start receives it. *)
(***************************************************************************)
THEOREM PeersInvariance == ASSUME Settled PROVE Spec => []IInv
<1>1. Init => IInv
  BY InitEstablishes
<1>2. IInv /\ [Next]_vars => IInv'
  BY NextKeeps
<1> QED BY <1>1, <1>2, PTL DEF Spec

(* With one sender at a time there is nothing else for the two receives of *)
(* a request to take: what RecvBody leaves out, the header of another peer *)
(* received as a body, needs two users at once.                            *)
LEMMA RequestsArePaired == ASSUME Settled PROVE Spec => []RequestsPaired
<1>1. IInv => RequestsPaired
  BY InvPairs
<1> QED BY <1>1, PeersInvariance, PTL

(***************************************************************************)
(* As long as users settle, the peers enter the Scatterv and Gatherv of    *)
(* DAGonFS_Write and DAGonFS_Read in one order, each with one of its two   *)
(* threads: no peer waits in a collective that the others do not enter.    *)
(***************************************************************************)
THEOREM CollectivesAreMatched == ASSUME Settled PROVE Spec => []CollectivesMatch
<1>1. IInv => CollectivesMatch
  BY InvMatches
<1> QED BY <1>1, PeersInvariance, PTL
------------------------------------------------------------------------------
(* The inode table of a peer.                                              *)

(* The table of a peer, of n inodes. *)
Table(t, n) == /\ t \in [0 .. n - 1 -> INodeRecords(0 .. n - 1)]
               /\ t[Special].type = "SPECIAL" /\ t[Root].type = "DIRECTORY"

(* The inodes that the first i names of a path lead to. *)
LeadsThrough(t, path, i, at) ==
    at = [j \in 0 .. i |-> IF j = 0 THEN Root ELSE ChildINodeNumberWithName(t, at[j - 1], path[j])]

LEMMA LookupsExist ==
    ASSUME NEW t, NEW path, NEW i \in Nat
    PROVE  \E at : LeadsThrough(t, path, i, at)
<1> DEFINE S == {k \in Nat : ~\E at : LeadsThrough(t, path, k, at)}
<1>1. SUFFICES ASSUME S # {} PROVE FALSE
  OBVIOUS
<1>2. PICK k \in S : \A j \in S : k <= j
  BY <1>1, NatHasSmallest
<1>3. CASE k = 0
  <2>1. LeadsThrough(t, path, 0, [j \in 0 .. 0 |-> Root])
    BY DEF LeadsThrough
  <2> QED BY <1>2, <1>3, <2>1
<1>4. CASE k # 0
  <2>1. k - 1 \in Nat /\ k - 1 \notin S /\ k \in Nat
    BY <1>2, <1>4
  <2>2. PICK at : LeadsThrough(t, path, k - 1, at)
    BY <2>1
  <2> DEFINE longer == [j \in 0 .. k |-> IF j = k THEN ChildINodeNumberWithName(t, at[k - 1], path[k]) ELSE at[j]]
  <2>3. LeadsThrough(t, path, k, longer)
    <3>1. \A j \in 0 .. k - 1 : at[j] = IF j = 0 THEN Root ELSE ChildINodeNumberWithName(t, at[j - 1], path[j])
      BY <2>2 DEF LeadsThrough
    <3>2. ASSUME NEW j \in 0 .. k
          PROVE  longer[j] = IF j = 0 THEN Root ELSE ChildINodeNumberWithName(t, longer[j - 1], path[j])
      <4>1. CASE j = k
        <5>1. longer[j - 1] = at[k - 1]
          BY <2>1, <4>1
        <5> QED BY <1>4, <4>1, <5>1
      <4>2. CASE j # k
        <5>1. j \in 0 .. k - 1 /\ (j # 0 => j - 1 \in 0 .. k /\ j - 1 # k)
          BY <2>1, <4>2
        <5> QED BY <3>1, <4>2, <5>1
      <4> QED BY <4>1, <4>2
    <3>3. DOMAIN longer = 0 .. k
      OBVIOUS
    <3>4. longer = [j \in 0 .. k |-> longer[j]]
      OBVIOUS
    <3> HIDE DEF longer
    <3> QED BY <3>2, <3>4 DEF LeadsThrough
  <2> QED BY <1>2, <2>3
<1> QED BY <1>3, <1>4

(* A path leads to an inode of the table, or nowhere. *)
LEMMA INodeAtType ==
    ASSUME NEW n \in Nat, n > 1, NEW t, Table(t, n), NEW path \in Seq(Names)
    PROVE  INodeAt(t, path) \in 0 .. n - 1 \cup {NoChild}
<1> DEFINE found == CHOOSE at : LeadsThrough(t, path, Len(path), at)
           S == {k \in 0 .. Len(path) : found[k] \notin 0 .. n - 1 \cup {NoChild}}
<1>1. Len(path) \in Nat
  OBVIOUS
<1>2. LeadsThrough(t, path, Len(path), found)
  BY <1>1, LookupsExist
<1>3. INodeAt(t, path) = found[Len(path)]
  BY DEF INodeAt, LeadsThrough
<1> HIDE DEF found
<1>4. SUFFICES S = {}
  BY <1>1, <1>3
<1>5. \A k \in 0 .. Len(path) : found[k] = IF k = 0 THEN Root ELSE ChildINodeNumberWithName(t, found[k - 1], path[k])
  BY <1>2 DEF LeadsThrough
<1>6. SUFFICES ASSUME S # {} PROVE FALSE
  OBVIOUS
<1>7. PICK k \in S : \A j \in S : k <= j
  <2>1. S \in SUBSET Nat
    BY <1>1
  <2> QED BY <1>6, <2>1, NatHasSmallest
<1>8. k # 0 /\ k \in 1 .. Len(path) /\ k - 1 \in 0 .. Len(path) /\ found[k - 1] \in 0 .. n - 1 \cup {NoChild}
  <2>1. k # 0
    BY <1>5, <1>7 DEF Root
  <2>2. k - 1 \notin S /\ k - 1 \in 0 .. Len(path)
    BY <1>1, <1>7, <2>1
  <2> QED BY <1>1, <1>7, <2>1, <2>2
<1>9. path[k] \in Names
  BY <1>8
<1>10. ChildINodeNumberWithName(t, found[k - 1], path[k]) \in 0 .. n - 1 \cup {NoChild}
  <2>1. CASE IsDirectory(t, found[k - 1])
    <3>1. found[k - 1] \in 0 .. n - 1
      BY <1>8, <2>1 DEF IsDirectory
    <3>2. t[found[k - 1]].m_children \in [Names -> 0 .. n - 1 \cup {NoChild}]
      BY <3>1 DEF Table, INodeRecords
    <3> QED BY <1>9, <2>1, <3>2 DEF ChildINodeNumberWithName
  <2>2. CASE ~IsDirectory(t, found[k - 1])
    BY <2>2 DEF ChildINodeNumberWithName
  <2> QED BY <2>1, <2>2
<1> QED BY <1>5, <1>7, <1>8, <1>10

-----------------------------------------------------------------------------
(* What becomes of the sizes: those of old inodes stay or are 0, those of  *)
(* new ones are 0.                                                         *)
SizesKept(t, s) == \A ino \in DOMAIN s : s[ino].st_size = 0 \/ (ino \in DOMAIN t /\ s[ino].st_size = t[ino].st_size)

LEMMA TableFacts ==
    ASSUME NEW n \in Nat, n > 1, NEW t, Table(t, n)
    PROVE  /\ DOMAIN t = 0 .. n - 1 /\ NextINode(t) = n
           /\ Root \in 0 .. n - 1 /\ Special \in 0 .. n - 1
           /\ \A ino \in 0 .. n - 1 : t[ino] \in INodeRecords(0 .. n - 1)
<1>1. DOMAIN t = 0 .. n - 1 /\ \A ino \in 0 .. n - 1 : t[ino] \in INodeRecords(0 .. n - 1)
  BY DEF Table
<1>2. Cardinality(0 .. n - 1) = n
  <2>1. 0 \in Int /\ n - 1 \in Int /\ 0 <= n - 1
    OBVIOUS
  <2>2. Cardinality(0 .. n - 1) = IF 0 > n - 1 THEN 0 ELSE (n - 1) - 0 + 1
    BY <2>1, FS_Interval
  <2> QED BY <2>1, <2>2
<1> QED BY <1>1, <1>2 DEF NextINode, Root, Special

(* One inode is replaced by one of its type. *)
LEMMA INodeReplaced ==
    ASSUME NEW n \in Nat, n > 1, NEW t, Table(t, n), NEW ino \in 0 .. n - 1,
           NEW r \in INodeRecords(0 .. n - 1), r.type = t[ino].type, NEW s, Replaced(t, ino, r, s)
    PROVE  /\ Table(s, n)
           /\ r.st_size = 0 \/ r.st_size = t[ino].st_size => SizesKept(t, s)
<1>1. /\ DOMAIN s = 0 .. n - 1 /\ s[ino] = r /\ \A other \in 0 .. n - 1 : other # ino => s[other] = t[other]
      /\ s \in [0 .. n - 1 -> INodeRecords(0 .. n - 1)]
      /\ DOMAIN t = 0 .. n - 1
  BY DEF Table, Replaced
<1>2. Table(s, n)
  BY <1>1, TableFacts DEF Table
<1>3. r.st_size = 0 \/ r.st_size = t[ino].st_size => SizesKept(t, s)
  BY <1>1 DEF SizesKept
<1> QED BY <1>2, <1>3

(* Fields of an inode that change. *)
WithLinks(r, links) == [r EXCEPT !.st_nlink = links]
WithChild(r, name, child) == [r EXCEPT !.m_children[name] = child]
WithSize(r, size, blocks) == [r EXCEPT !.st_size = size, !.st_blocks = blocks]

LEMMA INodeFields ==
    ASSUME NEW numbers, NEW r \in INodeRecords(numbers)
    PROVE  /\ r = [type |-> r.type, st_nlink |-> r.st_nlink, m_children |-> r.m_children,
                   dir_name |-> r.dir_name, st_size |-> r.st_size, st_blocks |-> r.st_blocks]
           /\ r.type \in {"SPECIAL", "DIRECTORY", "REGULAR_FILE", "SYMBOLIC_LINK"}
           /\ r.st_nlink \in Int /\ r.st_size \in Nat /\ r.st_blocks \in Nat /\ r.dir_name \in Seq(Names)
           /\ r.m_children \in [Names -> numbers \cup {NoChild}]
  BY DEF INodeRecords

LEMMA WithLinksType ==
    ASSUME NEW numbers, NEW r \in INodeRecords(numbers), NEW links \in Int
    PROVE  /\ WithLinks(r, links) \in INodeRecords(numbers)
           /\ WithLinks(r, links).type = r.type /\ WithLinks(r, links).st_size = r.st_size
  BY INodeFields DEF INodeRecords, WithLinks

LEMMA WithChildType ==
    ASSUME NEW numbers, NEW r \in INodeRecords(numbers), NEW name, NEW child \in numbers \cup {NoChild}
    PROVE  /\ WithChild(r, name, child) \in INodeRecords(numbers)
           /\ WithChild(r, name, child).type = r.type /\ WithChild(r, name, child).st_size = r.st_size
           /\ WithChild(r, name, child).st_nlink = r.st_nlink
<1>1. [r.m_children EXCEPT ![name] = child] \in [Names -> numbers \cup {NoChild}]
  BY INodeFields
<1> QED BY <1>1, INodeFields DEF INodeRecords, WithChild

LEMMA WithSizeType ==
    ASSUME NEW numbers, NEW r \in INodeRecords(numbers), NEW size \in Nat, NEW blocks \in Nat
    PROVE  /\ WithSize(r, size, blocks) \in INodeRecords(numbers)
           /\ WithSize(r, size, blocks).type = r.type /\ WithSize(r, size, blocks).st_size = size
  BY INodeFields DEF INodeRecords, WithSize

(* The changes that handlers are made of. *)
SetLinks(t, ino, links) == [t EXCEPT ![ino].st_nlink = links]
SetChild(t, ino, name, child) == [t EXCEPT ![ino].m_children[name] = child]
SetSize(t, ino, size, blocks) == [t EXCEPT ![ino].st_size = size, ![ino].st_blocks = blocks]

LEMMA SetLinksKeeps ==
    ASSUME NEW n \in Nat, n > 1, NEW t, Table(t, n), NEW ino \in 0 .. n - 1, NEW links \in Int
    PROVE  Table(SetLinks(t, ino, links), n) /\ SizesKept(t, SetLinks(t, ino, links))
<1>1. t[ino] \in INodeRecords(0 .. n - 1)
  BY TableFacts
<1>2. PICK r : r = WithLinks(t[ino], links)
  OBVIOUS
<1>3. r \in INodeRecords(0 .. n - 1) /\ r.type = t[ino].type /\ r.st_size = t[ino].st_size
  BY <1>1, <1>2, WithLinksType
<1>4. Replaced(t, ino, r, SetLinks(t, ino, links))
  BY <1>2 DEF SetLinks, WithLinks, Replaced
<1> QED BY <1>3, <1>4, INodeReplaced

LEMMA SetChildKeeps ==
    ASSUME NEW n \in Nat, n > 1, NEW t, Table(t, n), NEW ino \in 0 .. n - 1,
           NEW name, NEW child \in 0 .. n - 1 \cup {NoChild}
    PROVE  Table(SetChild(t, ino, name, child), n) /\ SizesKept(t, SetChild(t, ino, name, child))
<1>1. t[ino] \in INodeRecords(0 .. n - 1)
  BY TableFacts
<1>2. PICK r : r = WithChild(t[ino], name, child)
  OBVIOUS
<1>3. r \in INodeRecords(0 .. n - 1) /\ r.type = t[ino].type /\ r.st_size = t[ino].st_size
  BY <1>1, <1>2, WithChildType
<1>4. Replaced(t, ino, r, SetChild(t, ino, name, child))
  BY <1>2 DEF SetChild, WithChild, Replaced
<1> QED BY <1>3, <1>4, INodeReplaced

LEMMA SetSizeKeeps ==
    ASSUME NEW n \in Nat, n > 1, NEW t, Table(t, n), NEW ino \in 0 .. n - 1,
           NEW size \in Nat, NEW blocks \in Nat
    PROVE  /\ Table(SetSize(t, ino, size, blocks), n) /\ SetSize(t, ino, size, blocks)[ino].st_size = size
           /\ size = 0 => SizesKept(t, SetSize(t, ino, size, blocks))
<1>1. t[ino] \in INodeRecords(0 .. n - 1) /\ DOMAIN t = 0 .. n - 1
  BY TableFacts
<1>2. PICK r : r = WithSize(t[ino], size, blocks)
  OBVIOUS
<1>3. r \in INodeRecords(0 .. n - 1) /\ r.type = t[ino].type /\ r.st_size = size
  <2>1. PICK inode : inode = t[ino]
    OBVIOUS
  <2>2. /\ WithSize(inode, size, blocks) \in INodeRecords(0 .. n - 1)
        /\ WithSize(inode, size, blocks).type = inode.type /\ WithSize(inode, size, blocks).st_size = size
    <3>1. PICK numbers : numbers = 0 .. n - 1
      OBVIOUS
    <3>2. inode \in INodeRecords(numbers)
      BY <1>1, <2>1, <3>1
    <3>3. /\ WithSize(inode, size, blocks) \in INodeRecords(numbers)
          /\ WithSize(inode, size, blocks).type = inode.type /\ WithSize(inode, size, blocks).st_size = size
      BY <3>2, WithSizeType
    <3> QED BY <3>1, <3>3
  <2> QED BY <1>2, <2>1, <2>2
<1>4. Replaced(t, ino, r, SetSize(t, ino, size, blocks))
  BY <1>1, <1>2 DEF SetSize, WithSize, Replaced
<1>5. SetSize(t, ino, size, blocks)[ino] = r
  BY <1>1, <1>4 DEF Replaced
<1> QED BY <1>3, <1>4, <1>5, INodeReplaced

LEMMA SizeSetTo ==
    ASSUME NEW n \in Nat, n > 1, NEW t, Table(t, n), NEW ino \in 0 .. n - 1,
           NEW size \in Nat, NEW blocks \in Nat
    PROVE  SetSize(t, ino, size, blocks)[ino].st_size = size
  BY SetSizeKeeps

LEMMA SizesKeptTwice ==
    ASSUME NEW t, NEW s, NEW v, SizesKept(t, s), SizesKept(s, v)
    PROVE  SizesKept(t, v)
  BY DEF SizesKept

LEMMA TruncatedKeeps ==
    ASSUME NEW n \in Nat, n > 1, NEW t, Table(t, n), NEW path, INodeAt(t, path) \in 0 .. n - 1
    PROVE  Table(Truncated(t, path), n) /\ SizesKept(t, Truncated(t, path))
<1>1. Truncated(t, path) = SetSize(t, INodeAt(t, path), 0, 0)
  BY DEF Truncated, SetSize
<1> QED BY <1>1, SetSizeKeeps

(* An inode more. *)
LEMMA RegisteredKeeps ==
    ASSUME NEW n \in Nat, n > 1, NEW t, Table(t, n),
           NEW r \in INodeRecords(0 .. n - 1), r.st_size = 0
    PROVE  /\ Table(Registered(t, r), n + 1) /\ SizesKept(t, Registered(t, r))
           /\ \A ino \in 0 .. n - 1 : Registered(t, r)[ino] = t[ino]
<1> DEFINE s == Registered(t, r)
<1>1. DOMAIN t = 0 .. n - 1 /\ NextINode(t) = n /\ \A ino \in 0 .. n - 1 : t[ino] \in INodeRecords(0 .. n - 1)
  BY TableFacts
<1>2. 0 .. n - 1 \cup {n} = 0 .. (n + 1) - 1
  OBVIOUS
<1>3. s = [ino \in 0 .. (n + 1) - 1 |-> IF ino = n THEN r ELSE t[ino]]
  BY <1>1, <1>2 DEF Registered
<1>4. \A inode \in INodeRecords(0 .. n - 1) : inode \in INodeRecords(0 .. (n + 1) - 1)
  <2>1. SUFFICES ASSUME NEW inode \in INodeRecords(0 .. n - 1) PROVE inode \in INodeRecords(0 .. (n + 1) - 1)
    OBVIOUS
  <2>2. inode.m_children \in [Names -> 0 .. (n + 1) - 1 \cup {NoChild}]
    BY <1>2, <2>1 DEF INodeRecords
  <2> QED BY <2>1, <2>2 DEF INodeRecords
<1>5. \A ino \in 0 .. (n + 1) - 1 : ino \in 0 .. n - 1 \/ ino = n
  OBVIOUS
<1>6. s \in [0 .. (n + 1) - 1 -> INodeRecords(0 .. (n + 1) - 1)]
  BY <1>1, <1>3, <1>4, <1>5
<1>7. s[Special].type = "SPECIAL" /\ s[Root].type = "DIRECTORY"
  BY <1>3 DEF Table, Special, Root
<1>8. SizesKept(t, s)
  BY <1>1, <1>3, <1>5 DEF SizesKept
<1>9. \A ino \in 0 .. n - 1 : s[ino] = t[ino]
  BY <1>3
<1> QED BY <1>6, <1>7, <1>8, <1>9 DEF Table

LEMMA InsertedKeeps ==
    ASSUME NEW n \in Nat, n > 1, NEW t, Table(t, n), NEW path,
           INodeAt(t, Parent(path)) \in 0 .. n - 1,
           NEW r \in INodeRecords(0 .. n - 1), r.st_size = 0
    PROVE  /\ Table(Inserted(t, path, r), n + 1) /\ SizesKept(t, Inserted(t, path, r))
           /\ \A ino \in 0 .. n - 1 : Inserted(t, path, r)[ino].st_nlink = t[ino].st_nlink
<1> DEFINE s == Registered(t, r)
           dir == INodeAt(t, Parent(path))
<1>1. Table(s, n + 1) /\ SizesKept(t, s) /\ \A ino \in 0 .. n - 1 : s[ino] = t[ino]
  BY RegisteredKeeps
<1>2. n + 1 \in Nat /\ n + 1 > 1 /\ dir \in 0 .. (n + 1) - 1 /\ n \in 0 .. (n + 1) - 1
  OBVIOUS
<1>3. Inserted(t, path, r) = SetChild(s, dir, Leaf(path), n)
  BY TableFacts DEF Inserted, SetChild
<1> HIDE DEF s, dir
<1>4. Table(SetChild(s, dir, Leaf(path), n), n + 1) /\ SizesKept(s, SetChild(s, dir, Leaf(path), n))
  BY <1>1, <1>2, SetChildKeeps
<1>5. ASSUME NEW ino \in 0 .. n - 1 PROVE SetChild(s, dir, Leaf(path), n)[ino].st_nlink = t[ino].st_nlink
  <2>1. ino \in 0 .. (n + 1) - 1 /\ s[ino] \in INodeRecords(0 .. (n + 1) - 1) /\ DOMAIN s = 0 .. (n + 1) - 1
    BY <1>1, <1>2, TableFacts
  <2>2. SetChild(s, dir, Leaf(path), n)[ino] = IF ino = dir THEN WithChild(s[ino], Leaf(path), n) ELSE s[ino]
    BY <2>1 DEF SetChild, WithChild
  <2>3. WithChild(s[ino], Leaf(path), n).st_nlink = s[ino].st_nlink
    BY <1>2, <2>1, WithChildType
  <2> QED BY <1>1, <2>2, <2>3
<1> QED BY <1>1, <1>3, <1>4, <1>5, SizesKeptTwice

(* Paths. *)
AnyOperation == [type : TreeTypes, path : Seq(Names), to : Seq(Names)]

LEMMA PathFacts ==
    ASSUME NEW path \in Seq(Names)
    PROVE  /\ Parent(path) \in Seq(Names)
           /\ path # <<>> => Leaf(path) \in Names
           /\ path = <<>> => \A t, other : INodeAt(t, path) = Root /\ (other \in Seq(Names) => IsWithin(path, other))
<1>1. CASE path = <<>>
  <2>1. Len(path) = 0
    BY <1>1, EmptySeq
  <2>2. Parent(path) = <<>>
    <3>1. Parent(path) = SubSeq(path, 1, -1)
      BY <2>1 DEF Parent
    <3> QED BY <1>1, <3>1
  <2>3. ASSUME NEW t PROVE INodeAt(t, path) = Root
    <3> DEFINE found == CHOOSE at : LeadsThrough(t, path, Len(path), at)
    <3>1. LeadsThrough(t, path, Len(path), found)
      BY <2>1, LookupsExist
    <3>2. INodeAt(t, path) = found[Len(path)]
      BY DEF INodeAt, LeadsThrough
    <3> HIDE DEF found
    <3> QED BY <2>1, <3>1, <3>2 DEF LeadsThrough
  <2>4. ASSUME NEW other \in Seq(Names) PROVE IsWithin(path, other)
    <3>1. SubSeq(other, 1, 0) = <<>>
      OBVIOUS
    <3> QED BY <1>1, <2>1, <3>1 DEF IsWithin
  <2> QED BY <1>1, <2>2, <2>3, <2>4
<1>2. CASE path # <<>>
  <2>1. Len(path) \in 1 .. Len(path)
    BY <1>2
  <2>2. Leaf(path) \in Names
    BY <2>1 DEF Leaf
  <2>3. Parent(path) \in Seq(Names)
    BY <2>1 DEF Parent
  <2> QED BY <1>2, <2>2, <2>3
<1> QED BY <1>1, <1>2

LEMMA DirectoryFound ==
    ASSUME NEW n \in Nat, n > 1, NEW t, Table(t, n), NEW path \in Seq(Names), INodeAt(t, path) # NoChild
    PROVE  INodeAt(t, path) \in 0 .. n - 1
  BY INodeAtType

(* A path that the kernel asks a handler for. *)
LEMMA AllowedPaths ==
    ASSUME NEW n \in Nat, n > 1, NEW t, Table(t, n), NEW o \in AnyOperation, KernelAllows(t, o)
    PROVE  /\ o.path \in Seq(Names) /\ o.to \in Seq(Names)
           /\ INodeAt(t, Parent(o.path)) \in 0 .. n - 1
           /\ o.type \notin Makes => INodeAt(t, o.path) \in 0 .. n - 1
           /\ o.type = "RENAME" => INodeAt(t, Parent(o.to)) \in 0 .. n - 1 /\ o.to # <<>>
           /\ o.type # "DELETE_DIR" => o.path # <<>>
<1>1. o.path \in Seq(Names) /\ o.to \in Seq(Names) /\ o.type \in TreeTypes
  BY DEF AnyOperation
<1>2. INodeAt(t, Parent(o.path)) \in 0 .. n - 1
  BY <1>1, PathFacts, INodeAtType DEF KernelAllows, IsDirectory
<1>3. o.type \notin Makes => INodeAt(t, o.path) \in 0 .. n - 1
  <2>1. o.type \notin Makes => o.type \in {"DELETE_FILE", "DELETE_DIR", "RENAME", "TRUNCATE"}
    BY <1>1 DEF TreeTypes, Announced, Makes
  <2>2. o.type \notin Makes => INodeAt(t, o.path) # NoChild
    BY <2>1 DEF KernelAllows, KernelRenames, IsDirectory, IsFile
  <2> QED BY <1>1, <2>2, INodeAtType
<1>4. o.type = "RENAME" => INodeAt(t, Parent(o.to)) \in 0 .. n - 1
  <2>1. o.type = "RENAME" => INodeAt(t, Parent(o.to)) # NoChild
    BY DEF KernelAllows, KernelRenames, IsDirectory
  <2> QED BY <1>1, <2>1, PathFacts, INodeAtType
<1>5. o.type = "RENAME" => o.to # <<>> /\ o.path # <<>>
  <2>1. o.type = "RENAME" => ~IsWithin(o.path, o.to) /\ ~IsWithin(o.to, o.path)
    BY DEF KernelAllows, KernelRenames
  <2> QED BY <1>1, <2>1, PathFacts
<1>6. o.type \in Makes => o.path # <<>>
  <2>1. o.type \in Makes => INodeAt(t, o.path) = NoChild
    BY DEF KernelAllows
  <2>2. o.path = <<>> => INodeAt(t, o.path) = Root
    BY <1>1, PathFacts
  <2> QED BY <2>1, <2>2 DEF NoChild, Root
<1>7. o.type \in {"DELETE_FILE", "TRUNCATE"} => o.path # <<>>
  <2>1. t[Root].type = "DIRECTORY"
    BY DEF Table
  <2>2. o.path = <<>> => INodeAt(t, o.path) = Root
    BY <1>1, PathFacts
  <2>3. o.path = <<>> => IsDirectory(t, INodeAt(t, o.path)) /\ ~IsFile(t, INodeAt(t, o.path))
    BY <2>1, <2>2 DEF IsDirectory, IsFile, Root, NoChild
  <2> QED BY <2>3 DEF KernelAllows
<1>8. o.type \in Makes \cup {"DELETE_FILE", "TRUNCATE", "RENAME", "DELETE_DIR"}
  BY <1>1 DEF TreeTypes, Announced, Makes
<1> QED BY <1>1, <1>2, <1>3, <1>4, <1>5, <1>6, <1>7, <1>8

LEMMA MadeKeeps ==
    ASSUME NEW n \in Nat, n > 1, NEW t, Table(t, n), NEW path, INodeAt(t, Parent(path)) \in 0 .. n - 1,
           NEW type \in {"REGULAR_FILE", "SYMBOLIC_LINK"}
    PROVE  /\ Table(Inserted(t, path, NewINode(type, 1)), n + 1)
           /\ SizesKept(t, Inserted(t, path, NewINode(type, 1)))
<1>1. NewINode(type, 1) \in INodeRecords(0 .. n - 1) /\ NewINode(type, 1).st_size = 0
  BY DEF NewINode, INodeRecords
<1> QED BY <1>1, InsertedKeeps

LEMMA NewDirectory ==
    ASSUME NEW numbers, NEW names \in Seq(Names)
    PROVE  /\ [NewINode("DIRECTORY", 2) EXCEPT !.dir_name = names] \in INodeRecords(numbers)
           /\ [NewINode("DIRECTORY", 2) EXCEPT !.dir_name = names].st_size = 0
<1> DEFINE r == NewINode("DIRECTORY", 2)
<1>1. r \in INodeRecords(numbers) /\ r.st_size = 0
  BY DEF NewINode, INodeRecords
<1> HIDE DEF r
<1>2. r = [type |-> r.type, st_nlink |-> r.st_nlink, m_children |-> r.m_children,
           dir_name |-> r.dir_name, st_size |-> r.st_size, st_blocks |-> r.st_blocks]
  BY <1>1, INodeFields
<1>3. [r EXCEPT !.dir_name = names] = [type |-> r.type, st_nlink |-> r.st_nlink, m_children |-> r.m_children,
           dir_name |-> names, st_size |-> r.st_size, st_blocks |-> r.st_blocks]
  BY <1>2
<1>4. [r EXCEPT !.dir_name = names] \in INodeRecords(numbers) /\ [r EXCEPT !.dir_name = names].st_size = 0
  BY <1>1, <1>3 DEF INodeRecords
<1> QED BY <1>4 DEF r

LEMMA MkdirKeeps ==
    ASSUME NEW n \in Nat, n > 1, NEW t, Table(t, n), NEW path, INodeAt(t, Parent(path)) \in 0 .. n - 1,
           Leaf(path) \in Names
    PROVE  Table(FuseMkdir(t, path), n + 1) /\ SizesKept(t, FuseMkdir(t, path))
<1> DEFINE parent == INodeAt(t, Parent(path))
           dir == [NewINode("DIRECTORY", 2) EXCEPT !.dir_name = Append(t[parent].dir_name, Leaf(path))]
           s == Inserted(t, path, dir)
<1>1. t[parent] \in INodeRecords(0 .. n - 1)
  BY TableFacts
<1>2. t[parent].dir_name \in Seq(Names) /\ t[parent].st_nlink \in Int
  BY <1>1, INodeFields
<1>3. Append(t[parent].dir_name, Leaf(path)) \in Seq(Names)
  BY <1>2
<1>4. dir \in INodeRecords(0 .. n - 1) /\ dir.st_size = 0
  BY <1>3, NewDirectory
<1>5. FuseMkdir(t, path) = SetLinks(s, parent, s[parent].st_nlink + 1)
  BY DEF FuseMkdir, SetLinks
<1> HIDE DEF dir
<1>6. Table(s, n + 1) /\ SizesKept(t, s) /\ s[parent].st_nlink = t[parent].st_nlink
  BY <1>4, InsertedKeeps
<1> HIDE DEF s
<1>7. s[parent].st_nlink + 1 \in Int /\ n + 1 \in Nat /\ n + 1 > 1 /\ parent \in 0 .. (n + 1) - 1
  BY <1>2, <1>6
<1> HIDE DEF parent
<1>8. /\ Table(SetLinks(s, parent, s[parent].st_nlink + 1), n + 1)
      /\ SizesKept(s, SetLinks(s, parent, s[parent].st_nlink + 1))
  BY <1>6, <1>7, SetLinksKeeps
<1> QED BY <1>5, <1>6, <1>8, SizesKeptTwice

LEMMA LinksOf ==
    ASSUME NEW n \in Nat, n > 1, NEW t, Table(t, n), NEW ino \in 0 .. n - 1
    PROVE  t[ino].st_nlink - 1 \in Int /\ t[ino].st_nlink + 1 \in Int
<1>1. t[ino] \in INodeRecords(0 .. n - 1)
  BY TableFacts
<1>2. t[ino].st_nlink \in Int
  BY <1>1, INodeFields
<1> QED BY <1>2

LEMMA FuseUnlinkKeeps ==
    ASSUME NEW n \in Nat, n > 1, NEW t, Table(t, n), NEW path,
           INodeAt(t, path) \in 0 .. n - 1, INodeAt(t, Parent(path)) \in 0 .. n - 1
    PROVE  Table(FuseUnlink(t, path), n) /\ SizesKept(t, FuseUnlink(t, path))
<1> DEFINE ino == INodeAt(t, path)
           dir == INodeAt(t, Parent(path))
           s == SetLinks(t, ino, t[ino].st_nlink - 1)
<1>1. FuseUnlink(t, path) = SetChild(s, dir, Leaf(path), NoChild)
  BY DEF FuseUnlink, SetLinks, SetChild
<1> HIDE DEF ino, dir
<1>2. ino \in 0 .. n - 1 /\ dir \in 0 .. n - 1
  BY DEF ino, dir
<1>3. Table(s, n) /\ SizesKept(t, s)
  BY <1>2, LinksOf, SetLinksKeeps
<1> HIDE DEF s
<1>4. /\ Table(SetChild(s, dir, Leaf(path), NoChild), n)
      /\ SizesKept(s, SetChild(s, dir, Leaf(path), NoChild))
  BY <1>2, <1>3, SetChildKeeps
<1> QED BY <1>1, <1>3, <1>4, SizesKeptTwice

LEMMA FuseRmdirKeeps ==
    ASSUME NEW n \in Nat, n > 1, NEW t, Table(t, n), NEW path,
           INodeAt(t, path) \in 0 .. n - 1, INodeAt(t, Parent(path)) \in 0 .. n - 1
    PROVE  Table(FuseRmdir(t, path), n) /\ SizesKept(t, FuseRmdir(t, path))
<1> DEFINE ino == INodeAt(t, path)
           dir == INodeAt(t, Parent(path))
           s == SetLinks(t, ino, 0)
           v == SetLinks(s, dir, s[dir].st_nlink - 1)
<1>1. FuseRmdir(t, path) = SetChild(v, dir, Leaf(path), NoChild)
  BY DEF FuseRmdir, SetLinks, SetChild
<1> HIDE DEF ino, dir
<1>2. ino \in 0 .. n - 1 /\ dir \in 0 .. n - 1
  BY DEF ino, dir
<1>3. Table(s, n) /\ SizesKept(t, s)
  BY <1>2, SetLinksKeeps
<1> HIDE DEF s
<1>4. Table(v, n) /\ SizesKept(s, v)
  BY <1>2, <1>3, LinksOf, SetLinksKeeps
<1> HIDE DEF v
<1>5. /\ Table(SetChild(v, dir, Leaf(path), NoChild), n)
      /\ SizesKept(v, SetChild(v, dir, Leaf(path), NoChild))
  BY <1>2, <1>4, SetChildKeeps
<1> QED BY <1>1, <1>3, <1>4, <1>5, SizesKeptTwice

LEMMA FuseRenameKeeps ==
    ASSUME NEW n \in Nat, n > 1, NEW t, Table(t, n), NEW path, NEW to,
           INodeAt(t, path) \in 0 .. n - 1, INodeAt(t, Parent(path)) \in 0 .. n - 1,
           INodeAt(t, Parent(to)) \in 0 .. n - 1
    PROVE  Table(FuseRename(t, path, to), n) /\ SizesKept(t, FuseRename(t, path, to))
<1> DEFINE ino == INodeAt(t, path)
           dir == INodeAt(t, Parent(path))
           newdir == INodeAt(t, Parent(to))
           less == SetLinks(t, dir, t[dir].st_nlink - 1)
           more == SetLinks(less, newdir, less[newdir].st_nlink + 1)
           relinked == IF IsDirectory(t, INodeAt(t, to)) THEN more ELSE t
           added == SetChild(relinked, newdir, Leaf(to), ino)
<1>1. FuseRename(t, path, to) = SetChild(added, dir, Leaf(path), NoChild)
  BY DEF FuseRename, SetLinks, SetChild
<1> HIDE DEF ino, dir, newdir
<1>2. ino \in 0 .. n - 1 /\ dir \in 0 .. n - 1 /\ newdir \in 0 .. n - 1
  BY DEF ino, dir, newdir
<1>3. Table(less, n) /\ SizesKept(t, less)
  BY <1>2, LinksOf, SetLinksKeeps
<1> HIDE DEF less
<1>4. Table(more, n) /\ SizesKept(less, more)
  BY <1>2, <1>3, LinksOf, SetLinksKeeps
<1> HIDE DEF more
<1>5. Table(relinked, n) /\ SizesKept(t, relinked)
  <2>1. SizesKept(t, more) /\ SizesKept(t, t)
    BY <1>3, <1>4, SizesKeptTwice DEF SizesKept
  <2> QED BY <1>4, <2>1
<1> HIDE DEF relinked
<1>6. Table(added, n) /\ SizesKept(relinked, added)
  BY <1>2, <1>5, SetChildKeeps
<1> HIDE DEF added
<1>7. /\ Table(SetChild(added, dir, Leaf(path), NoChild), n)
      /\ SizesKept(added, SetChild(added, dir, Leaf(path), NoChild))
  BY <1>2, <1>6, SetChildKeeps
<1>8. SizesKept(t, added)
  BY <1>5, <1>6, SizesKeptTwice
<1> QED BY <1>1, <1>7, <1>8, SizesKeptTwice

(* Every handler leaves a table. *)
LEMMA AppliedKeeps ==
    ASSUME NEW n \in Nat, n > 1, NEW t, Table(t, n), NEW o \in AnyOperation, KernelAllows(t, o)
    PROVE  /\ Table(Applied(t, o), IF o.type \in Makes THEN n + 1 ELSE n)
           /\ SizesKept(t, Applied(t, o))
<1>1. /\ INodeAt(t, Parent(o.path)) \in 0 .. n - 1 /\ o.path \in Seq(Names)
      /\ o.type \notin Makes => INodeAt(t, o.path) \in 0 .. n - 1
      /\ o.type = "RENAME" => INodeAt(t, Parent(o.to)) \in 0 .. n - 1 /\ o.to # <<>>
      /\ o.type # "DELETE_DIR" => o.path # <<>>
  BY AllowedPaths
<1>2. CASE o.type = "CREATE_FILE"
  <2>1. Applied(t, o) = Inserted(t, o.path, NewINode("REGULAR_FILE", 1)) /\ o.type \in Makes
    BY <1>2 DEF Applied, FuseCreate, Makes
  <2> QED BY <1>1, <2>1, MadeKeeps
<1>3. CASE o.type = "MKNOD"
  <2>1. Applied(t, o) = Inserted(t, o.path, NewINode("REGULAR_FILE", 1)) /\ o.type \in Makes
    BY <1>3 DEF Applied, FuseMknod, Makes
  <2> QED BY <1>1, <2>1, MadeKeeps
<1>4. CASE o.type = "SYMLINK"
  <2>1. Applied(t, o) = Inserted(t, o.path, NewINode("SYMBOLIC_LINK", 1)) /\ o.type \in Makes
    BY <1>4 DEF Applied, FuseSymlink, Makes
  <2> QED BY <1>1, <2>1, MadeKeeps
<1>5. CASE o.type = "CREATE_DIR"
  <2>1. Applied(t, o) = FuseMkdir(t, o.path) /\ o.type \in Makes
    BY <1>5 DEF Applied, Makes
  <2>2. Leaf(o.path) \in Names
    BY <1>1, <1>5, PathFacts
  <2> QED BY <1>1, <2>1, <2>2, MkdirKeeps
<1>6. CASE o.type = "DELETE_FILE"
  <2>1. Applied(t, o) = FuseUnlink(t, o.path) /\ o.type \notin Makes
    BY <1>6 DEF Applied, Makes
  <2> QED BY <1>1, <2>1, FuseUnlinkKeeps
<1>7. CASE o.type = "DELETE_DIR"
  <2>1. Applied(t, o) = FuseRmdir(t, o.path) /\ o.type \notin Makes
    BY <1>7 DEF Applied, Makes
  <2> QED BY <1>1, <2>1, FuseRmdirKeeps
<1>8. CASE o.type = "RENAME"
  <2>1. Applied(t, o) = FuseRename(t, o.path, o.to) /\ o.type \notin Makes
    BY <1>8 DEF Applied, Makes
  <2> QED BY <1>1, <1>8, <2>1, FuseRenameKeeps
<1>9. CASE o.type = "TRUNCATE"
  <2>1. Applied(t, o) = Truncated(t, o.path) /\ o.type \notin Makes
    BY <1>9 DEF Applied, Makes
  <2> QED BY <1>1, <2>1, TruncatedKeeps
<1>10. o.type \in TreeTypes
  BY DEF AnyOperation
<1> QED BY <1>2, <1>3, <1>4, <1>5, <1>6, <1>7, <1>8, <1>9, <1>10 DEF TreeTypes, Announced

(* What is announced. *)
Commands == [type : Announced, path : Seq(Names), to : Seq(Names)]

LEMMA AnnouncementType ==
    ASSUME NEW n \in Nat, n > 1, NEW t, Table(t, n), NEW o \in AnyOperation, KernelAllows(t, o), o.type \in Announced
    PROVE  Announcement(t, o) \in Commands
<1>1. /\ INodeAt(t, Parent(o.path)) \in 0 .. n - 1 /\ o.path \in Seq(Names) /\ o.to \in Seq(Names)
      /\ o.type \notin Makes => INodeAt(t, o.path) \in 0 .. n - 1
      /\ o.type = "RENAME" => INodeAt(t, Parent(o.to)) \in 0 .. n - 1 /\ o.to # <<>>
      /\ o.type # "DELETE_DIR" => o.path # <<>>
  BY AllowedPaths
<1>2. ASSUME NEW ino \in 0 .. n - 1 PROVE t[ino].dir_name \in Seq(Names)
  BY TableFacts, INodeFields
<1>3. ASSUME NEW path \in Seq(Names), path # <<>>, INodeAt(t, Parent(path)) \in 0 .. n - 1
      PROVE  SentPath(t, path) \in Seq(Names)
  <2>1. PICK names : names = t[INodeAt(t, Parent(path))].dir_name
    OBVIOUS
  <2>2. names \in Seq(Names) /\ Leaf(path) \in Names
    BY <1>2, <1>3, <2>1, PathFacts
  <2>3. Append(names, Leaf(path)) \in Seq(Names)
    BY <2>2
  <2> QED BY <2>1, <2>3 DEF SentPath
<1>4. o.type = "DELETE_DIR" => t[INodeAt(t, o.path)].dir_name \in Seq(Names)
  BY <1>1, <1>2 DEF Makes
<1>5. o.type # "DELETE_DIR" => SentPath(t, o.path) \in Seq(Names)
  BY <1>1, <1>3
<1>6. o.type = "RENAME" => SentPath(t, o.to) \in Seq(Names)
  BY <1>1, <1>3
<1>7. <<>> \in Seq(Names)
  OBVIOUS
<1> QED BY <1>4, <1>5, <1>6, <1>7 DEF Announcement, Commands
-----------------------------------------------------------------------------
(* Types.                                                                  *)

FuseStates == [at : {"starting", "loop", "unmounted", "finished", "failed"}]
              \cup [at : {"announce", "reset"}, op : Commands]
              \cup [at : {"scatter", "gather"}, call : Calls]
RecvStates == [at : {"request", "terminated"}]
              \cup [at : {"body"}, type : Announced \cup {"WRITE", "READ"}, source : Ranks]
              \cup [at : {"syscall"}, type : Announced, op : Commands]
              \cup [at : {"close"}, type : {"CREATE_FILE"}]
              \cup [at : {"scatter", "gather"}, call : Calls]

PartsType(c) == IF c.type = "WRITE" THEN Blobs ELSE Addresses
ContributedType(c) == IF c.type = "WRITE" THEN Addresses ELSE Blobs \cup {Garbage}
ExchangeTyped(e) ==
    /\ e.call \in Calls
    /\ e.parts \in Seq(PartsType(e.call)) /\ Len(e.parts) = NumberOfBlocks(e.call.fileSize)
    /\ \A r \in DOMAIN e.gathered : /\ e.gathered[r] \in Seq(ContributedType(e.call))
                                    /\ Len(e.gathered[r]) = EffectiveBlocks(Len(e.parts), r)

ThreadsTyped == fuse \in [Ranks -> FuseStates] /\ recv \in [Ranks -> RecvStates]
NetTyped == net \in [Ranks -> [Ranks -> Seq(Messages)]]
TreesTyped == DOMAIN tree = Ranks /\ \A p \in Ranks : \E n \in 2 .. MaxINodes : Table(tree[p], n)
StoreTyped == /\ blockList \in [Ranks -> [Files -> Seq(Addresses)]]
              /\ heap \in [Ranks -> Seq(Blobs)]
              /\ \A k \in 1 .. Len(exchanges) : ExchangeTyped(exchanges[k])
              /\ readBuff \in Seq(Blobs \cup {Garbage})
              /\ issued \in Nat
HistoryTyped == /\ applied \in [Ranks -> Seq(AnyOperation)]
                /\ unmountFromThread \in [Ranks -> BOOLEAN]

(* A receiving thread between its two collectives is in the exchange it joined. *)
InNext == \A p \in Ranks : recv[p].at = "gather" =>
    /\ pos[p] \in 1 .. Len(exchanges)
    /\ recv[p].call = exchanges[pos[p]].call
    /\ recv[p].call.type = "WRITE"

TypeInv == /\ ThreadsTyped /\ NetTyped /\ TreesTyped /\ StoreTyped /\ HistoryTyped
           /\ InNext
-----------------------------------------------------------------------------
LEMMA FuseStateFacts ==
    ASSUME NEW f \in FuseStates
    PROVE  /\ f.at \in Places
           /\ f.at \in {"announce", "reset"} => f.op \in Commands
           /\ f.at \in {"scatter", "gather"} => f.call \in Calls
  BY DEF FuseStates, Places

LEMMA RecvStateFacts ==
    ASSUME NEW r \in RecvStates
    PROVE  /\ r.at \in {"request", "body", "syscall", "close", "scatter", "gather", "terminated"}
           /\ r.at = "syscall" => r.op \in Commands /\ r.type \in Announced
           /\ r.at \in {"scatter", "gather"} => r.call \in Calls
  BY DEF RecvStates

LEMMA AtType ==
    /\ \A place \in {"starting", "loop", "unmounted", "finished", "failed"} : At(place) \in FuseStates
    /\ \A place \in {"request", "terminated"} : At(place) \in RecvStates
  BY DEF At, FuseStates, RecvStates

(* TypeOK of the model. *)
LEMMA InvTypes == ASSUME IInv, TypeInv PROVE TypeOK
<1>1. ASSUME NEW p \in Ranks
      PROVE  /\ fuse[p].at \in Places
             /\ fuse[p].at \in {"announce", "reset"} => fuse[p].op \in Requests \ Calls
             /\ fuse[p].at \in {"scatter", "gather"} => fuse[p].call \in Calls
             /\ recv[p].at \in {"request", "body", "syscall", "close", "scatter", "gather", "terminated"}
  <2>1. fuse[p] \in FuseStates /\ recv[p] \in RecvStates
    BY DEF TypeInv, ThreadsTyped
  <2>2. Commands \subseteq Requests \ Calls
    <3>1. ASSUME NEW c \in Commands PROVE c \in Requests /\ c \notin Calls
      BY DEF Commands, Requests, Calls, Announced
    <3> QED BY <3>1
  <2> QED BY <2>1, <2>2, FuseStateFacts, RecvStateFacts
<1>2. ASSUME NEW p \in Ranks
      PROVE  LET last == Cardinality(DOMAIN tree[p]) - 1
             IN  tree[p] \in [0 .. last -> INodeRecords(0 .. last)]
  <2>1. PICK n \in 2 .. MaxINodes : Table(tree[p], n)
    BY DEF TypeInv, TreesTyped
  <2>2. n \in Nat /\ n > 1
    BY <2>1, PeerToPeerAssumption
  <2>3. Cardinality(DOMAIN tree[p]) = n
    BY <2>1, <2>2, TableFacts DEF NextINode
  <2> QED BY <2>1, <2>3 DEF Table
<1>3. pos \in [Ranks -> 0 .. Len(exchanges)]
  <2>1. pos \in [Ranks -> Nat] /\ Len(exchanges) \in Nat
    BY SequencesThere DEF IInv, Shape
  <2>2. ASSUME NEW p \in Ranks PROVE pos[p] <= Len(exchanges)
    <3>1. CASE AllMounted
      <4>1. Working(user) /\ user \in Ranks
        BY <3>1 DEF IInv, Shape
      <4>2. CASE p = user
        BY <2>1, <4>1, <4>2 DEF Working, Leads
      <4>3. CASE p # user
        <5>1. Contributes(user, p)
          BY <4>1, <4>3 DEF Working, Follows, Others
        <5> QED BY <2>1, <5>1 DEF Contributes
      <4> QED BY <4>2, <4>3
    <3>2. CASE ~AllMounted
      BY <2>1, <3>2 DEF IInv, Resting
    <3> QED BY <3>1, <3>2
  <2> QED BY <2>1, <2>2
<1>4. /\ mounted \in [Ranks -> BOOLEAN] /\ unmountFromThread \in [Ranks -> BOOLEAN]
      /\ fromThread \in [Ranks -> [Announced -> BOOLEAN]]
      /\ net \in [Ranks -> [Ranks -> Seq(Messages)]]
      /\ blockList \in [Ranks -> [Files -> Seq(Addresses)]]
      /\ heap \in [Ranks -> Seq(Blobs)]
      /\ readBuff \in Seq(Blobs \cup {Garbage})
      /\ applied \in [Ranks -> Seq([type : TreeTypes, path : Seq(Names), to : Seq(Names)])]
  BY DEF IInv, Shape, TypeInv, NetTyped, StoreTyped, HistoryTyped, AnyOperation
<1> QED BY <1>1, <1>2, <1>3, <1>4 DEF TypeOK

LEMMA InitTyped == ASSUME Init PROVE TypeInv
<1>1. ThreadsTyped /\ NetTyped
  BY AtType DEF Init, ThreadsTyped, NetTyped
<1>2. TreesTyped
  <2>1. 2 \in 2 .. MaxINodes
    BY PeerToPeerAssumption
  <2>2. NewINode("SPECIAL", 0) \in INodeRecords(0 .. 2 - 1) /\ NewINode("DIRECTORY", 3) \in INodeRecords(0 .. 2 - 1)
    BY DEF NewINode, INodeRecords
  <2>3. {Special, Root} = 0 .. 2 - 1
    BY DEF Special, Root
  <2>4. NewINode("SPECIAL", 0).type = "SPECIAL" /\ NewINode("DIRECTORY", 3).type = "DIRECTORY"
    BY DEF NewINode
  <2>5. Table(InitialTable, 2)
    BY <2>2, <2>3, <2>4 DEF Table, InitialTable, Special, Root
  <2> QED BY <2>1, <2>5 DEF Init, TreesTyped
<1>3. StoreTyped /\ HistoryTyped
  BY DEF Init, StoreTyped, HistoryTyped
<1>4. InNext
  BY DEF Init, InNext, At
<1> QED BY <1>1, <1>2, <1>3, <1>4 DEF TypeInv

LEMMA MessageType ==
    /\ \A type \in Announced \cup {"WRITE", "READ", "TERMINATE"} : Header(type) \in Messages
    /\ \A c \in Requests : Body(c) \in Messages
    /\ \A m \in Messages : /\ m.part = "header" => m.type \in Announced \cup {"WRITE", "READ", "TERMINATE"}
                           /\ m.part = "body" => m.content \in Requests
    /\ \A c \in Calls : c \in Requests /\ c.type \in {"WRITE", "READ"}
    /\ \A c \in Commands : c \in Requests /\ c.type \in Announced
  BY DEF Header, Body, Messages, Requests, Calls, Commands, Announced

LEMMA NetSent ==
    ASSUME NetTyped, NEW p \in Ranks, NEW row \in [Ranks -> Seq(Messages)], net' = [net EXCEPT ![p] = row]
    PROVE  NetTyped'
  BY DEF NetTyped

LEMMA NetReceived ==
    ASSUME NetTyped, NEW q \in Ranks, NEW p \in Ranks, net[q][p] # <<>>, Receive(q, p)
    PROVE  NetTyped' /\ Head(net[q][p]) \in Messages
<1>1. net[q][p] \in Seq(Messages) /\ net \in [Ranks -> [Ranks -> Seq(Messages)]]
  BY DEF NetTyped
<1>2. Head(net[q][p]) \in Messages /\ Tail(net[q][p]) \in Seq(Messages)
  BY <1>1
<1>3. net' = [net EXCEPT ![q][p] = Tail(net[q][p])]
  BY DEF Receive
<1> QED BY <1>1, <1>2, <1>3 DEF NetTyped

LEMMA RequestSent ==
    ASSUME NetTyped, NEW p \in Ranks, NEW c \in Requests, NEW own \in BOOLEAN,
           net' = [net EXCEPT ![p] = [q \in Ranks |->
               IF q = p THEN IF own THEN Append(@[q], Header(c.type)) ELSE @[q]
               ELSE @[q] \o <<Header(c.type), Body(c)>>]]
    PROVE  NetTyped'
<1> DEFINE row == [q \in Ranks |->
               IF q = p THEN IF own THEN Append(net[p][q], Header(c.type)) ELSE net[p][q]
               ELSE net[p][q] \o <<Header(c.type), Body(c)>>]
<1>1. PICK h \in Messages, b \in Messages : h = Header(c.type) /\ b = Body(c)
  BY MessageType DEF Requests
<1>2. ASSUME NEW q \in Ranks
      PROVE  /\ net[p][q] \in Seq(Messages) /\ Append(net[p][q], h) \in Seq(Messages)
             /\ net[p][q] \o <<h, b>> \in Seq(Messages)
  <2>1. net[p][q] \in Seq(Messages)
    BY DEF NetTyped
  <2>2. <<h, b>> \in Seq(Messages)
    OBVIOUS
  <2> QED BY <2>1, <2>2
<1>3. row \in [Ranks -> Seq(Messages)]
  BY <1>1, <1>2
<1>4. net' = [net EXCEPT ![p] = row]
  OBVIOUS
<1> HIDE DEF row
<1> QED BY <1>3, <1>4, NetSent

(* The parts of TypeInv that a step leaves as they are. *)
LEMMA TreesStill == ASSUME TreesTyped, UNCHANGED tree PROVE TreesTyped'
  BY DEF TreesTyped
LEMMA StoreStill ==
    ASSUME StoreTyped, UNCHANGED <<blockList, heap, exchanges, readBuff, issued>>
    PROVE  StoreTyped'
  BY DEF StoreTyped, ExchangeTyped, PartsType, ContributedType
LEMMA HistoryStill == ASSUME HistoryTyped, UNCHANGED <<applied, unmountFromThread>> PROVE HistoryTyped'
  BY DEF HistoryTyped
LEMMA NextStill == ASSUME InNext, UNCHANGED <<recv, pos, exchanges>> PROVE InNext'
  BY DEF InNext
LEMMA NextElsewhere ==
    ASSUME InNext, ThreadsTyped, NEW p \in Ranks, UNCHANGED <<pos, exchanges>>, NEW r, r.at # "gather", recv' = [recv EXCEPT ![p] = r]
    PROVE  InNext'
  BY DEF InNext, ThreadsTyped

LEMMA FuseMoved ==
    ASSUME ThreadsTyped, NEW p \in Ranks, NEW f \in FuseStates, fuse' = [fuse EXCEPT ![p] = f], UNCHANGED recv
    PROVE  ThreadsTyped'
  BY DEF ThreadsTyped
LEMMA RecvMoved ==
    ASSUME ThreadsTyped, NEW p \in Ranks, NEW r \in RecvStates, recv' = [recv EXCEPT ![p] = r], UNCHANGED fuse
    PROVE  ThreadsTyped'
  BY DEF ThreadsTyped

(* The start and the end of a peer. *)
LEMMA EndsTyped ==
    ASSUME TypeInv, NEW p \in Ranks,
           Mount(p) \/ StartFails(p) \/ MountFails(p) \/ Unmount(p) \/ LoopEnds(p) \/ SendTermination(p)
    PROVE  TypeInv'
<1>1. UNCHANGED <<recv, tree, blockList, heap, exchanges, pos, readBuff, issued, applied, unmountFromThread>>
  BY DEF Mount, StartFails, MountFails, Unmount, LoopEnds, SendTermination, dataVars, userVars
<1>2. TreesTyped' /\ StoreTyped' /\ HistoryTyped' /\ InNext'
  BY <1>1, TreesStill, StoreStill, HistoryStill, NextStill DEF TypeInv
<1>3. ThreadsTyped'
  <2>1. PICK f \in FuseStates : fuse' = fuse \/ fuse' = [fuse EXCEPT ![p] = f]
    BY AtType DEF Mount, StartFails, MountFails, Unmount, LoopEnds, SendTermination
  <2> QED BY <1>1, <2>1, FuseMoved DEF TypeInv, ThreadsTyped
<1>4. NetTyped'
  <2>1. CASE net' = net
    BY <2>1 DEF TypeInv, NetTyped
  <2>2. CASE net' # net
    <3>1. net' = [net EXCEPT ![p] = [q \in Ranks |-> Append(@[q], Header("TERMINATE"))]]
      BY <2>2 DEF Mount, StartFails, MountFails, Unmount, LoopEnds, SendTermination
    <3>2. [q \in Ranks |-> Append(net[p][q], Header("TERMINATE"))] \in [Ranks -> Seq(Messages)]
      BY MessageType DEF TypeInv, NetTyped
    <3> QED BY <3>1, <3>2, NetSent DEF TypeInv
  <2> QED BY <2>1, <2>2
<1> QED BY <1>2, <1>3, <1>4 DEF TypeInv

LEMMA AnnounceTyped == ASSUME TypeInv, NEW p \in Ranks, Announce(p) PROVE TypeInv'
<1>1. UNCHANGED <<recv, tree, blockList, heap, exchanges, pos, readBuff, issued, applied, unmountFromThread>>
  BY DEF Announce, dataVars, userVars
<1>2. TreesTyped' /\ StoreTyped' /\ HistoryTyped' /\ InNext'
  BY <1>1, TreesStill, StoreStill, HistoryStill, NextStill DEF TypeInv
<1>3. PICK o \in Commands : o = fuse[p].op
  BY FuseStateFacts DEF Announce, TypeInv, ThreadsTyped
<1>4. ThreadsTyped'
  <2>1. [at |-> "reset", op |-> o] \in FuseStates
    BY DEF FuseStates
  <2>2. \E f \in FuseStates : fuse' = [fuse EXCEPT ![p] = f]
    BY <1>3, <2>1, AtType DEF Announce
  <2> QED BY <1>1, <2>2, FuseMoved DEF TypeInv
<1>5. NetTyped'
  <2>1. CASE net' = net
    BY <2>1 DEF TypeInv, NetTyped
  <2>2. CASE Broadcast(p, o)
    <3>1. net' = [net EXCEPT ![p] = [q \in Ranks |->
               IF q = p THEN IF TRUE THEN Append(@[q], Header(o.type)) ELSE @[q]
               ELSE @[q] \o <<Header(o.type), Body(o)>>]]
      BY <2>2 DEF Broadcast
    <3> QED BY <3>1, RequestSent, MessageType DEF TypeInv
  <2> QED BY <1>3, <2>1, <2>2 DEF Announce
<1> QED BY <1>2, <1>4, <1>5 DEF TypeInv

LEMMA ResetTyped == ASSUME TypeInv, NEW p \in Ranks, ResetFlag(p) PROVE TypeInv'
<1>1. UNCHANGED <<recv, net, tree, blockList, heap, exchanges, pos, readBuff, issued, applied, unmountFromThread>>
  BY DEF ResetFlag, dataVars, userVars
<1>2. TreesTyped' /\ StoreTyped' /\ HistoryTyped' /\ InNext' /\ NetTyped'
  BY <1>1, TreesStill, StoreStill, HistoryStill, NextStill DEF TypeInv, NetTyped
<1>3. ThreadsTyped'
  BY <1>1, FuseMoved, AtType DEF TypeInv, ResetFlag
<1> QED BY <1>2, <1>3 DEF TypeInv

LEMMA ReplayCloseTyped == ASSUME TypeInv, NEW p \in Ranks, ReplayClose(p) PROVE TypeInv'
<1>1. UNCHANGED <<fuse, net, tree, blockList, heap, exchanges, pos, readBuff, issued, applied, unmountFromThread>>
  BY DEF ReplayClose, dataVars, userVars
<1>2. TreesTyped' /\ StoreTyped' /\ HistoryTyped' /\ NetTyped'
  BY <1>1, TreesStill, StoreStill, HistoryStill DEF TypeInv, NetTyped
<1>3. ThreadsTyped'
  BY <1>1, RecvMoved, AtType DEF TypeInv, ReplayClose
<1>4. InNext'
  BY <1>1, NextElsewhere DEF TypeInv, ReplayClose, At
<1> QED BY <1>2, <1>3, <1>4 DEF TypeInv

(* What the receiving thread receives. *)
LEMMA ReceivedTyped ==
    ASSUME TypeInv, NEW q \in Ranks, NEW p \in Ranks, RecvHeader(q, p) \/ RecvBody(q, p) \/ RecvTerminate(q, p)
    PROVE  TypeInv'
<1>1. /\ UNCHANGED <<fuse, tree, blockList, heap, exchanges, pos, readBuff, issued, applied>>
      /\ Receive(q, p) /\ net[q][p] # <<>>
  BY DEF RecvHeader, RecvBody, RecvTerminate, dataVars, userVars
<1>2. NetTyped' /\ Head(net[q][p]) \in Messages
  BY <1>1, NetReceived DEF TypeInv
<1>3. PICK m \in Messages : m = Head(net[q][p])
  BY <1>2
<1>4. TreesTyped' /\ StoreTyped'
  BY <1>1, TreesStill, StoreStill DEF TypeInv
<1>5. HistoryTyped'
  BY <1>1 DEF TypeInv, HistoryTyped, RecvHeader, RecvBody, RecvTerminate
<1>6. recv' = recv \/ \E r \in RecvStates : r.at # "gather" /\ recv' = [recv EXCEPT ![p] = r]
  <2>1. CASE RecvTerminate(q, p)
    BY <2>1, AtType DEF RecvTerminate, At
  <2>2. CASE RecvHeader(q, p)
    <3>1. m.type \in Announced \cup {"WRITE", "READ"}
      BY <1>3, <2>2, MessageType DEF RecvHeader
    <3>2. PICK r : r = [at |-> "body", type |-> m.type, source |-> q]
      OBVIOUS
    <3>3. r \in RecvStates /\ r.at # "gather"
      BY <3>1, <3>2 DEF RecvStates
    <3> QED BY <1>3, <2>2, <3>2, <3>3 DEF RecvHeader
  <2>3. CASE RecvBody(q, p)
    <3>1. PICK c \in Requests : c = m.content
      BY <1>3, <2>3, MessageType DEF RecvBody
    <3>2. CASE c.type \in Announced
      <4>1. c \in Commands
        BY <3>2 DEF Requests, Calls, Commands, Announced
      <4>2. PICK r : r = [at |-> "syscall", type |-> c.type, op |-> c]
        OBVIOUS
      <4>3. r \in RecvStates /\ r.at # "gather"
        BY <3>2, <4>1, <4>2 DEF RecvStates
      <4> QED BY <1>3, <2>3, <3>1, <3>2, <4>2, <4>3 DEF RecvBody
    <3>3. CASE c.type \notin Announced
      <4>1. c \in Calls
        BY <3>3 DEF Requests, Calls
      <4>2. PICK r : r = IF c.type = "READ" /\ c.fileSize = 0 THEN At("request") ELSE [at |-> "scatter", call |-> c]
        OBVIOUS
      <4>3. r \in RecvStates /\ r.at # "gather"
        BY <4>1, <4>2 DEF RecvStates, At
      <4> QED BY <1>3, <2>3, <3>1, <3>3, <4>2, <4>3 DEF RecvBody
    <3> QED BY <3>2, <3>3
  <2> QED BY <2>1, <2>2, <2>3
<1>7. ThreadsTyped' /\ InNext'
  <2>1. CASE recv' = recv
    BY <1>1, <2>1, NextStill DEF TypeInv, ThreadsTyped
  <2>2. CASE \E r \in RecvStates : r.at # "gather" /\ recv' = [recv EXCEPT ![p] = r]
    BY <1>1, <2>2, RecvMoved, NextElsewhere DEF TypeInv
  <2> QED BY <1>6, <2>1, <2>2
<1> QED BY <1>2, <1>4, <1>5, <1>7 DEF TypeInv

LEMMA StutterTyped == ASSUME TypeInv, UNCHANGED vars PROVE TypeInv'
<1>1. UNCHANGED <<fuse, recv, net, tree, blockList, heap, exchanges, pos, readBuff, issued, applied, unmountFromThread>>
  BY DEF vars, threadVars, dataVars, userVars
<1>2. TreesTyped' /\ StoreTyped' /\ HistoryTyped' /\ InNext'
  BY <1>1, TreesStill, StoreStill, HistoryStill, NextStill DEF TypeInv
<1> QED BY <1>1, <1>2 DEF TypeInv, ThreadsTyped, NetTyped

LEMMA TreeThere ==
    ASSUME TreesTyped, NEW p \in Ranks
    PROVE  \E n \in 2 .. MaxINodes : Table(tree[p], n) /\ n \in Nat /\ n > 1
  BY PeerToPeerAssumption DEF TreesTyped

LEMMA TreeChanged ==
    ASSUME TreesTyped, NEW p \in Ranks, NEW n \in 2 .. MaxINodes, NEW t, Table(t, n), tree' = [tree EXCEPT ![p] = t]
    PROVE  TreesTyped'
  BY DEF TreesTyped

(* What is carried out leaves a table of no more inodes than there may be. *)
LEMMA AppliedTyped ==
    ASSUME TreesTyped, NEW p \in Ranks, NEW o \in AnyOperation, KernelAllows(tree[p], o), HasRoom(p, o)
    PROVE  \E n \in 2 .. MaxINodes : Table(Applied(tree[p], o), n)
<1>1. PICK n \in 2 .. MaxINodes : Table(tree[p], n) /\ n \in Nat /\ n > 1
  BY TreeThere
<1>2. NextINode(tree[p]) = n
  BY <1>1, TableFacts
<1>3. Table(Applied(tree[p], o), IF o.type \in Makes THEN n + 1 ELSE n)
  BY <1>1, AppliedKeeps
<1>4. (IF o.type \in Makes THEN n + 1 ELSE n) \in 2 .. MaxINodes
  BY <1>1, <1>2, PeerToPeerAssumption DEF HasRoom
<1> QED BY <1>3, <1>4

LEMMA AnyOperations == Operations \subseteq AnyOperation /\ Commands \subseteq AnyOperation
<1>1. Paths \subseteq Seq(Names) /\ <<>> \in Seq(Names) /\ "RENAME" \in TreeTypes /\ Announced \subseteq TreeTypes
  BY PeerToPeerAssumption DEF TreeTypes, Announced
<1> QED BY <1>1 DEF Operations, AnyOperation, Commands

LEMMA AppliedRecorded ==
    ASSUME HistoryTyped, NEW p \in Ranks, NEW o \in AnyOperation, UNCHANGED unmountFromThread,
           applied' = applied \/ applied' = [applied EXCEPT ![p] = Append(@, o)]
    PROVE  HistoryTyped'
<1>1. Append(applied[p], o) \in Seq(AnyOperation)
  BY DEF HistoryTyped
<1>2. [applied EXCEPT ![p] = Append(@, o)] \in [Ranks -> Seq(AnyOperation)]
  BY <1>1 DEF HistoryTyped
<1> QED BY <1>2 DEF HistoryTyped

LEMMA ChangeTyped == ASSUME TypeInv, NEW p \in Ranks, NEW o \in Operations, Change(p, o) PROVE TypeInv'
<1>1. UNCHANGED <<recv, net, blockList, heap, exchanges, pos, readBuff, issued, unmountFromThread>>
  BY DEF Change, dataVars
<1>2. o \in AnyOperation
  BY AnyOperations
<1>3. StoreTyped' /\ InNext' /\ NetTyped' /\ HistoryTyped'
  BY <1>1, <1>2, StoreStill, NextStill, AppliedRecorded DEF TypeInv, NetTyped, Change
<1>4. TreesTyped'
  BY <1>2, AppliedTyped, TreeChanged DEF TypeInv, Change
<1>5. ThreadsTyped'
  <2>1. CASE o.type \in Announced
    <3>1. PICK n \in 2 .. MaxINodes : Table(tree[p], n) /\ n \in Nat /\ n > 1
      BY TreeThere DEF TypeInv
    <3>2. Announcement(tree[p], o) \in Commands
      BY <1>2, <2>1, <3>1, AnnouncementType DEF Change
    <3>3. [at |-> "announce", op |-> Announcement(tree[p], o)] \in FuseStates
      BY <3>2 DEF FuseStates
    <3> QED BY <1>1, <2>1, <3>3, FuseMoved DEF TypeInv, Change
  <2>2. CASE o.type \notin Announced
    BY <1>1, <2>2 DEF TypeInv, ThreadsTyped, Change
  <2> QED BY <2>1, <2>2
<1> QED BY <1>3, <1>4, <1>5 DEF TypeInv

LEMMA ReplayTyped == ASSUME TypeInv, NEW p \in Ranks, Replay(p) PROVE TypeInv'
<1>1. /\ UNCHANGED <<net, blockList, heap, exchanges, pos, readBuff, issued, unmountFromThread>>
      /\ recv[p].at = "syscall" /\ HasRoom(p, recv[p].op)
  BY DEF Replay, dataVars, userVars
<1>2. PICK o \in Commands : o = recv[p].op
  BY <1>1, RecvStateFacts DEF TypeInv, ThreadsTyped
<1>3. o \in AnyOperation /\ o.type \in Announced
  BY AnyOperations, MessageType
<1>4. StoreTyped' /\ NetTyped' /\ HistoryTyped'
  BY <1>1, <1>2, <1>3, StoreStill, AppliedRecorded DEF TypeInv, NetTyped, Replay
<1>5. PICK n \in 2 .. MaxINodes : Table(tree[p], n) /\ n \in Nat /\ n > 1
  BY TreeThere DEF TypeInv
<1>6. TreesTyped'
  <2>1. CASE KernelAllows(tree[p], o) /\ tree' = [tree EXCEPT ![p] = Applied(@, o)]
    BY <1>1, <1>2, <1>3, <2>1, AppliedTyped, TreeChanged DEF TypeInv
  <2>2. CASE IsFile(tree[p], INodeAt(tree[p], o.path)) /\ tree' = [tree EXCEPT ![p] = Truncated(@, o.path)]
    <3>1. INodeAt(tree[p], o.path) \in 0 .. n - 1
      BY <1>3, <1>5, <2>2, DirectoryFound DEF IsFile, AnyOperation
    <3>2. Table(Truncated(tree[p], o.path), n)
      BY <1>5, <3>1, TruncatedKeeps
    <3> QED BY <2>2, <3>2, TreeChanged DEF TypeInv
  <2>3. CASE tree' = [tree EXCEPT ![p] = @]
    <3>1. Table(tree[p], n)
      BY <1>5
    <3> QED BY <2>3, <3>1, TreeChanged DEF TypeInv
  <2> QED BY <1>2, <2>1, <2>2, <2>3 DEF Replay
<1>7. ThreadsTyped' /\ InNext'
  <2>1. PICK r \in RecvStates : r.at # "gather" /\ recv' = [recv EXCEPT ![p] = r]
    <3>1. [at |-> "close", type |-> "CREATE_FILE"] \in RecvStates
      BY DEF RecvStates
    <3>2. CASE recv' = [recv EXCEPT ![p] = [at |-> "close", type |-> "CREATE_FILE"]]
      BY <3>1, <3>2
    <3>3. CASE recv' = [recv EXCEPT ![p] = At("request")]
      BY <3>3, AtType DEF At
    <3> QED BY <3>2, <3>3 DEF Replay
  <2>2. fuse' = fuse \/ \E f \in FuseStates : fuse' = [fuse EXCEPT ![p] = f]
    <3>1. CASE KernelAllows(tree[p], o)
      <4>1. Announcement(tree[p], o) \in Commands
        BY <1>3, <1>5, <3>1, AnnouncementType
      <4>2. [at |-> "announce", op |-> Announcement(tree[p], o)] \in FuseStates
        BY <4>1 DEF FuseStates
      <4> QED BY <1>2, <4>2 DEF Replay
    <3>2. CASE ~KernelAllows(tree[p], o)
      BY <1>2, <3>2 DEF Replay
    <3> QED BY <3>1, <3>2
  <2>3. ThreadsTyped'
    BY <2>1, <2>2 DEF TypeInv, ThreadsTyped
  <2> QED BY <1>1, <2>1, <2>3, NextElsewhere DEF TypeInv
<1> QED BY <1>4, <1>6, <1>7 DEF TypeInv

LEMMA FileNumber ==
    ASSUME TreesTyped, NEW p \in Ranks, NEW path \in Paths, IsFile(tree[p], INodeAt(tree[p], path))
    PROVE  /\ INodeAt(tree[p], path) \in Files /\ INodeAt(tree[p], path) \in DOMAIN tree[p]
           /\ tree[p][INodeAt(tree[p], path)].st_size \in Nat
<1>1. PICK n \in 2 .. MaxINodes : Table(tree[p], n) /\ n \in Nat /\ n > 1
  BY TreeThere
<1>2. PICK ino : ino = INodeAt(tree[p], path)
  OBVIOUS
<1>3. path \in Seq(Names)
  BY PeerToPeerAssumption
<1>4. ino \in 0 .. n - 1
  BY <1>1, <1>2, <1>3, DirectoryFound DEF IsFile
<1>5. ino # Special /\ ino # Root
  BY <1>1, <1>2 DEF IsFile, Table
<1>6. ino \in Files
  BY <1>4, <1>5, PeerToPeerAssumption DEF Files, Special, Root
<1>7. DOMAIN tree[p] = 0 .. n - 1 /\ tree[p][ino] \in INodeRecords(0 .. n - 1)
  BY <1>1, <1>4, TableFacts
<1> QED BY <1>2, <1>4, <1>6, <1>7, INodeFields

(* The sizes of one inode of p are set. *)
SizeSet(p, ino, size, blocks) == tree' = [tree EXCEPT ![p][ino].st_size = size, ![p][ino].st_blocks = blocks]

LEMMA SizeIsSet ==
    ASSUME DOMAIN tree = Ranks, NEW p \in Ranks, NEW n \in Nat, n > 1, Table(tree[p], n),
           NEW ino \in 0 .. n - 1, NEW size, NEW blocks, SizeSet(p, ino, size, blocks)
    PROVE  tree' = [tree EXCEPT ![p] = SetSize(tree[p], ino, size, blocks)]
<1>1. DOMAIN tree[p] = 0 .. n - 1
  BY TableFacts
<1> QED BY <1>1 DEF SetSize, SizeSet

LEMMA FlushTyped ==
    ASSUME TypeInv, NEW p \in Ranks, NEW path \in Paths, NEW size \in FileSizes, FuseFlush(p, path, size)
    PROVE  TypeInv'
<1>1. /\ UNCHANGED <<recv, blockList, heap, exchanges, pos, readBuff, applied, unmountFromThread>>
      /\ issued' = issued + 1 /\ IsFile(tree[p], INodeAt(tree[p], path))
  BY DEF FuseFlush, dataVars
<1>2. PICK ino : ino = INodeAt(tree[p], path)
  OBVIOUS
<1>3. PICK n \in 2 .. MaxINodes : Table(tree[p], n) /\ n \in Nat /\ n > 1
  BY TreeThere DEF TypeInv
<1>4. ino \in Files /\ ino \in 0 .. n - 1
  BY <1>1, <1>2, <1>3, FileNumber, TableFacts DEF TypeInv
<1>5. size \in Nat /\ NumberOfBlocks(size) \in Nat
  BY PeerToPeerAssumption, NumberOfBlocksType
<1>6. PICK c : c = [type |-> "WRITE", source |-> p, inode |-> ino, fileSize |-> size]
  OBVIOUS
<1>7. c \in Calls /\ c \in Requests /\ [at |-> "scatter", call |-> c] \in FuseStates
  BY <1>4, <1>5, <1>6 DEF Calls, Requests, FuseStates
<1>8. InNext' /\ HistoryTyped'
  BY <1>1, NextStill, HistoryStill DEF TypeInv
<1>9. StoreTyped'
  BY <1>1 DEF TypeInv, StoreTyped, ExchangeTyped, PartsType, ContributedType
<1>10. ThreadsTyped'
  BY <1>1, <1>2, <1>6, <1>7, FuseMoved DEF TypeInv, FuseFlush
<1>11. NetTyped'
  <2>1. net' = [net EXCEPT ![p] = [q \in Ranks |->
               IF q = p THEN IF FALSE THEN Append(@[q], Header(c.type)) ELSE @[q]
               ELSE @[q] \o <<Header(c.type), Body(c)>>]]
    BY <1>2, <1>6 DEF FuseFlush, SendCall
  <2> QED BY <1>7, <2>1, RequestSent DEF TypeInv
<1>12. TreesTyped'
  <2>1. SizeSet(p, ino, size, NumberOfBlocks(size))
    BY <1>2 DEF FuseFlush, SizeSet
  <2>2. tree' = [tree EXCEPT ![p] = SetSize(tree[p], ino, size, NumberOfBlocks(size))]
    BY <1>3, <1>4, <2>1, SizeIsSet DEF TypeInv, TreesTyped
  <2>3. Table(SetSize(tree[p], ino, size, NumberOfBlocks(size)), n)
    BY <1>3, <1>4, <1>5, SetSizeKeeps
  <2> QED BY <2>2, <2>3, TreeChanged DEF TypeInv
<1> QED BY <1>8, <1>9, <1>10, <1>11, <1>12 DEF TypeInv

LEMMA OpenTyped == ASSUME TypeInv, NEW p \in Ranks, NEW path \in Paths, FuseOpen(p, path) PROVE TypeInv'
<1>1. /\ UNCHANGED <<recv, tree, blockList, heap, exchanges, pos, applied, unmountFromThread>>
      /\ issued' = issued + 1 /\ IsFile(tree[p], INodeAt(tree[p], path))
      /\ readBuff' = <<>> \/ readBuff' = readBuff
  BY DEF FuseOpen, dataVars
<1>2. PICK ino : ino = INodeAt(tree[p], path)
  OBVIOUS
<1>3. ino \in Files /\ tree[p][ino].st_size \in Nat
  BY <1>1, <1>2, FileNumber DEF TypeInv
<1>4. PICK c : c = [type |-> "READ", source |-> p, inode |-> ino, fileSize |-> tree[p][ino].st_size]
  OBVIOUS
<1>5. c \in Calls /\ c \in Requests /\ [at |-> "scatter", call |-> c] \in FuseStates
  BY <1>3, <1>4 DEF Calls, Requests, FuseStates
<1>6. InNext' /\ HistoryTyped' /\ TreesTyped'
  BY <1>1, NextStill, HistoryStill, TreesStill DEF TypeInv
<1>7. StoreTyped'
  <2>1. readBuff' \in Seq(Blobs \cup {Garbage})
    <3>1. <<>> \in Seq(Blobs \cup {Garbage}) /\ readBuff \in Seq(Blobs \cup {Garbage})
      BY DEF TypeInv, StoreTyped
    <3> QED BY <1>1, <3>1, Zenon
  <2> QED BY <1>1, <2>1 DEF TypeInv, StoreTyped, ExchangeTyped, PartsType, ContributedType
<1>8. ThreadsTyped'
  <2>1. fuse' = fuse \/ fuse' = [fuse EXCEPT ![p] = [at |-> "scatter", call |-> c]]
    BY <1>2, <1>4 DEF FuseOpen
  <2> QED BY <1>1, <1>5, <2>1, FuseMoved DEF TypeInv, ThreadsTyped
<1>9. NetTyped'
  <2>1. net' = [net EXCEPT ![p] = [q \in Ranks |->
               IF q = p THEN IF FALSE THEN Append(@[q], Header(c.type)) ELSE @[q]
               ELSE @[q] \o <<Header(c.type), Body(c)>>]]
    BY <1>2, <1>4 DEF FuseOpen, SendCall
  <2> QED BY <1>5, <2>1, RequestSent DEF TypeInv
<1> QED BY <1>6, <1>7, <1>8, <1>9 DEF TypeInv

(* The transfers of blocks and pointers. *)
LEMMA WhoCalls ==
    ASSUME IInv, NEW p \in Ranks, fuse[p].at \in {"scatter", "gather"}
    PROVE  AllMounted /\ p = user /\ Working(p)
  BY DEF IInv, Resting, Working, Others, Follows

LEMMA NewAddressesType ==
    ASSUME NEW p \in Ranks, NEW k \in Nat, heap \in [Ranks -> Seq(Blobs)]
    PROVE  /\ NewAddresses(p, k) \in Seq(Addresses) /\ Len(NewAddresses(p, k)) = k
           /\ \A i \in 1 .. k : NewAddresses(p, k)[i] = [rank |-> p, id |-> Len(heap[p]) + i]
<1>1. Len(heap[p]) \in Nat /\ Ranks \subseteq 0 .. WorldSize
  BY StripingAssumption DEF Ranks
<1>2. \A i \in 1 .. k : [rank |-> p, id |-> Len(heap[p]) + i] \in Addresses
  BY <1>1 DEF Addresses
<1>3. NewAddresses(p, k) \in [1 .. k -> Addresses]
  BY <1>2 DEF NewAddresses
<1> QED BY <1>3, FunctionIsSeq DEF NewAddresses

LEMMA DerefType ==
    ASSUME NEW p \in Ranks, heap \in [Ranks -> Seq(Blobs)], NEW address
    PROVE  Deref(p, address) \in Blobs \cup {Garbage}
<1>1. heap[p] \in Seq(Blobs)
  OBVIOUS
<1>2. IsLocal(p, address) => heap[p][address.id] \in Blobs
  BY <1>1, ElementOfSeq DEF IsLocal
<1> QED BY <1>2 DEF Deref

LEMMA ContributionType ==
    ASSUME NEW p \in Ranks, NEW c \in Calls, NEW share \in Seq(PartsType(c)), heap \in [Ranks -> Seq(Blobs)]
    PROVE  /\ Contribution(p, c, share) \in Seq(ContributedType(c))
           /\ Len(Contribution(p, c, share)) = Len(share)
           /\ Stored(p, c, share) \in [Ranks -> Seq(Blobs)]
<1>1. CASE c.type = "WRITE"
  <2>1. heap[p] \o share \in Seq(Blobs) /\ Len(share) \in Nat
    BY <1>1 DEF PartsType
  <2> QED BY <1>1, <2>1, NewAddressesType DEF Contribution, ContributedType, Stored
<1>2. CASE c.type # "WRITE"
  <2>1. Len(share) \in Nat /\ DOMAIN share = 1 .. Len(share)
    OBVIOUS
  <2>2. [i \in DOMAIN share |-> Deref(p, share[i])] \in [1 .. Len(share) -> Blobs \cup {Garbage}]
    BY <2>1, DerefType
  <2>3. /\ Contribution(p, c, share) = [i \in DOMAIN share |-> Deref(p, share[i])]
        /\ Stored(p, c, share) = heap /\ ContributedType(c) = Blobs \cup {Garbage}
    BY <1>2 DEF Contribution, Stored, ContributedType
  <2> QED BY <2>1, <2>2, <2>3, FunctionIsSeq
<1> QED BY <1>1, <1>2

LEMMA BufferType ==
    ASSUME NEW w \in Nat, NEW n \in Nat
    PROVE  Buffer(w, n) \in Seq(Blobs) /\ Len(Buffer(w, n)) = n
<1>1. Buffer(w, n) \in [1 .. n -> Blobs]
  BY DEF Buffer, Blobs
<1> QED BY <1>1, FunctionIsSeq

LEMMA PointersType ==
    ASSUME NEW p \in Ranks, NEW ino \in Files, NEW n \in Nat, blockList \in [Ranks -> [Files -> Seq(Addresses)]]
    PROVE  Pointers(p, ino, n) \in Seq(Addresses) /\ Len(Pointers(p, ino, n)) = n
<1>1. blockList[p][ino] \in Seq(Addresses)
  OBVIOUS
<1>2. [rank |-> WorldSize, id |-> 0] \in Addresses
  BY StripingAssumption DEF Addresses
<1>3. \A b \in 1 .. n : b <= Len(blockList[p][ino]) => blockList[p][ino][b] \in Addresses
  BY <1>1
<1>4. Pointers(p, ino, n) \in [1 .. n -> Addresses]
  BY <1>2, <1>3 DEF Pointers
<1> QED BY <1>4, FunctionIsSeq

(* The exchange that a root begins. *)
LEMMA Begun ==
    ASSUME StoreTyped, NEW p \in Ranks, NEW c \in Calls
    PROVE  LET n     == NumberOfBlocks(c.fileSize)
               parts == IF c.type = "WRITE" THEN Buffer(issued, n) ELSE Pointers(p, c.inode, n)
               share == ScatterPart(parts, p)
           IN  /\ ExchangeTyped([call |-> c, parts |-> parts, gathered |-> [q \in {p} |-> Contribution(p, c, share)]])
               /\ Stored(p, c, share) \in [Ranks -> Seq(Blobs)]
<1> DEFINE n == NumberOfBlocks(c.fileSize)
           parts == IF c.type = "WRITE" THEN Buffer(issued, n) ELSE Pointers(p, c.inode, n)
           share == ScatterPart(parts, p)
           e == [call |-> c, parts |-> parts, gathered |-> [q \in {p} |-> Contribution(p, c, share)]]
<1>1. n \in Nat /\ c.inode \in Files
  BY NumberOfBlocksType DEF Calls
<1>2. parts \in Seq(PartsType(c)) /\ Len(parts) = n
  BY <1>1, BufferType, PointersType DEF PartsType, StoreTyped
<1> HIDE DEF parts
<1>3. share \in Seq(PartsType(c)) /\ Len(share) = EffectiveBlocks(Len(parts), p)
  BY <1>2, ScatterPartType
<1> HIDE DEF share
<1>4. /\ Contribution(p, c, share) \in Seq(ContributedType(c))
      /\ Len(Contribution(p, c, share)) = EffectiveBlocks(Len(parts), p)
      /\ Stored(p, c, share) \in [Ranks -> Seq(Blobs)]
  BY <1>3, ContributionType DEF StoreTyped
<1>5. ExchangeTyped(e)
  BY <1>2, <1>4 DEF ExchangeTyped
<1> QED BY <1>4, <1>5 DEF parts, share

LEMMA ScatterTyped == ASSUME IInv, TypeInv, NEW p \in Ranks, FuseScatter(p) PROVE TypeInv'
<1>1. PICK c \in Calls : c = fuse[p].call
  BY FuseStateFacts DEF TypeInv, ThreadsTyped, FuseScatter
<1>2. PICK e : /\ ExchangeTyped(e) /\ exchanges' = Append(exchanges, e)
               /\ heap' \in [Ranks -> Seq(Blobs)]
  BY <1>1, Begun DEF FuseScatter, TypeInv
<1>3. /\ UNCHANGED <<recv, net, tree, blockList, readBuff, issued, applied, unmountFromThread>>
      /\ fuse[p].at = "scatter" /\ fuse' = [fuse EXCEPT ![p].at = "gather"]
      /\ pos' = [pos EXCEPT ![p] = @ + 1]
  BY DEF FuseScatter, userVars
<1>4. TreesTyped' /\ HistoryTyped' /\ NetTyped'
  BY <1>3, TreesStill, HistoryStill DEF TypeInv, NetTyped
<1>5. recv[p].at = "request" /\ IsSeq(exchanges)
  BY <1>3, WhoCalls DEF Working, Leads, IInv, Shape
<1>6. /\ Len(exchanges) \in Nat /\ Len(exchanges') = Len(exchanges) + 1
      /\ \A k \in 1 .. Len(exchanges) : exchanges'[k] = exchanges[k]
      /\ exchanges'[Len(exchanges) + 1] = e
  BY <1>2, <1>5, AppendFacts, SeqFacts
<1>7. StoreTyped'
  <2>1. ASSUME NEW k \in 1 .. Len(exchanges') PROVE ExchangeTyped(exchanges'[k])
    BY <1>2, <1>6 DEF TypeInv, StoreTyped
  <2> QED BY <1>2, <1>3, <2>1 DEF TypeInv, StoreTyped
<1>8. InNext'
  <2>1. ASSUME NEW q \in Ranks, recv[q].at = "gather"
        PROVE  /\ pos'[q] \in 1 .. Len(exchanges') /\ recv[q].call = exchanges'[pos'[q]].call
               /\ recv[q].call.type = "WRITE"
    <3>1. pos'[q] = pos[q]
      BY <1>3, <1>5, <2>1 DEF IInv, Shape
    <3> QED BY <1>6, <2>1, <3>1 DEF TypeInv, InNext
  <2> QED BY <1>3, <2>1 DEF InNext
<1>9. ThreadsTyped'
  <2>1. fuse[p] = [at |-> "scatter", call |-> c]
    BY <1>1, <1>3 DEF TypeInv, ThreadsTyped, FuseStates
  <2>2. [at |-> "gather", call |-> c] \in FuseStates
    BY DEF FuseStates
  <2>3. [fuse[p] EXCEPT !.at = "gather"] = [at |-> "gather", call |-> c]
    BY <2>1
  <2>4. fuse' = [fuse EXCEPT ![p] = [at |-> "gather", call |-> c]]
    BY <1>3, <2>3
  <2> QED BY <1>3, <2>2, <2>4, FuseMoved DEF TypeInv
<1> QED BY <1>4, <1>7, <1>8, <1>9 DEF TypeInv

(* What all peers have given, and the list that it makes. *)
LEMMA GatheredType ==
    ASSUME StoreTyped, NEW p \in Ranks, pos[p] \in 1 .. Len(exchanges), Gathered(p)
    PROVE  /\ GatheredParts(p) \in Seq(ContributedType(exchanges[pos[p]].call))
           /\ Len(GatheredParts(p)) = NumberOfBlocks(exchanges[pos[p]].call.fileSize)
           /\ \A r \in Ranks : \A i \in 1 .. EffectiveBlocks(Len(GatheredParts(p)), r) :
                 GatheredParts(p)[Displ(Len(GatheredParts(p)), r) + i] = exchanges[pos[p]].gathered[r][i]
<1>1. PICK e : e = exchanges[pos[p]]
  OBVIOUS
<1>2. ExchangeTyped(e) /\ DOMAIN e.gathered = Ranks
  BY <1>1 DEF StoreTyped, Gathered
<1>3. Len(e.parts) = NumberOfBlocks(e.call.fileSize) /\ Len(e.parts) \in Nat
  BY <1>2, NumberOfBlocksType DEF ExchangeTyped, Calls
<1>4. \A r \in Ranks : /\ e.gathered[r] \in Seq(ContributedType(e.call))
                       /\ Len(e.gathered[r]) = EffectiveBlocks(Len(e.parts), r)
  BY <1>2 DEF ExchangeTyped
<1>5. PICK n \in Nat : n = Len(e.parts)
  BY <1>3
<1>6. PICK contrib, S : contrib = e.gathered /\ S = ContributedType(e.call)
  OBVIOUS
<1>7. \A r \in Ranks : contrib[r] \in Seq(S) /\ Len(contrib[r]) = EffectiveBlocks(n, r)
  BY <1>4, <1>5, <1>6
<1>8. PICK parts : parts = GatherParts(n, contrib)
  OBVIOUS
<1>9. /\ parts \in Seq(S) /\ Len(parts) = n
      /\ \A r \in Ranks : \A i \in 1 .. EffectiveBlocks(n, r) : parts[Displ(n, r) + i] = contrib[r][i]
  BY <1>7, <1>8, GatherPartsType
<1>10. GatheredParts(p) = parts
  BY <1>1, <1>5, <1>6, <1>8 DEF GatheredParts
<1> QED BY <1>1, <1>3, <1>5, <1>6, <1>9, <1>10

LEMMA ListedType ==
    ASSUME NEW S, NEW list \in Seq(S), NEW addresses \in Seq(S)
    PROVE  /\ Listed(list, addresses) \in Seq(S) /\ Len(Listed(list, addresses)) >= Len(addresses)
           /\ Len(Listed(list, addresses)) \in Nat
           /\ \A b \in 1 .. Len(addresses) : Listed(list, addresses)[b] = addresses[b]
<1> DEFINE rest == SubSeq(list, Len(addresses) + 1, Len(list))
<1>1. rest \in Seq(S)
  <2>1. \A i \in Len(addresses) + 1 .. Len(list) : list[i] \in S
    OBVIOUS
  <2> QED BY <2>1, SubSeqProperties
<1>2. Listed(list, addresses) = addresses \o rest
  BY DEF Listed
<1> HIDE DEF rest
<1> QED BY <1>1, <1>2

LEMMA ListTyped ==
    ASSUME StoreTyped, NEW p \in Ranks, NEW ino \in Files, NEW addresses \in Seq(Addresses)
    PROVE  [blockList EXCEPT ![p][ino] = Listed(@, addresses)] \in [Ranks -> [Files -> Seq(Addresses)]]
<1>1. Listed(blockList[p][ino], addresses) \in Seq(Addresses)
  BY ListedType DEF StoreTyped
<1> QED BY <1>1 DEF StoreTyped

LEMMA GatherTyped == ASSUME IInv, TypeInv, NEW p \in Ranks, FuseGather(p) PROVE TypeInv'
<1>1. PICK c \in Calls : c = fuse[p].call
  BY FuseStateFacts DEF TypeInv, ThreadsTyped, FuseGather
<1>2. /\ UNCHANGED <<recv, net, tree, heap, exchanges, pos, issued, applied, unmountFromThread>>
      /\ fuse[p].at = "gather" /\ fuse' = [fuse EXCEPT ![p] = At("loop")] /\ Gathered(p)
  BY DEF FuseGather, userVars
<1>3. TreesTyped' /\ HistoryTyped' /\ NetTyped' /\ InNext'
  BY <1>2, TreesStill, HistoryStill, NextStill DEF TypeInv, NetTyped
<1>4. ThreadsTyped'
  BY <1>2, FuseMoved, AtType DEF TypeInv
<1>5. pos[p] \in 1 .. Len(exchanges) /\ exchanges[pos[p]].call = c
  <2>1. pos[p] = Len(exchanges) /\ Len(exchanges) > 0 /\ exchanges[Len(exchanges)].call = c
    BY <1>1, <1>2, WhoCalls DEF Working, Leads
  <2>2. Len(exchanges) \in Nat
    BY SequencesThere DEF IInv
  <2> QED BY <2>1, <2>2
<1>6. GatheredParts(p) \in Seq(ContributedType(c))
  BY <1>2, <1>5, GatheredType DEF TypeInv
<1>7. blockList' \in [Ranks -> [Files -> Seq(Addresses)]] /\ readBuff' \in Seq(Blobs \cup {Garbage})
  <2>1. CASE c.type = "WRITE"
    <3>1. c.inode \in Files /\ GatheredParts(p) \in Seq(Addresses)
      BY <1>6, <2>1 DEF Calls, ContributedType
    <3>2. blockList' = [blockList EXCEPT ![p][c.inode] = Listed(@, GatheredParts(p))] /\ readBuff' = readBuff
      BY <1>1, <2>1 DEF FuseGather
    <3> QED BY <3>1, <3>2, ListTyped DEF TypeInv, StoreTyped
  <2>2. CASE c.type # "WRITE"
    <3>1. readBuff' = GatheredParts(p) /\ blockList' = blockList
      BY <1>1, <2>2 DEF FuseGather
    <3> QED BY <1>6, <2>2, <3>1 DEF TypeInv, StoreTyped, ContributedType
  <2> QED BY <2>1, <2>2
<1>8. StoreTyped'
  BY <1>2, <1>7 DEF TypeInv, StoreTyped
<1> QED BY <1>3, <1>4, <1>8 DEF TypeInv

(* The exchange as it is when p has given its part.                        *)
WithPart(e, p, part) ==
    [e EXCEPT !.gathered = [q \in DOMAIN @ \cup {p} |-> IF q = p THEN part ELSE @[q]]]

LEMMA WithPartType ==
    ASSUME NEW e, IsExchange(e), ExchangeTyped(e), NEW p \in Ranks, NEW part \in Seq(ContributedType(e.call)),
           Len(part) = EffectiveBlocks(Len(e.parts), p)
    PROVE  /\ ExchangeTyped(WithPart(e, p, part)) /\ WithPart(e, p, part).call = e.call
           /\ WithPart(e, p, part).parts = e.parts /\ WithPart(e, p, part).gathered[p] = part
           /\ DOMAIN WithPart(e, p, part).gathered = DOMAIN e.gathered \cup {p}
           /\ \A q \in DOMAIN e.gathered : q # p => WithPart(e, p, part).gathered[q] = e.gathered[q]
<1>1. WithPart(e, p, part) = [call |-> e.call, parts |-> e.parts,
                              gathered |-> [q \in DOMAIN e.gathered \cup {p} |-> IF q = p THEN part ELSE e.gathered[q]]]
  BY DEF WithPart, IsExchange
<1> QED BY <1>1 DEF ExchangeTyped

LEMMA JoinedExchange ==
    ASSUME IInv, TypeInv, NEW p \in Ranks, RecvScatter(p)
    PROVE  LET k     == pos[p] + 1
               share == ScatterPart(exchanges[k].parts, p)
               part  == Contribution(p, exchanges[k].call, share)
           IN  /\ k \in 1 .. Len(exchanges) /\ exchanges[k].call \in Calls /\ exchanges[k].call = recv[p].call
               /\ share \in Seq(PartsType(exchanges[k].call))
               /\ part \in Seq(ContributedType(exchanges[k].call))
               /\ Len(part) = EffectiveBlocks(Len(exchanges[k].parts), p) /\ Len(part) = Len(share)
               /\ Replaced(exchanges, k, WithPart(exchanges[k], p, part), exchanges')
               /\ heap' = Stored(p, exchanges[k].call, share) /\ heap' \in [Ranks -> Seq(Blobs)]
<1>1. PICK k : k = pos[p] + 1
  OBVIOUS
<1>2. PICK e : e = exchanges[k]
  OBVIOUS
<1>3. pos[p] < Len(exchanges) /\ e.call = recv[p].call
  BY <1>1, <1>2 DEF RecvScatter, Joins
<1>4. k \in 1 .. Len(exchanges)
  BY <1>1, <1>3, SequencesThere DEF IInv, Shape
<1>5. ExchangeTyped(e)
  BY <1>2, <1>4 DEF TypeInv, StoreTyped
<1>6. PICK share : share = ScatterPart(e.parts, p)
  OBVIOUS
<1>7. e.call \in Calls /\ share \in Seq(PartsType(e.call)) /\ Len(share) = EffectiveBlocks(Len(e.parts), p)
  BY <1>5, <1>6, ScatterPartType DEF ExchangeTyped
<1>8. PICK part : part = Contribution(p, e.call, share)
  OBVIOUS
<1>9. /\ part \in Seq(ContributedType(e.call)) /\ Len(part) = Len(share)
      /\ Stored(p, e.call, share) \in [Ranks -> Seq(Blobs)]
  BY <1>7, <1>8, ContributionType DEF TypeInv, StoreTyped
<1>10. /\ exchanges' = [exchanges EXCEPT ![k].gathered =
               [q \in DOMAIN @ \cup {p} |-> IF q = p THEN part ELSE @[q]]]
       /\ heap' = Stored(p, e.call, share)
  BY <1>1, <1>2, <1>3, <1>6, <1>8 DEF RecvScatter
<1>11. Replaced(exchanges, k, WithPart(e, p, part), exchanges')
  BY <1>2, <1>10 DEF Replaced, WithPart
<1> QED BY <1>1, <1>2, <1>3, <1>4, <1>6, <1>7, <1>8, <1>9, <1>10, <1>11

LEMMA RecvScatterTyped == ASSUME IInv, TypeInv, NEW p \in Ranks, RecvScatter(p) PROVE TypeInv'
<1>1. PICK k : k = pos[p] + 1
  OBVIOUS
<1>2. PICK e : e = exchanges[k]
  OBVIOUS
<1>3. PICK part : /\ k \in 1 .. Len(exchanges) /\ e.call \in Calls /\ e.call = recv[p].call
                  /\ part \in Seq(ContributedType(e.call)) /\ Len(part) = EffectiveBlocks(Len(e.parts), p)
                  /\ Replaced(exchanges, k, WithPart(e, p, part), exchanges')
                  /\ heap' \in [Ranks -> Seq(Blobs)]
  BY <1>1, <1>2, JoinedExchange
<1>4. /\ UNCHANGED <<fuse, net, tree, blockList, readBuff, issued, applied, unmountFromThread>>
      /\ pos' = [pos EXCEPT ![p] = @ + 1]
      /\ recv' = [recv EXCEPT ![p] = IF e.call.type = "WRITE" THEN [at |-> "gather", call |-> e.call]
                                     ELSE At("request")]
  BY <1>3 DEF RecvScatter, userVars
<1>5. TreesTyped' /\ HistoryTyped' /\ NetTyped'
  BY <1>4, TreesStill, HistoryStill DEF TypeInv, NetTyped
<1>6. ExchangeTyped(WithPart(e, p, part)) /\ WithPart(e, p, part).call = e.call
  BY <1>2, <1>3, WithPartType DEF TypeInv, StoreTyped, IInv, Shape
<1>7. /\ Len(exchanges') = Len(exchanges) /\ exchanges'[k] = WithPart(e, p, part)
      /\ \A i \in 1 .. Len(exchanges) : i # k => exchanges'[i] = exchanges[i]
  BY <1>3, ExceptFacts DEF IInv, Shape
<1>8. StoreTyped'
  <2>1. ASSUME NEW i \in 1 .. Len(exchanges') PROVE ExchangeTyped(exchanges'[i])
    BY <1>6, <1>7 DEF TypeInv, StoreTyped
  <2> QED BY <1>3, <1>4, <2>1 DEF TypeInv, StoreTyped
<1>9. ThreadsTyped'
  <2>1. [at |-> "gather", call |-> e.call] \in RecvStates
    BY <1>3 DEF RecvStates
  <2> QED BY <1>4, <2>1, RecvMoved, AtType DEF TypeInv
<1>10. \A i \in 1 .. Len(exchanges) : exchanges'[i].call = exchanges[i].call
  BY <1>2, <1>6, <1>7
<1>11. InNext'
  <2>1. ASSUME NEW q \in Ranks, recv'[q].at = "gather"
        PROVE  /\ pos'[q] \in 1 .. Len(exchanges') /\ recv'[q].call = exchanges'[pos'[q]].call
               /\ recv'[q].call.type = "WRITE"
    <3>1. CASE q = p
      <4>1. recv'[p] = [at |-> "gather", call |-> e.call] /\ e.call.type = "WRITE"
        BY <1>4, <2>1, <3>1 DEF TypeInv, ThreadsTyped, At
      <4>2. pos'[p] = k
        BY <1>1, <1>4 DEF IInv, Shape
      <4> QED BY <1>2, <1>3, <1>7, <1>10, <3>1, <4>1, <4>2
    <3>2. CASE q # p
      <4>1. recv'[q] = recv[q] /\ pos'[q] = pos[q]
        BY <1>4, <3>2 DEF TypeInv, ThreadsTyped, IInv, Shape
      <4>2. pos[q] \in 1 .. Len(exchanges) /\ recv[q].call = exchanges[pos[q]].call /\ recv[q].call.type = "WRITE"
        BY <2>1, <4>1 DEF TypeInv, InNext
      <4> QED BY <1>7, <1>10, <4>1, <4>2
    <3> QED BY <3>1, <3>2
  <2> QED BY <2>1 DEF InNext
<1> QED BY <1>5, <1>8, <1>9, <1>11 DEF TypeInv

(* What the list of p becomes for the inode of the call that it is in.     *)
LEMMA RecvListed ==
    ASSUME TypeInv, NEW p \in Ranks, RecvGather(p)
    PROVE  LET c == recv[p].call
           IN  /\ c \in Calls /\ c.type = "WRITE" /\ pos[p] \in 1 .. Len(exchanges) /\ exchanges[pos[p]].call = c
               /\ GatheredParts(p) \in Seq(Addresses)
               /\ blockList' \in [Ranks -> [Files -> Seq(Addresses)]]
               /\ blockList'[p][c.inode] = Listed(blockList[p][c.inode], GatheredParts(p))
<1>1. PICK c : c = recv[p].call
  OBVIOUS
<1>2. recv[p].at = "gather" /\ Gathered(p)
  BY DEF RecvGather
<1>3. c \in Calls /\ c.type = "WRITE" /\ pos[p] \in 1 .. Len(exchanges) /\ exchanges[pos[p]].call = c
  BY <1>1, <1>2, RecvStateFacts DEF TypeInv, ThreadsTyped, InNext
<1>4. GatheredParts(p) \in Seq(Addresses) /\ c.inode \in Files
  BY <1>2, <1>3, GatheredType DEF TypeInv, ContributedType, Calls
<1>5. blockList' = [blockList EXCEPT ![p][c.inode] = Listed(@, GatheredParts(p))]
  BY <1>1 DEF RecvGather
<1>6. blockList' \in [Ranks -> [Files -> Seq(Addresses)]]
  BY <1>4, <1>5, ListTyped DEF TypeInv
<1>7. blockList'[p][c.inode] = Listed(blockList[p][c.inode], GatheredParts(p))
  BY <1>4, <1>5 DEF TypeInv, StoreTyped
<1> QED BY <1>1, <1>3, <1>4, <1>6, <1>7

LEMMA RecvGatherTyped == ASSUME TypeInv, NEW p \in Ranks, RecvGather(p) PROVE TypeInv'
<1>1. PICK c \in Calls : c = recv[p].call /\ c.inode \in Files /\ c.fileSize \in Nat
  BY RecvListed DEF Calls
<1>2. /\ blockList' \in [Ranks -> [Files -> Seq(Addresses)]]
      /\ blockList'[p][c.inode] = Listed(blockList[p][c.inode], GatheredParts(p))
      /\ GatheredParts(p) \in Seq(Addresses)
  BY <1>1, RecvListed
<1>3. /\ UNCHANGED <<fuse, net, heap, exchanges, pos, readBuff, issued, applied, unmountFromThread>>
      /\ recv' = [recv EXCEPT ![p] = At("request")]
  BY DEF RecvGather, userVars
<1>4. HistoryTyped' /\ NetTyped'
  BY <1>3, HistoryStill DEF TypeInv, NetTyped
<1>5. StoreTyped'
  BY <1>2, <1>3 DEF TypeInv, StoreTyped
<1>6. ThreadsTyped' /\ InNext'
  BY <1>3, RecvMoved, AtType, NextElsewhere DEF TypeInv, At
<1>7. TreesTyped'
  <2>1. CASE c.inode \in DOMAIN tree[p]
    <3>1. PICK n \in 2 .. MaxINodes : Table(tree[p], n) /\ n \in Nat /\ n > 1
      BY TreeThere DEF TypeInv
    <3>2. c.inode \in 0 .. n - 1
      BY <2>1, <3>1, TableFacts
    <3>3. PICK blocks : blocks = Len(blockList'[p][c.inode])
      OBVIOUS
    <3>4. blocks \in Nat
      BY <1>1, <1>2, <3>3, ListedType DEF TypeInv, StoreTyped
    <3>5. SizeSet(p, c.inode, c.fileSize, blocks)
      BY <1>1, <2>1, <3>3 DEF RecvGather, SizeSet
    <3>6. tree' = [tree EXCEPT ![p] = SetSize(tree[p], c.inode, c.fileSize, blocks)]
      BY <3>1, <3>2, <3>5, SizeIsSet DEF TypeInv, TreesTyped
    <3>7. Table(SetSize(tree[p], c.inode, c.fileSize, blocks), n)
      BY <1>1, <3>1, <3>2, <3>4, SetSizeKeeps
    <3> QED BY <3>6, <3>7, TreeChanged DEF TypeInv
  <2>2. CASE c.inode \notin DOMAIN tree[p]
    BY <1>1, <2>2, TreesStill DEF TypeInv, RecvGather
  <2> QED BY <2>1, <2>2
<1> QED BY <1>4, <1>5, <1>6, <1>7 DEF TypeInv

LEMMA NextTyped == ASSUME IInv, TypeInv, [Next]_vars PROVE TypeInv'
<1>1. CASE UNCHANGED vars \/ Terminating
  BY <1>1, StutterTyped DEF Terminating
<1>2. CASE \E p \in Ranks : PeerNext(p)
  <2>1. PICK p \in Ranks : UserNext(p) \/ StartNext(p) \/ FuseNext(p) \/ RecvNext(p)
    BY <1>2 DEF PeerNext
  <2>2. CASE UserNext(p)
    BY <2>2, ChangeTyped, FlushTyped, OpenTyped, EndsTyped DEF UserNext
  <2>3. CASE StartNext(p)
    BY <2>3, EndsTyped DEF StartNext
  <2>4. CASE FuseNext(p)
    BY <2>4, AnnounceTyped, ResetTyped, ScatterTyped, GatherTyped, EndsTyped DEF FuseNext
  <2>5. CASE RecvNext(p)
    BY <2>5, ReceivedTyped, ReplayTyped, ReplayCloseTyped, RecvScatterTyped, RecvGatherTyped DEF RecvNext
  <2> QED BY <2>1, <2>2, <2>3, <2>4, <2>5
<1> QED BY <1>1, <1>2 DEF Next

(***************************************************************************)
(* As long as users settle, what the peers hold keeps its type: the tables *)
(* stay vectors without gaps that every child number points into, whatever *)
(* a peer repeats on the paths it was sent, and every part of an exchange  *)
(* has as many blocks as its rank's share.                                 *)
(***************************************************************************)
THEOREM PeersTypeCorrect == ASSUME Settled PROVE Spec => []TypeOK
<1>1. Init => TypeInv
  BY InitTyped
<1>2. IInv /\ TypeInv /\ [Next]_vars => TypeInv'
  BY NextTyped
<1>3. IInv /\ TypeInv => TypeOK
  BY InvTypes
<1> QED BY <1>1, <1>2, <1>3, PeersInvariance, PTL DEF Spec
-----------------------------------------------------------------------------
(* Where the blocks of a file are.                                         *)

(* The first n entries of a list point to the ranks whose share they are.  *)
Laid(list, n) ==
    /\ n <= Len(list)
    /\ \A r \in Ranks : \A i \in 1 .. EffectiveBlocks(n, r) : IsLocal(r, list[Displ(n, r) + i])

WritesTo(p, ino) == InCall(fuse[p]) /\ fuse[p].call.type = "WRITE" /\ fuse[p].call.inode = ino

(* The list of a file reaches as far as its size says, but for the writer, *)
(* whose list is behind until its flush has gathered.                      *)
ListsLaid ==
    \A p \in Ranks, ino \in Files : ino \in DOMAIN tree[p] =>
        IF WritesTo(p, ino) THEN tree[p][ino].st_size = fuse[p].call.fileSize
        ELSE Laid(blockList[p][ino], NumberOfBlocks(tree[p][ino].st_size))

(* A reader deals from its own list, of the size it was when it opened.    *)
ReadsOwn ==
    \A p \in Ranks : fuse[p].at = "scatter" /\ fuse[p].call.type = "READ" =>
        /\ fuse[p].call.inode \in DOMAIN tree[p]
        /\ tree[p][fuse[p].call.inode].st_size = fuse[p].call.fileSize

(* A writer's peers answer with addresses of their own. *)
PartsLocal ==
    \A k \in 1 .. Len(exchanges) : exchanges[k].call.type = "WRITE" =>
        \A r \in DOMAIN exchanges[k].gathered : \A i \in DOMAIN exchanges[k].gathered[r] :
            IsLocal(r, exchanges[k].gathered[r][i])

LocalInv == ListsLaid /\ ReadsOwn /\ PartsLocal /\ PointerLocality

LEMMA InitLocal == ASSUME Init PROVE LocalInv
<1>1. ListsLaid
  <2>1. ASSUME NEW p \in Ranks, NEW ino \in Files PROVE ino \notin DOMAIN tree[p]
    BY PeerToPeerAssumption DEF Init, InitialTable, Files, Special, Root
  <2> QED BY <2>1 DEF ListsLaid
<1>2. ReadsOwn /\ PartsLocal /\ PointerLocality
  BY DEF Init, ReadsOwn, PartsLocal, PointerLocality, At
<1> QED BY <1>1, <1>2 DEF LocalInv

(* An empty file has no blocks. *)
LEMMA LaidEmpty == ASSUME NEW S, NEW list \in Seq(S) PROVE Laid(list, NumberOfBlocks(0))
<1>1. NumberOfBlocks(0) = 0
  BY StripingAssumption DEF NumberOfBlocks
<1>2. ASSUME NEW r \in Ranks PROVE EffectiveBlocks(0, r) = 0
  <2>1. 0 \div WorldSize = 0 /\ 0 % WorldSize = 0
    BY StripingAssumption
  <2> QED BY <2>1, RanksNatural DEF EffectiveBlocks
<1>3. 0 <= Len(list)
  BY LenProperties
<1> QED BY <1>1, <1>2, <1>3 DEF Laid

(* Who is in a transfer stays there, and nobody else enters one.           *)
TransfersStill == \A q \in Ranks : InCall(fuse[q]) \/ InCall(fuse'[q]) => fuse'[q] = fuse[q]

LEMMA FilesKept ==
    ASSUME TypeInv, LocalInv, TransfersStill, UNCHANGED <<blockList, heap, exchanges>>,
           \A q \in Ranks : \/ tree'[q] = tree[q]
                            \/ ~InCall(fuse[q]) /\ SizesKept(tree[q], tree'[q])
    PROVE  LocalInv'
<1>1. ListsLaid'
  <2>1. ASSUME NEW p \in Ranks, NEW ino \in Files, ino \in DOMAIN tree'[p]
        PROVE  IF WritesTo(p, ino)' THEN tree'[p][ino].st_size = fuse'[p].call.fileSize
               ELSE Laid(blockList[p][ino], NumberOfBlocks(tree'[p][ino].st_size))
    <3>1. WritesTo(p, ino)' <=> WritesTo(p, ino)
      BY DEF WritesTo, TransfersStill
    <3>2. blockList[p][ino] \in Seq(Addresses)
      BY DEF TypeInv, StoreTyped
    <3>3. CASE tree'[p] = tree[p]
      BY <2>1, <3>1, <3>3 DEF LocalInv, ListsLaid, WritesTo, TransfersStill
    <3>4. CASE ~InCall(fuse[p]) /\ SizesKept(tree[p], tree'[p])
      <4>1. ~WritesTo(p, ino)
        BY <3>4 DEF WritesTo
      <4>2. CASE tree'[p][ino].st_size = 0
        BY <3>1, <3>2, <4>1, <4>2, LaidEmpty
      <4>3. CASE ino \in DOMAIN tree[p] /\ tree'[p][ino].st_size = tree[p][ino].st_size
        BY <3>1, <4>1, <4>3 DEF LocalInv, ListsLaid
      <4> QED BY <2>1, <3>4, <4>2, <4>3 DEF SizesKept
    <3> QED BY <3>3, <3>4
  <2> QED BY <2>1 DEF ListsLaid, Laid, IsLocal
<1>2. ReadsOwn'
  BY DEF LocalInv, ReadsOwn, TransfersStill, InCall
<1>3. \A r, a : IsLocal(r, a)' <=> IsLocal(r, a)
  BY DEF IsLocal
<1>4. PartsLocal'
  BY <1>3 DEF LocalInv, PartsLocal
<1>5. PointerLocality'
  BY <1>3 DEF LocalInv, PointerLocality
<1> QED BY <1>1, <1>2, <1>4, <1>5 DEF LocalInv

LEMMA OneMoves ==
    ASSUME ThreadsTyped, NEW p \in Ranks, NEW f, ~InCall(fuse[p]), ~InCall(f),
           fuse' = fuse \/ fuse' = [fuse EXCEPT ![p] = f]
    PROVE  TransfersStill
  BY DEF ThreadsTyped, TransfersStill

(* The steps that move no data and no tree.                                *)
LEMMA ThreadsStill ==
    ASSUME TypeInv, NEW p \in Ranks,
           \/ Mount(p) \/ StartFails(p) \/ MountFails(p) \/ Unmount(p) \/ LoopEnds(p) \/ SendTermination(p)
           \/ Announce(p) \/ ResetFlag(p) \/ ReplayClose(p)
           \/ \E q \in Ranks : RecvHeader(q, p) \/ RecvBody(q, p) \/ RecvTerminate(q, p)
    PROVE  UNCHANGED <<tree, blockList, heap, exchanges>> /\ TransfersStill
<1>1. UNCHANGED <<tree, blockList, heap, exchanges>>
  BY DEF Mount, StartFails, MountFails, Unmount, LoopEnds, SendTermination, Announce, ResetFlag, ReplayClose,
         RecvHeader, RecvBody, RecvTerminate, dataVars
<1>2. TransfersStill
  <2>1. ASSUME NEW place \in {"starting", "loop", "unmounted", "finished", "failed"} PROVE ~InCall(At(place))
    BY DEF At, InCall
  <2>2. CASE \/ Mount(p) \/ StartFails(p) \/ MountFails(p) \/ Unmount(p) \/ LoopEnds(p) \/ SendTermination(p)
             \/ ReplayClose(p) \/ \E q \in Ranks : RecvHeader(q, p) \/ RecvBody(q, p) \/ RecvTerminate(q, p)
    <3>1. \/ fuse' = fuse
          \/ \E here, place \in {"starting", "loop", "unmounted", "finished", "failed"} :
                fuse[p] = At(here) /\ fuse' = [fuse EXCEPT ![p] = At(place)]
      BY <2>2, Zenon DEF Mount, StartFails, MountFails, Unmount, LoopEnds, SendTermination, ReplayClose,
                        RecvHeader, RecvBody, RecvTerminate
    <3>2. CASE fuse' = fuse
      BY <3>2 DEF TransfersStill
    <3>3. CASE fuse' # fuse
      <4>1. PICK f : ~InCall(fuse[p]) /\ ~InCall(f) /\ fuse' = [fuse EXCEPT ![p] = f]
        BY <2>1, <3>1, <3>3
      <4> QED BY <4>1 DEF TypeInv, ThreadsTyped, TransfersStill
    <3> QED BY <3>2, <3>3
  <2>3. CASE Announce(p) \/ ResetFlag(p)
    <3>1. ~InCall(fuse[p])
      BY <2>3 DEF Announce, ResetFlag, InCall
    <3>2. PICK f : ~InCall(f) /\ fuse' = [fuse EXCEPT ![p] = f]
      <4>1. ~InCall([at |-> "reset", op |-> fuse[p].op])
        BY DEF InCall
      <4> QED BY <2>1, <2>3, <4>1 DEF Announce, ResetFlag
    <3> QED BY <3>1, <3>2 DEF TypeInv, ThreadsTyped, TransfersStill
  <2> QED BY <2>2, <2>3
<1> QED BY <1>1, <1>2

LEMMA ThreadsLocal ==
    ASSUME TypeInv, LocalInv, NEW p \in Ranks,
           \/ Mount(p) \/ StartFails(p) \/ MountFails(p) \/ Unmount(p) \/ LoopEnds(p) \/ SendTermination(p)
           \/ Announce(p) \/ ResetFlag(p) \/ ReplayClose(p)
           \/ \E q \in Ranks : RecvHeader(q, p) \/ RecvBody(q, p) \/ RecvTerminate(q, p)
    PROVE  LocalInv'
  BY ThreadsStill, FilesKept

LEMMA StutterLocal == ASSUME TypeInv, LocalInv, UNCHANGED vars PROVE LocalInv'
<1>1. UNCHANGED <<tree, blockList, heap, exchanges, fuse>>
  BY DEF vars, threadVars, dataVars
<1>2. TransfersStill
  BY <1>1 DEF TransfersStill
<1> QED BY <1>1, <1>2, FilesKept

(* The steps that change the tree.                                         *)
LEMMA TreeLocal ==
    ASSUME TypeInv, LocalInv, UNCHANGED <<blockList, heap, exchanges>>, NEW p \in Ranks, NEW f,
           ~InCall(fuse[p]), ~InCall(f), fuse' = fuse \/ fuse' = [fuse EXCEPT ![p] = f],
           NEW t, SizesKept(tree[p], t), tree' = [tree EXCEPT ![p] = t]
    PROVE  LocalInv'
<1>1. TransfersStill
  BY OneMoves DEF TypeInv
<1>2. ASSUME NEW q \in Ranks PROVE tree'[q] = tree[q] \/ (q = p /\ tree'[q] = t)
  BY DEF TypeInv, TreesTyped
<1> QED BY <1>1, <1>2, FilesKept

LEMMA ChangeLocal ==
    ASSUME TypeInv, LocalInv, NEW p \in Ranks, NEW o \in Operations, Change(p, o)
    PROVE  LocalInv'
<1>1. UNCHANGED <<blockList, heap, exchanges>> /\ fuse[p] = At("loop") /\ KernelAllows(tree[p], o)
  BY DEF Change, MayUse, dataVars
<1>2. PICK f : f = [at |-> "announce", op |-> Announcement(tree[p], o)]
  OBVIOUS
<1>3. ~InCall(fuse[p]) /\ ~InCall(f)
  BY <1>1, <1>2 DEF InCall, At
<1>4. fuse' = fuse \/ fuse' = [fuse EXCEPT ![p] = f]
  BY <1>2 DEF Change
<1>5. PICK t : t = Applied(tree[p], o)
  OBVIOUS
<1>6. PICK n \in 2 .. MaxINodes : Table(tree[p], n) /\ n \in Nat /\ n > 1
  BY TreeThere DEF TypeInv
<1>7. SizesKept(tree[p], t)
  BY <1>1, <1>5, <1>6, AnyOperations, AppliedKeeps
<1>8. tree' = [tree EXCEPT ![p] = t]
  BY <1>5 DEF Change
<1> QED BY <1>1, <1>3, <1>4, <1>7, <1>8, TreeLocal

(* Whose receiving thread is at work is mounted, and another is used.      *)
LEMMA WhoFollows ==
    ASSUME IInv, NEW p \in Ranks, recv[p].at \in {"body", "syscall", "close", "scatter", "gather"}
    PROVE  AllMounted /\ mounted[p] /\ fuse[p].at \in {"loop", "announce"}
<1>1. AllMounted
  BY DEF IInv, Resting
<1>2. Working(user) /\ user \in Ranks
  BY <1>1 DEF IInv, Shape
<1>3. p \in Others(user)
  BY <1>2 DEF Working, Leads, Others
<1> QED BY <1>1, <1>2, <1>3 DEF Working, Follows, AllMounted

LEMMA ReplayLocal == ASSUME IInv, TypeInv, LocalInv, NEW p \in Ranks, Replay(p) PROVE LocalInv'
<1>1. /\ UNCHANGED <<blockList, heap, exchanges>> /\ recv[p].at = "syscall"
      /\ fuse[p] = At("loop") \/ ~mounted[p]
  BY DEF Replay, dataVars
<1>2. PICK o \in Commands : o = recv[p].op
  BY <1>1, RecvStateFacts DEF TypeInv, ThreadsTyped
<1>3. PICK f : f = [at |-> "announce", op |-> Announcement(tree[p], o)]
  OBVIOUS
<1>4. ~InCall(fuse[p]) /\ ~InCall(f)
  BY <1>1, <1>3, WhoFollows DEF InCall, At
<1>5. fuse' = fuse \/ fuse' = [fuse EXCEPT ![p] = f]
  BY <1>2, <1>3 DEF Replay
<1>6. PICK n \in 2 .. MaxINodes : Table(tree[p], n) /\ n \in Nat /\ n > 1
  BY TreeThere DEF TypeInv
<1>7. PICK t : SizesKept(tree[p], t) /\ tree' = [tree EXCEPT ![p] = t]
  <2>1. CASE KernelAllows(tree[p], o) /\ tree' = [tree EXCEPT ![p] = Applied(@, o)]
    <3>1. SizesKept(tree[p], Applied(tree[p], o))
      BY <1>6, <2>1, AnyOperations, AppliedKeeps
    <3> QED BY <2>1, <3>1
  <2>2. CASE IsFile(tree[p], INodeAt(tree[p], o.path)) /\ tree' = [tree EXCEPT ![p] = Truncated(@, o.path)]
    <3>1. INodeAt(tree[p], o.path) \in 0 .. n - 1
      BY <1>6, <2>2, DirectoryFound DEF IsFile, Commands
    <3>2. SizesKept(tree[p], Truncated(tree[p], o.path))
      BY <1>6, <3>1, TruncatedKeeps
    <3> QED BY <2>2, <3>2
  <2>3. CASE tree' = [tree EXCEPT ![p] = @]
    <3>1. SizesKept(tree[p], tree[p])
      BY DEF SizesKept
    <3> QED BY <2>3, <3>1
  <2> QED BY <1>2, <2>1, <2>2, <2>3 DEF Replay
<1> QED BY <1>1, <1>4, <1>5, <1>7, TreeLocal

LEMMA ExchangesStill ==
    ASSUME LocalInv, UNCHANGED <<heap, exchanges>>
    PROVE  PartsLocal' /\ PointerLocality' /\ \A r, a : IsLocal(r, a)' <=> IsLocal(r, a)
<1>1. \A r, a : IsLocal(r, a)' <=> IsLocal(r, a)
  BY DEF IsLocal
<1>2. PartsLocal'
  BY <1>1 DEF LocalInv, PartsLocal
<1>3. PointerLocality'
  BY <1>1 DEF LocalInv, PointerLocality
<1> QED BY <1>1, <1>2, <1>3

(* A list that has not changed is still laid. *)
LEMMA LaidStill ==
    ASSUME \A r \in Ranks : \A a : IsLocal(r, a) => IsLocal(r, a)', NEW list, NEW n, Laid(list, n)
    PROVE  Laid(list, n)'
  BY DEF Laid

LEMMA FlushLocal ==
    ASSUME TypeInv, LocalInv, NEW p \in Ranks, NEW path \in Paths, NEW size \in FileSizes, FuseFlush(p, path, size)
    PROVE  LocalInv'
<1>1. PICK ino : ino = INodeAt(tree[p], path)
  OBVIOUS
<1>2. PICK c : c = [type |-> "WRITE", source |-> p, inode |-> ino, fileSize |-> size]
  OBVIOUS
<1>3. /\ UNCHANGED <<blockList, heap, exchanges>> /\ fuse[p] = At("loop") /\ IsFile(tree[p], ino)
      /\ fuse' = [fuse EXCEPT ![p] = [at |-> "scatter", call |-> c]]
      /\ SizeSet(p, ino, size, NumberOfBlocks(size))
  BY <1>1, <1>2 DEF FuseFlush, MayUse, dataVars, SizeSet
<1>4. PICK n \in 2 .. MaxINodes : Table(tree[p], n) /\ n \in Nat /\ n > 1
  BY TreeThere DEF TypeInv
<1>5. ino \in 0 .. n - 1 /\ DOMAIN tree[p] = 0 .. n - 1
  BY <1>1, <1>3, <1>4, FileNumber, TableFacts DEF TypeInv
<1>6. size \in Nat /\ NumberOfBlocks(size) \in Nat
  BY PeerToPeerAssumption, NumberOfBlocksType
<1>7. PICK t : t = SetSize(tree[p], ino, size, NumberOfBlocks(size))
  OBVIOUS
<1>8. /\ Table(t, n) /\ t[ino].st_size = size /\ \A other \in 0 .. n - 1 : other # ino => t[other] = tree[p][other]
      /\ DOMAIN t = 0 .. n - 1
  <2>1. PICK old : old = tree[p]
    OBVIOUS
  <2> PICK blocks \in Nat : blocks = NumberOfBlocks(size)
    BY <1>6
  <2>2. /\ Table(SetSize(old, ino, size, blocks), n) /\ SetSize(old, ino, size, blocks)[ino].st_size = size
        /\ \A other \in 0 .. n - 1 : other # ino => SetSize(old, ino, size, blocks)[other] = old[other]
    <3>1. Table(SetSize(old, ino, size, blocks), n)
      BY <1>4, <1>5, <1>6, <2>1, SetSizeKeeps
    <3>2. SetSize(old, ino, size, blocks)[ino].st_size = size
      BY <1>4, <1>5, <1>6, <2>1, SetSizeKeeps
    <3>3. ASSUME NEW other \in 0 .. n - 1, other # ino PROVE SetSize(old, ino, size, blocks)[other] = old[other]
      BY <1>5, <2>1, <3>3 DEF SetSize
    <3> QED BY <3>1, <3>2, <3>3
  <2>3. t = SetSize(old, ino, size, blocks)
    BY <1>7, <2>1
  <2> QED BY <1>4, <2>1, <2>2, <2>3, TableFacts
<1>9. tree' = [tree EXCEPT ![p] = t]
  BY <1>3, <1>4, <1>5, <1>7, SizeIsSet DEF TypeInv, TreesTyped
<1>10. /\ tree'[p] = t /\ \A q \in Ranks \ {p} : tree'[q] = tree[q] /\ fuse'[q] = fuse[q]
       /\ fuse'[p] = [at |-> "scatter", call |-> c] /\ ~InCall(fuse[p])
  BY <1>3, <1>9 DEF TypeInv, TreesTyped, ThreadsTyped, InCall, At
<1>11. \A r, a : IsLocal(r, a)' <=> IsLocal(r, a)
  BY <1>3, ExchangesStill
<1>12. ListsLaid'
  <2>1. ASSUME NEW q \in Ranks, NEW other \in Files, other \in DOMAIN tree'[q]
        PROVE  IF WritesTo(q, other)' THEN tree'[q][other].st_size = fuse'[q].call.fileSize
               ELSE Laid(blockList[q][other], NumberOfBlocks(tree'[q][other].st_size))
    <3>1. CASE q # p
      BY <1>10, <2>1, <3>1 DEF LocalInv, ListsLaid, WritesTo
    <3>2. CASE q = p /\ other = ino
      BY <1>2, <1>8, <1>10, <3>2 DEF WritesTo, InCall
    <3>3. CASE q = p /\ other # ino
      <4>1. ~WritesTo(p, other)' /\ ~WritesTo(p, other)
        BY <1>2, <1>10, <3>3 DEF WritesTo
      <4>2. other \in DOMAIN tree[p] /\ tree'[p][other] = tree[p][other]
        BY <1>5, <1>8, <1>10, <2>1, <3>3
      <4> QED BY <3>3, <4>1, <4>2 DEF LocalInv, ListsLaid
    <3> QED BY <3>1, <3>2, <3>3
  <2> QED BY <1>3, <1>11, <2>1 DEF ListsLaid, Laid
<1>13. ReadsOwn'
  BY <1>2, <1>10 DEF LocalInv, ReadsOwn
<1> QED BY <1>3, <1>12, <1>13, ExchangesStill DEF LocalInv

LEMMA OpenLocal ==
    ASSUME TypeInv, LocalInv, NEW p \in Ranks, NEW path \in Paths, FuseOpen(p, path)
    PROVE  LocalInv'
<1>1. PICK ino : ino = INodeAt(tree[p], path)
  OBVIOUS
<1>2. PICK c : c = [type |-> "READ", source |-> p, inode |-> ino, fileSize |-> tree[p][ino].st_size]
  OBVIOUS
<1>3. /\ UNCHANGED <<tree, blockList, heap, exchanges>> /\ fuse[p] = At("loop") /\ IsFile(tree[p], ino)
      /\ fuse' = fuse \/ fuse' = [fuse EXCEPT ![p] = [at |-> "scatter", call |-> c]]
  BY <1>1, <1>2 DEF FuseOpen, MayUse
<1>4. ino \in DOMAIN tree[p]
  BY <1>1, <1>3, FileNumber DEF TypeInv
<1>5. /\ \A q \in Ranks \ {p} : fuse'[q] = fuse[q]
      /\ fuse'[p] = fuse[p] \/ fuse'[p] = [at |-> "scatter", call |-> c]
      /\ ~InCall(fuse[p])
  BY <1>3 DEF TypeInv, ThreadsTyped, InCall, At
<1>6. ASSUME NEW q \in Ranks, NEW other PROVE WritesTo(q, other)' <=> WritesTo(q, other)
  BY <1>2, <1>5 DEF WritesTo
<1>7. \A r, a : IsLocal(r, a)' <=> IsLocal(r, a)
  BY <1>3, ExchangesStill
<1>8. ListsLaid'
  <2>1. ASSUME NEW q \in Ranks, NEW other \in Files, other \in DOMAIN tree[q]
        PROVE  IF WritesTo(q, other)' THEN tree[q][other].st_size = fuse'[q].call.fileSize
               ELSE Laid(blockList[q][other], NumberOfBlocks(tree[q][other].st_size))
    <3>1. WritesTo(q, other) => fuse'[q] = fuse[q]
      BY <1>5 DEF WritesTo
    <3> QED BY <1>6, <2>1, <3>1 DEF LocalInv, ListsLaid
  <2> QED BY <1>3, <1>7, <2>1 DEF ListsLaid, Laid
<1>9. ReadsOwn'
  BY <1>2, <1>3, <1>4, <1>5 DEF LocalInv, ReadsOwn, InCall
<1> QED BY <1>3, <1>8, <1>9, ExchangesStill DEF LocalInv

(* Blocks that were malloc'ed stay; what a peer answers a writer is its own. *)
LEMMA ContributedLocal ==
    ASSUME heap \in [Ranks -> Seq(Blobs)], NEW p \in Ranks, NEW c \in Calls, NEW share \in Seq(PartsType(c)),
           heap' = Stored(p, c, share), NEW part, part = Contribution(p, c, share)
    PROVE  /\ \A r \in Ranks : \A a : IsLocal(r, a) => IsLocal(r, a)'
           /\ c.type = "WRITE" => \A i \in DOMAIN part : IsLocal(p, part[i])'
<1>1. \A r \in Ranks : heap[r] \in Seq(Blobs) /\ Len(heap[r]) \in Nat
  OBVIOUS
<1>2. CASE c.type = "WRITE"
  <2>1. share \in Seq(Blobs) /\ Len(share) \in Nat
    BY <1>2 DEF PartsType
  <2>2. heap' = [heap EXCEPT ![p] = @ \o share]
    BY <1>2 DEF Stored
  <2>3. Len(heap'[p]) = Len(heap[p]) + Len(share) /\ \A r \in Ranks : r # p => heap'[r] = heap[r]
    BY <1>1, <2>1, <2>2
  <2>4. \A r \in Ranks : Len(heap'[r]) \in Nat /\ Len(heap[r]) <= Len(heap'[r])
    BY <1>1, <2>1, <2>3
  <2>5. ASSUME NEW r \in Ranks, NEW a, IsLocal(r, a) PROVE IsLocal(r, a)'
    BY <1>1, <2>4, <2>5 DEF IsLocal
  <2>6. part = NewAddresses(p, Len(share))
    BY <1>2 DEF Contribution
  <2>7. DOMAIN part = 1 .. Len(share) /\ \A i \in 1 .. Len(share) : part[i] = [rank |-> p, id |-> Len(heap[p]) + i]
    BY <2>6 DEF NewAddresses
  <2>8. ASSUME NEW i \in DOMAIN part PROVE IsLocal(p, part[i])'
    <3>1. Len(heap[p]) + i \in 1 .. Len(heap'[p])
      BY <1>1, <2>1, <2>3, <2>7
    <3>2. part[i].rank = p /\ part[i].id = Len(heap[p]) + i
      BY <2>7
    <3> QED BY <3>1, <3>2 DEF IsLocal
  <2> QED BY <2>5, <2>8
<1>3. CASE c.type # "WRITE"
  <2>1. heap' = heap
    BY <1>3 DEF Stored
  <2> QED BY <1>3, <2>1 DEF IsLocal
<1> QED BY <1>2, <1>3

(* What a reader deals is from its own list. *)
LEMMA ReaderDeals ==
    ASSUME TypeInv, LocalInv, NEW p \in Ranks, fuse[p].at = "scatter", NEW c \in Calls, c = fuse[p].call,
           c.type = "READ", NEW parts, parts = Pointers(p, c.inode, NumberOfBlocks(c.fileSize)), NEW r \in Ranks
    PROVE  \A i \in DOMAIN ScatterPart(parts, r) : IsLocal(r, ScatterPart(parts, r)[i])
<1> PICK n : n = NumberOfBlocks(c.fileSize)
  OBVIOUS
<1> PICK list : list = blockList[p][c.inode]
  OBVIOUS
<1>1. n \in Nat /\ c.inode \in Files /\ list \in Seq(Addresses)
  BY NumberOfBlocksType DEF Calls, TypeInv, StoreTyped
<1>2. parts \in Seq(Addresses) /\ Len(parts) = n
  BY <1>1, PointersType DEF TypeInv, StoreTyped
<1>3. c.inode \in DOMAIN tree[p] /\ tree[p][c.inode].st_size = c.fileSize
  BY DEF LocalInv, ReadsOwn
<1>4. ~WritesTo(p, c.inode)
  BY DEF WritesTo
<1>5. Laid(list, n)
  BY <1>1, <1>3, <1>4 DEF LocalInv, ListsLaid
<1>6. \A b \in 1 .. n : parts[b] = list[b]
  BY <1>1, <1>5 DEF Laid, Pointers
<1>7. DOMAIN ScatterPart(parts, r) = 1 .. EffectiveBlocks(n, r)
  BY <1>2 DEF ScatterPart
<1>8. ASSUME NEW i \in DOMAIN ScatterPart(parts, r) PROVE IsLocal(r, ScatterPart(parts, r)[i])
  <2>1. ScatterPart(parts, r)[i] = parts[Displ(n, r) + i]
    BY <1>2, <1>7 DEF ScatterPart
  <2>2. Displ(n, r) + i \in 1 .. n
    BY <1>2, <1>7, ScatterPartType
  <2>3. ScatterPart(parts, r)[i] = list[Displ(n, r) + i]
    BY <1>6, <2>1, <2>2
  <2> QED BY <1>5, <1>7, <2>3 DEF Laid
<1> QED BY <1>8

LEMMA ScatterLocal == ASSUME IInv, TypeInv, LocalInv, NEW p \in Ranks, FuseScatter(p) PROVE LocalInv'
<1>1. PICK c \in Calls : c = fuse[p].call
  BY FuseStateFacts DEF TypeInv, ThreadsTyped, FuseScatter
<1>2. PICK parts : parts = IF c.type = "WRITE" THEN Buffer(issued, NumberOfBlocks(c.fileSize))
                           ELSE Pointers(p, c.inode, NumberOfBlocks(c.fileSize))
  OBVIOUS
<1>3. PICK share : share = ScatterPart(parts, p)
  OBVIOUS
<1>4. PICK part : part = Contribution(p, c, share)
  OBVIOUS
<1>5. PICK e : e = [call |-> c, parts |-> parts, gathered |-> [q \in {p} |-> part]]
  OBVIOUS
<1>6. /\ UNCHANGED <<tree, blockList>> /\ fuse[p].at = "scatter"
      /\ exchanges' = Append(exchanges, e) /\ heap' = Stored(p, c, share)
      /\ fuse' = [fuse EXCEPT ![p].at = "gather"]
  BY <1>1, <1>2, <1>3, <1>4, <1>5 DEF FuseScatter
<1>7. share \in Seq(PartsType(c))
  <2>1. NumberOfBlocks(c.fileSize) \in Nat /\ c.inode \in Files
    BY NumberOfBlocksType DEF Calls
  <2>2. parts \in Seq(PartsType(c))
    BY <1>2, <2>1, BufferType, PointersType DEF PartsType, TypeInv, StoreTyped
  <2> QED BY <1>3, <2>2, ScatterPartType
<1>8. /\ \A r \in Ranks : \A a : IsLocal(r, a) => IsLocal(r, a)'
      /\ c.type = "WRITE" => \A i \in DOMAIN part : IsLocal(p, part[i])'
  BY <1>4, <1>6, <1>7, ContributedLocal DEF TypeInv, StoreTyped
<1>9. /\ Len(exchanges) \in Nat /\ Len(exchanges') = Len(exchanges) + 1
      /\ \A k \in 1 .. Len(exchanges) : exchanges'[k] = exchanges[k]
      /\ exchanges'[Len(exchanges) + 1] = e
  BY <1>6, AppendFacts, SeqFacts DEF IInv, Shape
<1>10. /\ \A q \in Ranks \ {p} : fuse'[q] = fuse[q]
       /\ fuse'[p].at = "gather" /\ fuse'[p].call = c
  <2>1. fuse[p] = [at |-> "scatter", call |-> c]
    BY <1>1, <1>6 DEF TypeInv, ThreadsTyped, FuseStates
  <2>2. fuse'[p] = [fuse[p] EXCEPT !.at = "gather"] /\ \A q \in Ranks \ {p} : fuse'[q] = fuse[q]
    BY <1>6 DEF TypeInv, ThreadsTyped
  <2> QED BY <2>1, <2>2
<1>11. ListsLaid'
  <2>1. ASSUME NEW q \in Ranks, NEW ino \in Files, ino \in DOMAIN tree[q]
        PROVE  IF WritesTo(q, ino)' THEN tree[q][ino].st_size = fuse'[q].call.fileSize
               ELSE Laid(blockList[q][ino], NumberOfBlocks(tree[q][ino].st_size))'
    <3>1. (WritesTo(q, ino)' <=> WritesTo(q, ino)) /\ (WritesTo(q, ino) => fuse'[q].call = fuse[q].call)
      BY <1>1, <1>6, <1>10 DEF WritesTo, InCall
    <3>2. PICK list, n : list = blockList[q][ino] /\ n = NumberOfBlocks(tree[q][ino].st_size)
      OBVIOUS
    <3>3. CASE WritesTo(q, ino)
      BY <2>1, <3>1, <3>3 DEF LocalInv, ListsLaid
    <3>4. CASE ~WritesTo(q, ino)
      <4>1. Laid(list, n)
        BY <2>1, <3>2, <3>4 DEF LocalInv, ListsLaid
      <4>2. Laid(list, n)'
        BY <1>8, <4>1, LaidStill
      <4>3. blockList'[q][ino] = list /\ NumberOfBlocks(tree'[q][ino].st_size) = n
        BY <1>6, <3>2
      <4> QED BY <3>1, <3>4, <4>2, <4>3
    <3> QED BY <3>3, <3>4
  <2> QED BY <1>6, <2>1 DEF ListsLaid
<1>12. ReadsOwn'
  BY <1>6, <1>10 DEF LocalInv, ReadsOwn
<1>13. PartsLocal'
  <2>1. ASSUME NEW k \in 1 .. Len(exchanges'), exchanges'[k].call.type = "WRITE",
               NEW r \in DOMAIN exchanges'[k].gathered, NEW i \in DOMAIN exchanges'[k].gathered[r]
        PROVE  IsLocal(r, exchanges[k].gathered[r][i])' 
    <3>1. CASE k = Len(exchanges) + 1
      BY <1>5, <1>8, <1>9, <2>1, <3>1
    <3>2. CASE k \in 1 .. Len(exchanges)
      <4>1. PICK a : a = exchanges[k].gathered[r][i]
        OBVIOUS
      <4>2. IsLocal(r, a) /\ r \in Ranks
        BY <1>9, <2>1, <3>2, <4>1 DEF LocalInv, PartsLocal, IInv, PartsOfThose
      <4>3. exchanges'[k].gathered[r][i] = a
        BY <1>9, <3>2, <4>1
      <4> QED BY <1>8, <4>2, <4>3
    <3> QED BY <1>9, <3>1, <3>2
  <2> QED BY <2>1 DEF PartsLocal
<1>14. PointerLocality'
  <2>1. ASSUME NEW k \in 1 .. Len(exchanges'), exchanges'[k].call.type = "READ", NEW r \in Ranks,
               NEW i \in DOMAIN ScatterPart(exchanges'[k].parts, r)
        PROVE  IsLocal(r, ScatterPart(exchanges[k].parts, r)[i])'
    <3>1. PICK a : a = ScatterPart(exchanges'[k].parts, r)[i]
      OBVIOUS
    <3>2. IsLocal(r, a)
      <4>1. CASE k = Len(exchanges) + 1
        <5>1. c.type = "READ" /\ exchanges'[k].parts = parts
          BY <1>5, <1>9, <2>1, <4>1
        <5>2. parts = Pointers(p, c.inode, NumberOfBlocks(c.fileSize))
          BY <1>2, <5>1
        <5> QED BY <1>1, <1>6, <2>1, <3>1, <5>1, <5>2, ReaderDeals
      <4>2. CASE k \in 1 .. Len(exchanges)
        BY <1>9, <2>1, <3>1, <4>2 DEF LocalInv, PointerLocality
      <4> QED BY <1>9, <4>1, <4>2
    <3>3. IsLocal(r, a)'
      BY <1>8, <3>2
    <3> QED BY <3>1, <3>3 DEF IsLocal
  <2> QED BY <2>1 DEF PointerLocality
<1> QED BY <1>11, <1>12, <1>13, <1>14 DEF LocalInv

(* What a write gathers is laid, whatever the list was. *)
LEMMA GatheredLaid ==
    ASSUME TypeInv, LocalInv, NEW p \in Ranks, pos[p] \in 1 .. Len(exchanges), Gathered(p),
           exchanges[pos[p]].call.type = "WRITE", NEW list \in Seq(Addresses)
    PROVE  Laid(Listed(list, GatheredParts(p)), NumberOfBlocks(exchanges[pos[p]].call.fileSize))
<1>1. PICK parts : parts = GatheredParts(p)
  OBVIOUS
<1>2. PICK n : n = NumberOfBlocks(exchanges[pos[p]].call.fileSize)
  OBVIOUS
<1>3. PICK e : e = exchanges[pos[p]]
  OBVIOUS
<1>4. parts \in Seq(Addresses) /\ Len(parts) = n
  BY <1>1, <1>2, GatheredType DEF TypeInv, ContributedType
<1>5. /\ Len(Listed(list, parts)) >= n
      /\ \A b \in 1 .. n : Listed(list, parts)[b] = parts[b]
  BY <1>4, ListedType
<1>6. DOMAIN e.gathered = Ranks /\ ExchangeTyped(e) /\ Len(e.parts) = n
  BY <1>2, <1>3 DEF Gathered, TypeInv, StoreTyped, ExchangeTyped
<1>7. n \in Nat /\ Len(Listed(list, parts)) \in Nat
  BY <1>4, ListedType
<1>8. ASSUME NEW r \in Ranks, NEW i \in 1 .. EffectiveBlocks(n, r)
      PROVE  IsLocal(r, Listed(list, parts)[Displ(n, r) + i])
  <2>1. Displ(n, r) + i \in 1 .. n
    <3>1. Displ(n, r) \in Nat /\ EffectiveBlocks(n, r) \in Nat
      BY <1>7, ShareType, RanksNatural
    <3>2. Displ(n, r) + i \in Share(n, r)
      BY <3>1 DEF Share
    <3> QED BY <1>7, <3>2, ShareInFile
  <2>2. parts[Displ(n, r) + i] = e.gathered[r][i]
    BY <1>1, <1>3, <1>4, GatheredType DEF TypeInv
  <2>3. i \in DOMAIN e.gathered[r]
    BY <1>6, <1>7 DEF ExchangeTyped
  <2>4. IsLocal(r, e.gathered[r][i])
    BY <1>3, <1>6, <2>3 DEF LocalInv, PartsLocal
  <2> QED BY <1>5, <2>1, <2>2, <2>4
<1> QED BY <1>1, <1>2, <1>5, <1>7, <1>8 DEF Laid

ListSet(p, ino, list) == blockList' = [blockList EXCEPT ![p][ino] = list]

(* The list of one inode at p is laid anew. *)
LEMMA LaidAgain ==
    ASSUME TypeInv, LocalInv, UNCHANGED <<heap, exchanges>>, NEW p \in Ranks, NEW ino \in Files, NEW size,
           NEW list, ListSet(p, ino, list), Laid(list, NumberOfBlocks(size)),
           InCall(fuse[p]) => fuse[p].call.type = "WRITE" /\ fuse[p].call.inode = ino,
           ~InCall(fuse'[p]), \A q \in Ranks : q # p => fuse'[q] = fuse[q] /\ tree'[q] = tree[q],
           DOMAIN tree'[p] = DOMAIN tree[p],
           \A other \in DOMAIN tree[p] : other # ino => tree'[p][other] = tree[p][other],
           ino \in DOMAIN tree[p] => tree'[p][ino].st_size = size
    PROVE  LocalInv'
<1>1. \A r, a : IsLocal(r, a)' <=> IsLocal(r, a)
  BY ExchangesStill
<1>2. /\ blockList'[p][ino] = list
      /\ \A q \in Ranks, other \in Files : q # p \/ other # ino => blockList'[q][other] = blockList[q][other]
  BY DEF TypeInv, StoreTyped, ListSet
<1>3. ListsLaid'
  <2>1. ASSUME NEW q \in Ranks, NEW other \in Files, other \in DOMAIN tree'[q]
        PROVE  IF WritesTo(q, other)' THEN tree'[q][other].st_size = fuse'[q].call.fileSize
               ELSE Laid(blockList'[q][other], NumberOfBlocks(tree'[q][other].st_size))
    <3>1. CASE q # p
      BY <1>2, <2>1, <3>1 DEF LocalInv, ListsLaid, WritesTo
    <3>2. CASE q = p /\ other = ino
      BY <1>2, <2>1, <3>2 DEF WritesTo
    <3>3. CASE q = p /\ other # ino
      <4>1. ~WritesTo(p, other)' /\ ~WritesTo(p, other)
        BY <3>3 DEF WritesTo
      <4> QED BY <1>2, <2>1, <3>3, <4>1 DEF LocalInv, ListsLaid
    <3> QED BY <3>1, <3>2, <3>3
  <2> QED BY <1>1, <2>1 DEF ListsLaid, Laid
<1>4. ReadsOwn'
  BY DEF LocalInv, ReadsOwn, InCall
<1> QED BY <1>3, <1>4, ExchangesStill DEF LocalInv

LEMMA GatherLocal == ASSUME IInv, TypeInv, LocalInv, NEW p \in Ranks, FuseGather(p) PROVE LocalInv'
<1>1. PICK c \in Calls : c = fuse[p].call
  BY FuseStateFacts DEF TypeInv, ThreadsTyped, FuseGather
<1>2. /\ UNCHANGED <<heap, exchanges, tree>> /\ fuse[p].at = "gather" /\ fuse' = [fuse EXCEPT ![p] = At("loop")]
      /\ Gathered(p)
  BY DEF FuseGather
<1>3. fuse'[p] = At("loop") /\ \A q \in Ranks : q # p => fuse'[q] = fuse[q]
  BY <1>2 DEF TypeInv, ThreadsTyped
<1>4. ~InCall(fuse'[p])
  BY <1>3 DEF InCall, At
<1>5. pos[p] \in 1 .. Len(exchanges) /\ exchanges[pos[p]].call = c
  <2>1. pos[p] = Len(exchanges) /\ Len(exchanges) > 0 /\ exchanges[Len(exchanges)].call = c
    BY <1>1, <1>2, WhoCalls DEF Working, Leads
  <2>2. Len(exchanges) \in Nat
    BY SequencesThere DEF IInv
  <2> QED BY <2>1, <2>2
<1>6. c.inode \in Files /\ c.type \in {"WRITE", "READ"}
  BY DEF Calls
<1>7. CASE c.type = "WRITE"
  <2>1. PICK list : list = Listed(blockList[p][c.inode], GatheredParts(p))
    OBVIOUS
  <2>2. ListSet(p, c.inode, list)
    BY <1>1, <1>7, <2>1 DEF FuseGather, ListSet
  <2>3. Laid(list, NumberOfBlocks(c.fileSize))
    BY <1>2, <1>5, <1>6, <1>7, <2>1, GatheredLaid DEF TypeInv, StoreTyped
  <2>4. c.inode \in DOMAIN tree[p] => tree'[p][c.inode].st_size = c.fileSize
    BY <1>1, <1>2, <1>6, <1>7 DEF LocalInv, ListsLaid, WritesTo, InCall
  <2> QED BY <1>1, <1>2, <1>3, <1>4, <1>6, <1>7, <2>2, <2>3, <2>4, LaidAgain
<1>8. CASE c.type = "READ"
  <2>1. UNCHANGED blockList
    BY <1>1, <1>8 DEF FuseGather
  <2>2. ASSUME NEW q \in Ranks, NEW ino
        PROVE  (WritesTo(q, ino)' <=> WritesTo(q, ino)) /\ (WritesTo(q, ino) => fuse'[q] = fuse[q])
    BY <1>1, <1>3, <1>4, <1>8 DEF WritesTo
  <2>3. \A r, a : IsLocal(r, a)' <=> IsLocal(r, a)
    BY <1>2, ExchangesStill
  <2>4. ListsLaid'
    <3>1. ASSUME NEW q \in Ranks, NEW ino \in Files, ino \in DOMAIN tree[q]
          PROVE  IF WritesTo(q, ino)' THEN tree[q][ino].st_size = fuse'[q].call.fileSize
                 ELSE Laid(blockList[q][ino], NumberOfBlocks(tree[q][ino].st_size))
      BY <2>2, <3>1 DEF LocalInv, ListsLaid
    <3> QED BY <1>2, <2>1, <2>3, <3>1 DEF ListsLaid, Laid
  <2>5. ReadsOwn'
    BY <1>2, <1>3, <1>4 DEF LocalInv, ReadsOwn, InCall
  <2> QED BY <1>2, <2>4, <2>5, ExchangesStill DEF LocalInv
<1> QED BY <1>6, <1>7, <1>8

LEMMA RecvGatherLocal == ASSUME IInv, TypeInv, LocalInv, NEW p \in Ranks, RecvGather(p) PROVE LocalInv'
<1>1. PICK c \in Calls : /\ c = recv[p].call /\ c.type = "WRITE" /\ pos[p] \in 1 .. Len(exchanges)
                         /\ exchanges[pos[p]].call = c
  BY RecvListed
<1>2. UNCHANGED <<heap, exchanges, fuse>> /\ recv[p].at = "gather" /\ Gathered(p)
  BY DEF RecvGather
<1>3. ~InCall(fuse[p])
  BY <1>2, WhoFollows DEF InCall
<1>4. c.inode \in Files /\ c.fileSize \in Nat
  BY DEF Calls
<1>5. PICK list : list = Listed(blockList[p][c.inode], GatheredParts(p))
  OBVIOUS
<1>6. ListSet(p, c.inode, list)
  BY <1>1, <1>5 DEF RecvGather, ListSet
<1>7. Laid(list, NumberOfBlocks(c.fileSize))
  BY <1>1, <1>2, <1>4, <1>5, GatheredLaid DEF TypeInv, StoreTyped
<1>8. /\ \A q \in Ranks : q # p => tree'[q] = tree[q]
      /\ DOMAIN tree'[p] = DOMAIN tree[p]
      /\ \A other \in DOMAIN tree[p] : other # c.inode => tree'[p][other] = tree[p][other]
      /\ c.inode \in DOMAIN tree[p] => tree'[p][c.inode].st_size = c.fileSize
  <2>1. CASE c.inode \in DOMAIN tree[p]
    <3>1. tree' = [tree EXCEPT ![p][c.inode].st_size = c.fileSize,
                               ![p][c.inode].st_blocks = Len(blockList'[p][c.inode])]
      BY <1>1, <2>1 DEF RecvGather
    <3>2. PICK n \in 2 .. MaxINodes : Table(tree[p], n) /\ n \in Nat /\ n > 1
      BY TreeThere DEF TypeInv
    <3>3. c.inode \in 0 .. n - 1 /\ tree[p][c.inode] \in INodeRecords(0 .. n - 1)
      BY <2>1, <3>2, TableFacts
    <3>4. PICK blocks, t : blocks = Len(blockList'[p][c.inode]) /\ t = SetSize(tree[p], c.inode, c.fileSize, blocks)
      OBVIOUS
    <3>5. SizeSet(p, c.inode, c.fileSize, blocks)
      BY <3>1, <3>4 DEF SizeSet
    <3>6. tree' = [tree EXCEPT ![p] = t]
      BY <3>2, <3>3, <3>4, <3>5, SizeIsSet DEF TypeInv, TreesTyped
    <3>7. /\ DOMAIN t = DOMAIN tree[p]
          /\ \A other \in DOMAIN tree[p] : other # c.inode => t[other] = tree[p][other]
      BY <3>4 DEF SetSize
    <3>8. t[c.inode].st_size = c.fileSize
      <4>1. blocks \in Nat
        BY <1>4, <3>4, RecvListed, ListedType DEF TypeInv, StoreTyped
      <4>2. PICK old : old = tree[p]
        OBVIOUS
      <4>3. Table(old, n)
        BY <3>2, <4>2
      <4>4. SetSize(old, c.inode, c.fileSize, blocks)[c.inode].st_size = c.fileSize
        BY ONLY <1>4, <3>2, <3>3, <4>1, <4>3, SizeSetTo
      <4> QED BY <3>4, <4>2, <4>4
    <3> QED BY <3>6, <3>7, <3>8 DEF TypeInv, TreesTyped
  <2>2. CASE c.inode \notin DOMAIN tree[p]
    BY <1>1, <2>2 DEF RecvGather
  <2> QED BY <2>1, <2>2
<1> QED BY <1>2, <1>3, <1>4, <1>6, <1>7, <1>8, LaidAgain

LEMMA RecvScatterLocal == ASSUME IInv, TypeInv, LocalInv, NEW p \in Ranks, RecvScatter(p) PROVE LocalInv'
<1>1. PICK k : k = pos[p] + 1
  OBVIOUS
<1>2. PICK e : e = exchanges[k]
  OBVIOUS
<1>3. PICK share : share = ScatterPart(e.parts, p)
  OBVIOUS
<1>4. PICK part : part = Contribution(p, e.call, share)
  OBVIOUS
<1>5. /\ k \in 1 .. Len(exchanges) /\ e.call \in Calls /\ share \in Seq(PartsType(e.call))
      /\ part \in Seq(ContributedType(e.call)) /\ Len(part) = EffectiveBlocks(Len(e.parts), p)
      /\ Replaced(exchanges, k, WithPart(e, p, part), exchanges')
      /\ heap' = Stored(p, e.call, share)
  BY <1>1, <1>2, <1>3, <1>4, JoinedExchange
<1>6. UNCHANGED <<fuse, tree, blockList>>
  BY DEF RecvScatter
<1>7. /\ \A r \in Ranks : \A a : IsLocal(r, a) => IsLocal(r, a)'
      /\ e.call.type = "WRITE" => \A i \in DOMAIN part : IsLocal(p, part[i])'
  BY <1>4, <1>5, ContributedLocal DEF TypeInv, StoreTyped
<1>8. PICK w : w = WithPart(e, p, part)
  OBVIOUS
<1>9. /\ w.call = e.call /\ w.parts = e.parts /\ w.gathered[p] = part
      /\ DOMAIN w.gathered = DOMAIN e.gathered \cup {p}
      /\ \A q \in DOMAIN e.gathered : q # p => w.gathered[q] = e.gathered[q]
  <2>1. IsExchange(e)
    BY <1>2, <1>5 DEF IInv, Shape
  <2>2. w = [call |-> e.call, parts |-> e.parts,
             gathered |-> [q \in DOMAIN e.gathered \cup {p} |-> IF q = p THEN part ELSE e.gathered[q]]]
    BY <1>8, <2>1 DEF WithPart, IsExchange
  <2> QED BY <2>2
<1>10. /\ Len(exchanges') = Len(exchanges) /\ exchanges'[k] = w
       /\ \A i \in 1 .. Len(exchanges) : i # k => exchanges'[i] = exchanges[i]
  BY <1>5, <1>8, ExceptFacts DEF IInv, Shape
<1>11. ListsLaid'
  <2>1. ASSUME NEW q \in Ranks, NEW ino \in Files, ino \in DOMAIN tree[q]
        PROVE  IF WritesTo(q, ino)' THEN tree[q][ino].st_size = fuse'[q].call.fileSize
               ELSE Laid(blockList[q][ino], NumberOfBlocks(tree[q][ino].st_size))'
    <3>1. WritesTo(q, ino)' <=> WritesTo(q, ino)
      BY <1>6 DEF WritesTo
    <3>2. PICK list, n : list = blockList[q][ino] /\ n = NumberOfBlocks(tree[q][ino].st_size)
      OBVIOUS
    <3>3. CASE WritesTo(q, ino)
      BY <1>6, <2>1, <3>1, <3>3 DEF LocalInv, ListsLaid
    <3>4. CASE ~WritesTo(q, ino)
      <4>1. Laid(list, n)
        BY <2>1, <3>2, <3>4 DEF LocalInv, ListsLaid
      <4>2. Laid(list, n)'
        BY <1>7, <4>1, LaidStill
      <4>3. blockList'[q][ino] = list /\ NumberOfBlocks(tree'[q][ino].st_size) = n
        BY <1>6, <3>2
      <4> QED BY <3>1, <3>4, <4>2, <4>3
    <3> QED BY <3>3, <3>4
  <2> QED BY <1>6, <2>1 DEF ListsLaid
<1>12. ReadsOwn'
  BY <1>6 DEF LocalInv, ReadsOwn
<1>13. PartsLocal'
  <2>1. ASSUME NEW j \in 1 .. Len(exchanges'), exchanges'[j].call.type = "WRITE",
               NEW r \in DOMAIN exchanges'[j].gathered, NEW i \in DOMAIN exchanges'[j].gathered[r]
        PROVE  IsLocal(r, exchanges[j].gathered[r][i])'
    <3>1. CASE j = k /\ r = p
      BY <1>7, <1>9, <1>10, <2>1, <3>1
    <3>2. CASE ~(j = k /\ r = p)
      <4>1. PICK a : a = exchanges[j].gathered[r][i]
        OBVIOUS
      <4>2. /\ j \in 1 .. Len(exchanges) /\ exchanges[j].call.type = "WRITE" /\ r \in DOMAIN exchanges[j].gathered
            /\ exchanges'[j].gathered[r] = exchanges[j].gathered[r]
        BY <1>2, <1>9, <1>10, <2>1, <3>2
      <4>3. IsLocal(r, a) /\ r \in Ranks
        BY <2>1, <4>1, <4>2 DEF LocalInv, PartsLocal, IInv, PartsOfThose
      <4>4. exchanges'[j].gathered[r][i] = a
        BY <4>1, <4>2
      <4> QED BY <1>7, <4>3, <4>4
    <3> QED BY <3>1, <3>2
  <2> QED BY <2>1 DEF PartsLocal
<1>14. PointerLocality'
  <2>1. ASSUME NEW j \in 1 .. Len(exchanges'), exchanges'[j].call.type = "READ", NEW r \in Ranks,
               NEW i \in DOMAIN ScatterPart(exchanges'[j].parts, r)
        PROVE  IsLocal(r, ScatterPart(exchanges[j].parts, r)[i])'
    <3>1. PICK a : a = ScatterPart(exchanges'[j].parts, r)[i]
      OBVIOUS
    <3>2. j \in 1 .. Len(exchanges) /\ exchanges[j].call.type = "READ" /\ exchanges'[j].parts = exchanges[j].parts
      BY <1>2, <1>9, <1>10, <2>1
    <3>3. IsLocal(r, a)
      BY <2>1, <3>1, <3>2 DEF LocalInv, PointerLocality
    <3>4. IsLocal(r, a)'
      BY <1>7, <3>3
    <3> QED BY <3>1, <3>4 DEF IsLocal
  <2> QED BY <2>1 DEF PointerLocality
<1> QED BY <1>11, <1>12, <1>13, <1>14 DEF LocalInv

LEMMA NextLocal == ASSUME IInv, TypeInv, LocalInv, [Next]_vars PROVE LocalInv'
<1>1. CASE UNCHANGED vars \/ Terminating
  BY <1>1, StutterLocal DEF Terminating
<1>2. CASE \E p \in Ranks : PeerNext(p)
  <2>1. PICK p \in Ranks : UserNext(p) \/ StartNext(p) \/ FuseNext(p) \/ RecvNext(p)
    BY <1>2 DEF PeerNext
  <2>2. CASE UserNext(p)
    BY <2>2, ChangeLocal, FlushLocal, OpenLocal, ThreadsLocal DEF UserNext
  <2>3. CASE StartNext(p)
    BY <2>3, ThreadsLocal DEF StartNext
  <2>4. CASE FuseNext(p)
    BY <2>4, ScatterLocal, GatherLocal, ThreadsLocal DEF FuseNext
  <2>5. CASE RecvNext(p)
    BY <2>5, ReplayLocal, RecvScatterLocal, RecvGatherLocal, ThreadsLocal DEF RecvNext
  <2> QED BY <2>1, <2>2, <2>3, <2>4, <2>5
<1> QED BY <1>1, <1>2 DEF Next

(***************************************************************************)
(* As long as users settle, the pointers that a DAGonFS_Read scatters go   *)
(* to the peers that malloc'ed the blocks, whichever peer reads a file and *)
(* whichever wrote it: every peer lays its list of the file from the same  *)
(* Allgatherv, and no size that a peer shows outruns its list.             *)
(***************************************************************************)
THEOREM PointersStayLocal == ASSUME Settled PROVE Spec => []PointerLocality
<1>1. Init => TypeInv /\ LocalInv
  BY InitTyped, InitLocal
<1>2. IInv /\ TypeInv /\ LocalInv /\ [Next]_vars => TypeInv' /\ LocalInv'
  BY NextTyped, NextLocal
<1>3. LocalInv => PointerLocality
  BY DEF LocalInv
<1> QED BY <1>1, <1>2, <1>3, PeersInvariance, PTL DEF Spec
==============================================================================
