------------------------------ MODULE ReadDir ------------------------------
(***************************************************************************)
(* The listing of one directory of the client-server version, through any  *)
(* number of open handles, while names come and go.  The offset that goes  *)
(* back and forth between kernel and handler is the address of an iterator *)
(* over the children, null at first; the iterator is the one piece of      *)
(* state of a listing.                                                     *)
(*                                                                         *)
(* The children are a std::map, sorted by name: a name is here its place   *)
(* in that order.  An iterator stays with its entry whatever else is       *)
(* inserted or erased; when its own entry is erased it is left pointing at *)
(* freed memory.                                                           *)
(***************************************************************************)
EXTENDS Integers, FiniteSets, FiniteSetsExt

CONSTANTS LastName,                 \* the names are 1 .. LastName
          NameLength,               \* NameLength[n]: the bytes of a name
          Handles,                  \* open directory handles
          RequestSize,              \* the size the kernel asks for
          kReadDirBufSize,
          kReadDirEntriesPerResponse,
          MaxChanges,               \* bound on the changes of the directory
          MaxListings               \* bound on the listings begun

Names == 1 .. LastName

ASSUME ReadDirAssumption == /\ LastName \in Nat
                            /\ NameLength \in [Names -> 1 .. 255]
                            /\ RequestSize \in Nat
                            /\ kReadDirBufSize \in Nat
                            /\ kReadDirEntriesPerResponse \in Nat
                            /\ MaxChanges \in Nat
                            /\ MaxListings \in Nat

(* Where an iterator is, if at no entry: not yet made, at the end of the   *)
(* children, at freed memory, or stepped back from the first entry.        *)
NoIterator == -1
End == -2
Freed == -3
BeforeBegin == -4
Undefined == {Freed, BeforeBegin}

VARIABLES
    children,       \* the names in the directory
    state,          \* state[h]: "closed", "reading", "ended"
    iterator,       \* iterator[h]: what the offset of handle h points to
    crashed,        \* an undefined iterator was used
    times,          \* history: how often h was sent each name in this listing
    lastSent,       \* history: the name that h was sent last
    stayed,         \* history: the names that were there all the time
    changes, listings

history == <<times, lastSent, stayed>>
vars == <<children, state, iterator, crashed, history, changes, listings>>

(* fuse_add_direntry: a header of 24 bytes and the name, padded to 8.      *)
EntrySize(n) == 8 * ((24 + NameLength[n] + 7) \div 8)
DotEntries == 2
DotBytes == DotEntries * 8 * ((24 + 2 + 7) \div 8)

BufSize == IF kReadDirBufSize < RequestSize THEN kReadDirBufSize ELSE RequestSize

(* What the sizes of an answer allow.  An entry takes at least 32 bytes, so *)
(* that an answer of 384 bytes is full before it has 255 entries; and two   *)
(* names of up to 168 bytes fit in one.                                     *)
AnyOneFits == \A n \in Names : DotBytes + EntrySize(n) <= BufSize
AnyTwoFit == \A n, k \in Names : n # k => EntrySize(n) + EntrySize(k) <= BufSize
FullByBytes == BufSize < 32 * kReadDirEntriesPerResponse

Often == 3      \* bound on the history of how often a name was sent

SmallestOf(S) == CHOOSE n \in S : \A k \in S : n <= k
LargestOf(S) == CHOOSE n \in S : \A k \in S : k <= n
-----------------------------------------------------------------------------
Init == /\ children \in SUBSET Names
        /\ state = [h \in Handles |-> "closed"]
        /\ iterator = [h \in Handles |-> NoIterator]
        /\ crashed = FALSE
        /\ times = [h \in Handles |-> [n \in Names |-> 0]]
        /\ lastSent = [h \in Handles |-> NoIterator]
        /\ stayed = [h \in Handles |-> {}]
        /\ changes = 0
        /\ listings = 0

(* The history of a new listing of h, which begins at a null offset.       *)
NewListing(h) == /\ state' = [state EXCEPT ![h] = "reading"]
                 /\ iterator' = [iterator EXCEPT ![h] = NoIterator]
                 /\ times' = [times EXCEPT ![h] = [n \in Names |-> 0]]
                 /\ lastSent' = [lastSent EXCEPT ![h] = NoIterator]
                 /\ stayed' = [stayed EXCEPT ![h] = children]
                 /\ listings' = listings + 1

FuseOpenDir(h) == /\ state[h] = "closed"
                  /\ listings < MaxListings
                  /\ NewListing(h)
                  /\ UNCHANGED <<children, crashed, changes>>

(* rewinddir: the next request has offset null again, and makes a new      *)
(* iterator; nothing deletes the old one.                                  *)
Rewind(h) == /\ state[h] \in {"reading", "ended"}
             /\ listings < MaxListings
             /\ NewListing(h)
             /\ UNCHANGED <<children, crashed, changes>>

(* The handler does nothing, and the iterator is left on the heap.         *)
FuseReleaseDir(h) == /\ state[h] \in {"reading", "ended"}
                     /\ state' = [state EXCEPT ![h] = "closed"]
                     /\ iterator' = [iterator EXCEPT ![h] = NoIterator]
                     /\ UNCHANGED <<children, crashed, history, changes, listings>>

(* The entries from the iterator on, or from the first one.                *)
Ahead(h) == IF iterator[h] = NoIterator THEN children
            ELSE IF iterator[h] = End THEN {}
            ELSE {n \in children : n >= iterator[h]}
UpTo(S, n) == {k \in S : k <= n}

DotsAdded(h) == IF iterator[h] = NoIterator THEN DotEntries ELSE 0
BytesAdded(h, S) == (IF iterator[h] = NoIterator THEN DotBytes ELSE 0) + MapThenSumSet(EntrySize, S)
EntriesAdded(h, S) == DotsAdded(h) + Cardinality(S)

(* The entries the loop adds: it stops at the first that does not fit.     *)
Added(h) == {n \in Ahead(h) :
                /\ BytesAdded(h, UpTo(Ahead(h), n)) <= BufSize
                /\ EntriesAdded(h, UpTo(Ahead(h), n)) <= kReadDirEntriesPerResponse}

Before(n) == {k \in children : k < n}
(* Slip: it steps over the entry that did not fit. *)
StepBack_forward(n) == IF \A k \in children : k <= n THEN End
                       ELSE SmallestOf({k \in children : k > n})
(* Slip: it steps back twice. *)
StepBack_twice(n) == LET once == LargestOf(Before(n))
                     IN  IF Before(once) = {} THEN once ELSE LargestOf(Before(once))
(* Slip: it goes back to begin(). *)
StepBack_begin(n) == SmallestOf(children)

StepBack(n) == IF Before(n) = {} THEN BeforeBegin ELSE LargestOf(Before(n))

(* Slip: an index that has reached the number of entries, for end().      *)
IteratorAfter_index(h) ==
    IF Ahead(h) = Added(h) THEN Cardinality(children) ELSE StepBack(SmallestOf(Ahead(h) \ Added(h)))

(* Where the loop leaves the iterator.  When an entry does not fit it goes *)
(* back to the one before.                                                 *)
IteratorAfter(h) ==
    LET rest == Ahead(h) \ Added(h)
    IN  IF rest = {} THEN End
        ELSE IF EntriesAdded(h, Added(h)) >= kReadDirEntriesPerResponse THEN SmallestOf(rest)
        ELSE StepBack(SmallestOf(rest))

(* A request with the offset that came with every entry of the answer      *)
(* before.  At the end the answer is an empty buffer; a reader takes that  *)
(* for the end of the listing.  A reader takes all entries of an answer.   *)
FuseReadDir(h) ==
    /\ state[h] = "reading"
    /\ IF iterator[h] \in Undefined
       THEN /\ crashed' = TRUE
            /\ UNCHANGED <<state, iterator, times, lastSent>>
       ELSE /\ state' = [state EXCEPT ![h] = IF iterator[h] = End THEN "ended" ELSE @]
            /\ iterator' = [iterator EXCEPT ![h] = IteratorAfter(h)]
            /\ times' = [times EXCEPT ![h] = [n \in Names |-> IF n \in Added(h) /\ @[n] < Often THEN @[n] + 1 ELSE @[n]]]
            /\ lastSent' = [lastSent EXCEPT ![h] = IF Added(h) = {} THEN @ ELSE LargestOf(Added(h))]
            /\ UNCHANGED crashed
    /\ UNCHANGED <<children, stayed, changes, listings>>

(* A name appears, by create, mkdir and the like.                          *)
UpdateChild(n) == /\ n \notin children
                  /\ changes < MaxChanges
                  /\ children' = children \cup {n}
                  /\ changes' = changes + 1
                  /\ UNCHANGED <<state, iterator, crashed, history, listings>>

(* A name goes, by unlink, rmdir or rename, and every iterator at it dangles. *)
DeleteChild(n) == /\ n \in children
                  /\ changes < MaxChanges
                  /\ children' = children \ {n}
                  /\ changes' = changes + 1
                  /\ iterator' = [h \in Handles |-> IF iterator[h] = n THEN Freed ELSE iterator[h]]
                  /\ stayed' = [h \in Handles |-> IF state[h] = "reading" THEN stayed[h] \ {n} ELSE stayed[h]]
                  /\ UNCHANGED <<state, crashed, times, lastSent, listings>>

HandleNext(h) == FuseOpenDir(h) \/ Rewind(h) \/ FuseReadDir(h) \/ FuseReleaseDir(h)
Next == /\ ~crashed
        /\ \/ \E h \in Handles : HandleNext(h)
           \/ \E n \in Names : UpdateChild(n) \/ DeleteChild(n)

(* A reader asks for more until it is told that there is none.             *)
Fairness == \A h \in Handles : WF_vars(~crashed /\ FuseReadDir(h))
Spec == Init /\ [][Next]_vars /\ Fairness
-----------------------------------------------------------------------------
(* Properties. *)

(* An iterator at an entry is at one that is there. *)
TypeOK ==
    /\ children \subseteq Names
    /\ state \in [Handles -> {"closed", "reading", "ended"}]
    /\ iterator \in [Handles -> children \cup Undefined \cup {NoIterator, End}]
    /\ crashed \in BOOLEAN
    /\ times \in [Handles -> [Names -> 0 .. Often]]
    /\ lastSent \in [Handles -> Names \cup {NoIterator}]
    /\ stayed \in [Handles -> SUBSET Names]
    /\ changes \in 0 .. MaxChanges /\ listings \in 0 .. MaxListings

(***************************************************************************)
(* A listing that was told the end has been sent every name that was in    *)
(* the directory from its start to its end, whatever came and went in      *)
(* between and wherever the buffers were full.                             *)
(***************************************************************************)
Complete == \A h \in Handles : state[h] = "ended" =>
                \A n \in stayed[h] : times[h][n] > 0

(***************************************************************************)
(* Between two answers the iterator stands at the end or at the name that  *)
(* was sent last, never at one still to be sent, and never before begin(). *)
(* So a name that is removed can only leave an iterator dangling if the    *)
(* reader was sent it last, as a reader that removes what it reads does.   *)
(***************************************************************************)
StandsAtLastSent == \A h \in Handles :
    /\ iterator[h] # BeforeBegin
    /\ iterator[h] \in Names => iterator[h] = lastSent[h]

(***************************************************************************)
(* What a listing has still ahead of it was not sent yet, but for the name *)
(* sent last: no other name that stayed is sent again, wherever one was    *)
(* added in the middle.                                                    *)
(***************************************************************************)
OnlyLastSentAgain == \A h \in Handles :
    state[h] = "reading" /\ iterator[h] \notin Undefined =>
        \A n \in Ahead(h) \cap stayed[h] : times[h][n] > 0 => n = lastSent[h]

(***************************************************************************)
(* No child that stayed is sent twice in a listing.  The code says that it *)
(* takes care of this; the step back at a full answer does not.            *)
(***************************************************************************)
SentOnce == \A h \in Handles : \A n \in stayed[h] : times[h][n] <= 1

(***************************************************************************)
(* Every listing comes to its end, for a reader that asks on: each answer  *)
(* but the last gets past the entry that is sent again.                    *)
(***************************************************************************)
ListingEnds == \A h \in Handles : state[h] = "reading" ~> (state[h] # "reading" \/ crashed)
=============================================================================
