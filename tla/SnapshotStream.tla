--------------------------- MODULE SnapshotStream ---------------------------
(***************************************************************************)
(* What a snapshot sends and what its reader makes of it.  The forked      *)
(* child of HeapSnapshotHandler::handleClient walks the ledger             *)
(* (src/DumpHeap.cpp), parses /proc/self/maps (src/MapParse.cpp) and sends *)
(* the threads' stacks (src/ThreadData_linux_arm.cpp, _x86.cpp) and the    *)
(* global variables (src/GlobalVariable_linux.cpp); a light snapshot is    *)
(* the walk alone, without contents.  All of it goes through sendTillEnd   *)
(* of src/HeapServer.cpp, and src/analyze.py reads the file it becomes.    *)
(*                                                                         *)
(* A word of four bytes is one token of the stream, and so is a header of  *)
(* 16 bytes: <<what, i>> and <<header>>.  Addresses and lengths count      *)
(* words.  Memory that is sent can be read, so that sendto fails only when *)
(* the client is gone.                                                     *)
(***************************************************************************)
EXTENDS Integers, FiniteSets, SequencesExt

CONSTANTS
    Snapshots   \* what a snapshot may find: [full, chunks, lines, sps, words]

(* A line of /proc/self/maps is the pieces that fgets returns it in: is    *)
(* there a "-" with something after it, a blank with at least five         *)
(* characters after it, and what the piece reads as if it is an element.   *)
Pieces ==
    {p \in [dash : BOOLEAN, blank : BOOLEAN, start : Nat, end : Nat,
            protect : SUBSET {"r", "w", "x", "s"}, path : BOOLEAN] : p.start <= p.end}

Chunks == [addr : Nat, size : Nat, backtraces : Nat, mmap : BOOLEAN, resident : BOOLEAN]

(* The ledger is a map from addresses.  The kernel lists mappings in the   *)
(* order of their addresses, and the last one (the vector page, vsyscall)  *)
(* is no private data of a file.                                           *)
ASSUME SnapshotAssumption ==
    \A s \in Snapshots :
        /\ s.full \in BOOLEAN
        /\ s.chunks \in Seq(Chunks) /\ s.sps \in Seq(Nat)
        /\ \A i, j \in DOMAIN s.chunks : s.chunks[i].addr = s.chunks[j].addr => i = j
        /\ \A a \in DOMAIN s.words : s.words[a] \in Nat
        /\ s.lines \in Seq(Seq(Pieces)) /\ s.lines # <<>>
        /\ \A i \in DOMAIN s.lines :
              /\ s.lines[i] # <<>>
              /\ s.lines[i][1].dash /\ s.lines[i][1].blank
              /\ s.lines[i][1].start < s.lines[i][1].end
              /\ \A j \in i + 1 .. Len(s.lines) : s.lines[i][1].end <= s.lines[j][1].start
        /\ LET last == s.lines[Len(s.lines)][1]
           IN  ~(last.protect = {"r", "w"} /\ last.path)

VARIABLES
    snapshot,   \* the memory and the kind of snapshot
    client,     \* whether the client is still there
    pc,
    next,       \* the chunk, context or list element to go on with
    start,      \* start in sendGlobalVariable
    list,       \* mapList, from its head
    out,        \* the calls of sendTillEnd to make, as what each has left to send
    sent,       \* the headers of the records sent so far
    stream      \* what the client has received

vars == <<snapshot, client, pc, next, start, list, out, sent, stream>>

NULL == 0
THREAD == -1    \* the special values of m_backtracesLen: 0x80000000 and 0x81000000
GLOBAL == -2

-----------------------------------------------------------------------------
(* sendTillEnd: a call of sendto may take any part of what is left.        *)

(* Mutant: what is left starts at the beginning again.                     *)
RestFromStart(data, n) == SubSeq(data, 1, Len(data) - n)

Rest(data, n) == SubSeq(data, n + 1, Len(data))

SendSome ==
    /\ out # <<>> /\ client
    /\ \E n \in {1, Len(Head(out))} :
          LET rest == Rest(Head(out), n)
          IN  /\ stream' = stream \o SubSeq(Head(out), 1, n)
              /\ out' = IF rest = <<>> THEN Tail(out) ELSE <<rest>> \o Tail(out)
    /\ UNCHANGED <<snapshot, client, pc, next, start, list, sent>>

(* Nothing arrives any more.  Callers do not look at the -1 and go on with *)
(* the next call.                                                          *)
SendLost ==
    /\ out # <<>> /\ ~client
    /\ out' = Tail(out)
    /\ UNCHANGED <<snapshot, client, pc, next, start, list, sent, stream>>

(* The flags of sendto are 0: the process may get a SIGPIPE instead.       *)
Killed ==
    /\ out # <<>> /\ ~client
    /\ pc' = "killed" /\ out' = <<>>
    /\ UNCHANGED <<snapshot, client, next, start, list, sent, stream>>

HangUp ==
    /\ client /\ pc \notin {"end", "killed"}
    /\ client' = FALSE
    /\ UNCHANGED <<snapshot, pc, next, start, list, out, sent, stream>>

Header(addr, len, backtraces, dataAttrib) ==
    [addr |-> addr, len |-> len, backtraces |-> backtraces, dataAttrib |-> dataAttrib]

Addresses(h) ==
    [i \in 1 .. (IF h.backtraces > 0 THEN h.backtraces ELSE 0) |-> <<"backtrace", i>>]
Content(h) == [i \in 1 .. (IF "content" \in h.dataAttrib THEN h.len ELSE 0) |-> <<"content", h.addr + i>>]

(* The two calls that send a record; a call with nothing to send is none.  *)
Send(h) ==
    /\ out' = <<<<<<h>>>> \o Addresses(h)>>
                  \o (IF Content(h) = <<>> THEN <<>> ELSE <<Content(h)>>)
    /\ sent' = Append(sent, h)

Sends(p) == pc = p /\ out = <<>>

GoTo(p, n) == pc' = p /\ next' = n

-----------------------------------------------------------------------------
(* DumpHeap::notifyChunk for the ledger's next entry, with the length      *)
(* HeapInfo's hashWalk rounds up.  A mapping that is not resident is left  *)
(* out, and no mapping's content is sent.                                  *)
Rounded(bytes) == (bytes + 3) \div 4

NotifyChunk ==
    /\ Sends("walk") /\ next <= Len(snapshot.chunks)
    /\ LET c == snapshot.chunks[next]
       IN  IF c.mmap /\ ~c.resident THEN UNCHANGED <<out, sent>>
           ELSE Send(Header(c.addr, Rounded(c.size), c.backtraces,
                            IF c.mmap THEN {"mmap"} ELSE IF snapshot.full THEN {"content"} ELSE {}))
    /\ GoTo("walk", next + 1)
    /\ UNCHANGED <<snapshot, client, start, list, stream>>

WalkEnds ==
    /\ Sends("walk") /\ next > Len(snapshot.chunks)
    /\ GoTo(IF snapshot.full THEN "parse" ELSE "end", 1)
    /\ UNCHANGED <<snapshot, client, start, list, out, sent, stream>>

-----------------------------------------------------------------------------
(* MapParse.  fgets returns a line that is too long in pieces.             *)

insertElement(l, e) == Append(l, e)

Element(line) ==
    [start |-> line.start, end |-> line.end, protect |-> line.protect, path |-> line.path]

(* A piece without a "-" with something after it, or without a blank with  *)
(* at least five characters after it, is not an element.                   *)
parseLine(l, piece) ==
    IF piece.dash /\ piece.blank THEN insertElement(l, Element(piece)) ELSE l

(* The list after each piece of a line, and after each line.               *)
parsePieces(l, pieces) ==
    LET after[n \in 0 .. Len(pieces)] ==
            IF n = 0 THEN l ELSE parseLine(after[n - 1], pieces[n])
    IN  after[Len(pieces)]

parseLines(lines) ==
    LET after[n \in 0 .. Len(lines)] ==
            IF n = 0 THEN <<>> ELSE parsePieces(after[n - 1], lines[n])
    IN  after[Len(lines)]

ParseMaps ==
    /\ Sends("parse")
    /\ list' = parseLines(snapshot.lines)
    /\ GoTo("stacks", 1)
    /\ UNCHANGED <<snapshot, client, start, out, sent, stream>>

-----------------------------------------------------------------------------
(* sendStackData.                                                          *)

lowerBound(addr) == SelectInSeq(list, LAMBDA e : e.start >= addr)

(* Mutant: always the element before the bound.                            *)
FoundBefore(sp) ==
    LET bound == lowerBound(sp)
    IN  IF bound = NULL THEN Len(list)
        ELSE IF bound # 1 THEN bound - 1 ELSE bound

Found(sp) ==
    LET bound == lowerBound(sp)
    IN  IF bound = NULL THEN Len(list)
        ELSE IF bound # 1 /\ list[bound].start # sp THEN bound - 1 ELSE bound

ReadWrite(e) == e.protect \ {"s"} = {"r", "w"}

SendStack ==
    /\ Sends("stacks") /\ next <= Len(snapshot.sps)
    /\ LET sp == snapshot.sps[next]
           e == list[Found(sp)]
       IN  IF e.start <= sp /\ e.end >= sp /\ ReadWrite(e)
           THEN Send(Header(sp, e.end - sp, THREAD, {"content"}))
           ELSE UNCHANGED <<out, sent>>
    /\ GoTo("stacks", next + 1)
    /\ UNCHANGED <<snapshot, client, start, list, stream>>

StacksEnd ==
    /\ Sends("stacks") /\ next > Len(snapshot.sps)
    /\ GoTo("globals", 1)
    /\ start' = TRUE
    /\ UNCHANGED <<snapshot, client, list, out, sent, stream>>

-----------------------------------------------------------------------------
(* sendGlobalVariable.  The list is a ring.                                *)

(* Mutant: the list ends in NULL.                                          *)
m_nextNull(i) == i + 1

m_next(i) == (i % Len(list)) + 1

Data(e) == e.protect = {"r", "w"} /\ e.path
SendElement(e) == Send(Header(e.start, e.end - e.start, GLOBAL, {"content"}))

(* Mutant: the mapping need not adjoin.                                    *)
FollowsAnywhere(old, i) == ReadWrite(list[i]) /\ ~list[i].path /\ i # 1

(* An anonymous mapping right behind data is its bss.                      *)
Follows(old, i) ==
    list[old].end = list[i].start /\ ReadWrite(list[i]) /\ ~list[i].path /\ i # 1

(* One round of the loop up to sendElement's calls for the data; the round *)
(* goes on with its bss.  Whatever follows data is passed over.            *)
SendData ==
    /\ Sends("globals") /\ (next # 1 \/ start)
    /\ start' = FALSE
    /\ IF Data(list[next])
       THEN /\ SendElement(list[next])
            /\ IF Follows(next, m_next(next)) THEN GoTo("bss", m_next(next))
               ELSE GoTo("globals", m_next(m_next(next)))
       ELSE GoTo("globals", m_next(next)) /\ UNCHANGED <<out, sent>>
    /\ UNCHANGED <<snapshot, client, list, stream>>

SendBss ==
    /\ Sends("bss")
    /\ SendElement(list[next])
    /\ GoTo("globals", m_next(next))
    /\ UNCHANGED <<snapshot, client, start, list, stream>>

(* freeMapList, shutdown and _exit.                                        *)
Finish ==
    /\ Sends("globals") /\ next = 1 /\ ~start
    /\ list' = <<>>
    /\ GoTo("end", 1)
    /\ UNCHANGED <<snapshot, client, start, out, sent, stream>>

-----------------------------------------------------------------------------
Init ==
    /\ snapshot \in Snapshots
    /\ client = TRUE
    /\ pc = "walk" /\ next = 1 /\ start = FALSE
    /\ list = <<>> /\ out = <<>> /\ sent = <<>> /\ stream = <<>>

Sending == SendSome \/ SendLost
Child == NotifyChunk \/ WalkEnds \/ ParseMaps \/ SendStack \/ StacksEnd
            \/ SendData \/ SendBss \/ Finish

Next == Sending \/ Child \/ Killed \/ HangUp

Spec == Init /\ [][Next]_vars

-----------------------------------------------------------------------------
(* The reader: parse of src/analyze.py, as the records it appends, with    *)
(* the ParseError it raises when the rest of a record is missing.  It      *)
(* takes any 16 bytes for a header where it expects one: Misread stands    *)
(* for what it makes of others.                                            *)
Misread == <<>>
ParseError == <<"ParseError">>

(* One round of its loop, which reads the record that begins at state.at.  *)
ReadRecord(data, state) ==
    LET h == data[state.at][1]
        end == state.at + Len(Addresses(h)) + Len(Content(h))
        Ends(record) == [at |-> Len(data) + 1, records |-> Append(state.records, record)]
    IN  IF state.at > Len(data) THEN state
        ELSE IF Len(data[state.at]) # 1 THEN Ends(Misread)
        ELSE IF end > Len(data) THEN Ends(ParseError)
        ELSE [at |-> end + 1, records |-> Append(state.records, SubSeq(data, state.at, end))]

parse(data) ==
    LET after[n \in 0 .. Len(data)] ==
            IF n = 0 THEN [at |-> 1, records |-> <<>>] ELSE ReadRecord(data, after[n - 1])
    IN  after[Len(data)].records

-----------------------------------------------------------------------------
(* Properties.                                                             *)

(* Besides the types: a list that is walked is never left.                 *)
TypeOK ==
    /\ pc \in {"walk", "parse", "stacks", "globals", "bss", "end", "killed"}
    /\ client \in BOOLEAN /\ start \in BOOLEAN
    /\ pc \in {"globals", "bss"} => next \in DOMAIN list
    /\ Len(out) <= 2 /\ <<>> \notin ToSet(out)

(* However sendto cuts the data, and wherever the client hangs up, the     *)
(* reader finds the first of the records that were sent, whole and in      *)
(* order, with nothing but its error behind them; and it finds all of them *)
(* if the client stayed.  A cut record raises that error, but a file that  *)
(* is cut in a header ends without one.                                    *)
Made(h) == <<<<h>>>> \o Addresses(h) \o Content(h)

Framed ==
    LET records == parse(stream)
        made == [i \in DOMAIN sent |-> Made(sent[i])]
    IN  /\ \E n \in 0 .. Len(sent) :
              records = SubSeq(made, 1, n) \/ records = Append(SubSeq(made, 1, n), ParseError)
        /\ pc = "end" /\ client => records = made

Mappings == [i \in DOMAIN snapshot.lines |-> Element(snapshot.lines[i][1])]

(* A path that is too long for fgets' buffer and reads as a mapping itself *)
(* from there.                                                             *)
Disguised ==
    \E line \in ToSet(snapshot.lines) :
        \E k \in 2 .. Len(line) : line[k].dash /\ line[k].blank

Sent(kind) == {h \in ToSet(sent) : h.backtraces = kind /\ h.len > 0}

(* Each thread's stack is sent from its sp to the end of the mapping its   *)
(* sp is in, at the borders of mappings too, and nothing else is.          *)
StacksSent ==
    pc = "globals" /\ ~Disguised =>
        Sent(THREAD) = UNION {{Header(sp, m.end - sp, THREAD, {"content"}) :
                                  m \in {m \in ToSet(Mappings) :
                                            m.start <= sp /\ sp < m.end /\ ReadWrite(m)}} :
                              sp \in ToSet(snapshot.sps)}

IsData(i) == i \in DOMAIN Mappings /\ Data(Mappings[i])
IsBss(i) ==
    /\ IsData(i - 1)
    /\ ReadWrite(Mappings[i]) /\ ~Mappings[i].path /\ Mappings[i - 1].end = Mappings[i].start

(* What was sent of the global variables, and what was to be sent up to    *)
(* each mapping.                                                           *)
SentGlobals ==
    LET upTo[k \in 0 .. Len(sent)] ==
            IF k = 0 THEN <<>>
            ELSE IF sent[k].backtraces = GLOBAL THEN Append(upTo[k - 1], sent[k])
            ELSE upTo[k - 1]
    IN  upTo[Len(sent)]

Globals ==
    LET upTo[k \in 0 .. Len(Mappings)] ==
            IF k = 0 THEN <<>>
            ELSE IF IsData(k) \/ IsBss(k)
            THEN Append(upTo[k - 1], Header(Mappings[k].start, Mappings[k].end - Mappings[k].start,
                                            GLOBAL, {"content"}))
            ELSE upTo[k - 1]
    IN  upTo[Len(Mappings)]

(* The program's global variables are sent, each mapping once and in the   *)
(* order of their addresses: private read-write mappings of files, and the *)
(* anonymous ones that adjoin them, when no two data mappings are          *)
(* neighbours.                                                             *)
GlobalsSent ==
    (pc = "end" /\ snapshot.full /\ ~Disguised
       /\ \A i \in DOMAIN Mappings : ~(IsData(i) /\ IsData(i + 1))) =>
        SentGlobals = Globals
=============================================================================
