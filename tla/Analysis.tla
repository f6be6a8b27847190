------------------------------ MODULE Analysis ------------------------------
(***************************************************************************)
(* What src/analyze.py makes of the file a snapshot has become: the        *)
(* elements of the file, sorted and without the roots that collide with    *)
(* allocations, are searched for pointers to each other.  Without options  *)
(* it reports what nothing points to; with --mark-and-sweep, what no       *)
(* thread's stack and no global variable reaches, in groups of elements    *)
(* that point to each other.                                               *)
(*                                                                         *)
(* SnapshotStream writes the file.  The words of snapshot.words hold       *)
(* values, all others 0.  A Python list is a sequence, an element of       *)
(* generalList is its index, and an alias set, which groups share by       *)
(* reference, is an index of sets.  A report is a set of groups of         *)
(* addresses: how it is printed is left out.                               *)
(***************************************************************************)
EXTENDS SnapshotStream

CONSTANTS
    PageSize    \* PAGE_SIZE, in words

ASSUME PageSizeAssumption == PageSize \in Nat \ {0}

VARIABLES
    phase,
    option,
    l,          \* generalList, and not_marked_list once it is swept
    refCount,   \* e.refCount of each element of l
    stack,      \* markStack and process_stack
    group,      \* e.group_index_, or NULL
    groups_1,   \* the groups of pass 1, as lists of elements
    alias_set,  \* the index of each group's alias set, or NULL
    sets,       \* the alias sets
    report

graph == <<refCount, stack>>
split == <<group, groups_1, alias_set, sets>>
analysisVars == <<phase, option, l, graph, split, report>>

-----------------------------------------------------------------------------
(* generalList.                                                            *)

Word(addr) == IF addr \in DOMAIN snapshot.words THEN snapshot.words[addr] ELSE 0

HeapElement(record) ==
    LET h == record[1][1]
    IN  [addr |-> h.addr, size |-> h.len, special |-> h.backtraces \in {THREAD, GLOBAL},
         backtraces |-> h.backtraces > 0, dataAttrib |-> h.dataAttrib,
         userContent |-> [i \in DOMAIN Content(h) |-> Word(h.addr + i - 1)]]

(* Elements compare by their addresses, and the sort is stable.            *)
Insert(done, e) ==
    InsertAt(done, 1 + Cardinality({i \in DOMAIN done : done[i].addr <= e.addr}), e)

Sorted(list_) ==
    LET done[n \in 0 .. Len(list_)] == IF n = 0 THEN <<>> ELSE Insert(done[n - 1], list_[n])
    IN  done[Len(list_)]

(* The members of a sequence that are in S, in their order.                *)
Filtered(s, S) ==
    LET upTo[n \in 0 .. Len(s)] ==
            IF n = 0 THEN <<>>
            ELSE IF s[n] \in S THEN Append(upTo[n - 1], s[n]) ELSE upTo[n - 1]
    IN  upTo[Len(s)]

InOrder(S) == Filtered([i \in DOMAIN l |-> i], S)

-----------------------------------------------------------------------------
(* remove_collision.  A search goes on between the indices lo, excluded,   *)
(* and hi; every round makes them closer, so that as many as the list has  *)
(* elements are enough.                                                    *)
Overlap(a, e) ==
    \/ a.addr < e.addr /\ a.addr + a.size > e.addr
    \/ a.addr > e.addr /\ e.addr + e.size > a.addr
    \/ a.addr = e.addr

(* One round of the search for an allocation that overlaps element i.      *)
CollidingRound(list_, i, at) ==
    LET mid == ((at.lo + at.hi) \div 2) + 1
        e == list_[mid]
    IN  IF at.lo >= at.hi THEN at
        ELSE IF e.addr = list_[i].addr \/ (~e.special /\ Overlap(e, list_[i]))
        THEN [lo |-> at.hi, hi |-> at.hi, found |-> IF e.special THEN NULL ELSE mid]
        ELSE IF e.addr < list_[i].addr THEN [at EXCEPT !.lo = mid]
        ELSE [at EXCEPT !.hi = mid - 1]

Colliding(list_, i) ==
    LET after[n \in 0 .. Len(list_)] ==
            IF n = 0 THEN [lo |-> 0, hi |-> Len(list_), found |-> NULL]
            ELSE CollidingRound(list_, i, after[n - 1])
    IN  after[Len(list_)].found

RoundDown(addr) == (addr \div PageSize) * PageSize

(* What becomes of e when it overlaps a: its size, 0 to remove it.         *)
NewSize(e, a) ==
    IF a.addr <= e.addr \/ RoundDown(a.addr) = e.addr THEN 0 ELSE RoundDown(a.addr) - e.addr

Resized(e, size) ==
    LET shrunk == [e EXCEPT !.size = size]
        length == IF size < Len(e.userContent) THEN size ELSE Len(e.userContent)
    IN  [shrunk EXCEPT !.userContent = SubSeq(@, 1, length)]

(* list.remove takes the first element that compares equal.                *)
Removed(list_, e) == RemoveAt(list_, SelectInSeq(list_, LAMBDA x : x.addr = e.addr))

(* Sizes are reduced at once, so that the searches of later elements see   *)
(* them, and elements removed at the end.  A size that is not positive is  *)
(* a failed assertion.                                                     *)
Collision(state, i) ==
    LET a == Colliding(state.list_, i)
        e == state.list_[i]
    IN  IF ~e.special \/ a = NULL THEN state
        ELSE LET size == NewSize(e, state.list_[a])
             IN  IF size = 0 THEN [state EXCEPT !.remove_list = Append(@, e)]
                 ELSE IF size < 0 THEN [state EXCEPT !.asserted = FALSE]
                 ELSE [state EXCEPT !.list_[i] = Resized(e, size)]

remove_collision(list_) ==
    LET after[i \in 0 .. Len(list_)] ==
            IF i = 0 THEN [list_ |-> list_, remove_list |-> <<>>, asserted |-> TRUE]
            ELSE Collision(after[i - 1], i)
        state == after[Len(list_)]
        left[i \in 0 .. Len(state.remove_list)] ==
            IF i = 0 THEN state.list_ ELSE Removed(left[i - 1], state.remove_list[i])
    IN  [asserted |-> state.asserted, list_ |-> left[Len(state.remove_list)]]

-----------------------------------------------------------------------------
(* analyzeHeapElementMember.                                               *)

SearchRound(a, x, at) ==
    LET mid == ((at.lo + at.hi) \div 2) + 1
    IN  IF at.lo >= at.hi THEN at
        ELSE IF a[mid].addr = x THEN [lo |-> at.hi, hi |-> at.hi, candidate |-> mid]
        ELSE IF a[mid].addr > x THEN [at EXCEPT !.hi = mid - 1]
        ELSE IF a[mid].addr + a[mid].size >= x
        THEN [lo |-> mid, hi |-> at.hi, candidate |-> mid]
        ELSE [at EXCEPT !.lo = mid]

Search(a, x, hi) ==
    LET after[n \in 0 .. Len(a)] ==
            IF n = 0 THEN [lo |-> 0, hi |-> hi, candidate |-> NULL]
            ELSE SearchRound(a, x, after[n - 1])
    IN  after[Len(a)].candidate

(* Mutant: hi is the last index, not the one behind it.                    *)
searchToLast(a, x) == Search(a, x, Len(a) - 1)

(* The element that starts at x, or else the last on the way that x is     *)
(* inside of or right behind.                                              *)
searchInListLoose(a, x) == Search(a, x, Len(a))

(* The elements the callback is called with for element i, in order.       *)
References(i) ==
    LET Target(x) == IF x < l[1].addr \/ x > Last(l).addr THEN NULL ELSE searchInListLoose(l, x)
    IN  Filtered([k \in DOMAIN l[i].userContent |-> Target(l[i].userContent[k])], DOMAIN l)

(* extractNotRefElement.                                                   *)
NotReferenced(count) ==
    {i \in DOMAIN l : count[i] = 0 /\ ~l[i].special /\ "mmap" \notin l[i].dataAttrib}

(* writeElementSet: without backtraces nothing is written.                 *)
Written(indices) == {l[i].addr : i \in {i \in indices : l[i].backtraces}}

-----------------------------------------------------------------------------
(* The main program, when the file is complete or its writer has gone.     *)
ReadFile ==
    /\ phase = "wait" /\ pc \in {"end", "killed"}
    /\ LET records == parse(stream)
       IN  IF {ParseError, Misread} \cap ToSet(records) # {}
           THEN phase' = "raised" /\ UNCHANGED <<option, l, refCount>>
           ELSE LET elements == [i \in DOMAIN records |-> HeapElement(records[i])]
                    result == remove_collision(Sorted(elements))
                IN  IF result.asserted
                    THEN /\ phase' = "read" /\ l' = result.list_
                         /\ option' \in {"zero", "mark_and_sweep"}
                         /\ refCount' = [i \in DOMAIN l' |-> 0]
                    ELSE phase' = "raised" /\ UNCHANGED <<option, l, refCount>>
    /\ UNCHANGED <<stack, split, report>>

ReferenceCount(i) ==
    Cardinality(UNION {{<<j, k>> : k \in {k \in DOMAIN References(j) : References(j)[k] = i}} :
                          j \in DOMAIN l})

AnalyzeZeroRef ==
    /\ phase = "read" /\ option = "zero"
    /\ refCount' = [i \in DOMAIN l |-> ReferenceCount(i)]
    /\ report' = {Written(NotReferenced(refCount'))} \ {{}}
    /\ phase' = "end"
    /\ UNCHANGED <<option, l, stack, split>>

-----------------------------------------------------------------------------
(* analyzeMarkAndSweep: a mark is a refCount of 1.                         *)
MarkRoots ==
    /\ phase = "read" /\ option = "mark_and_sweep"
    /\ refCount' = [i \in DOMAIN l |-> IF l[i].special THEN 1 ELSE 0]
    /\ stack' = InOrder({i \in DOMAIN l : l[i].special})
    /\ phase' = "mark"
    /\ UNCHANGED <<option, l, split, report>>

(* Mutant: marked elements are searched again.                             *)
MarkingAgain(state, e) ==
    [refCount |-> [state.refCount EXCEPT ![e] = 1], stack |-> Append(state.stack, e)]

Marking(state, e) ==
    IF state.refCount[e] # 0 THEN state
    ELSE [refCount |-> [state.refCount EXCEPT ![e] = 1], stack |-> Append(state.stack, e)]

Mark ==
    /\ phase = "mark" /\ stack # <<>>
    /\ LET called == References(Last(stack))
           after[n \in 0 .. Len(called)] ==
               IF n = 0 THEN [refCount |-> refCount, stack |-> Front(stack)]
               ELSE Marking(after[n - 1], called[n])
       IN  refCount' = after[Len(called)].refCount /\ stack' = after[Len(called)].stack
    /\ UNCHANGED <<phase, option, l, split, report>>

Sweep ==
    /\ phase = "mark" /\ stack = <<>>
    /\ LET left == InOrder(NotReferenced(refCount))
       IN  l' = [k \in DOMAIN left |-> l[left[k]]]
    /\ refCount' = [i \in DOMAIN l' |-> 0]
    /\ group' = [i \in DOMAIN l' |-> NULL]
    /\ phase' = "split"
    /\ UNCHANGED <<option, stack, groups_1, alias_set, sets, report>>

-----------------------------------------------------------------------------
(* splitNotMarked, pass 1: a depth-first search from every element that    *)
(* has no group yet.                                                       *)
current_grp_index == Len(groups_1)

Ungrouped == {i \in DOMAIN l : group[i] = NULL}

NewGroup ==
    /\ phase = "split" /\ stack = <<>> /\ Ungrouped # {}
    /\ groups_1' = Append(groups_1, <<>>)
    /\ alias_set' = Append(alias_set, NULL)
    /\ stack' = <<CHOOSE i \in Ungrouped : \A j \in Ungrouped : i <= j>>
    /\ UNCHANGED <<phase, option, l, refCount, group, sets, report>>

Visit ==
    /\ phase = "split" /\ stack # <<>>
    /\ LET e == Last(stack)
       IN  /\ group[e] = NULL
           /\ group' = [group EXCEPT ![e] = current_grp_index]
           /\ groups_1' = [groups_1 EXCEPT ![current_grp_index] = Append(@, e)]
           /\ stack' = Front(stack) \o
                          Filtered(References(e), {he \in DOMAIN l : group'[he] # current_grp_index})
    /\ UNCHANGED <<phase, option, l, refCount, alias_set, sets, report>>

(* Mutant: the groups of a set keep it when another takes it in.           *)
Swallow(from, to) ==
    /\ sets' = [sets EXCEPT ![to] = @ \cup sets[from]]
    /\ UNCHANGED alias_set

(* All groups of one set share another, which takes them in.               *)
Share(from, to) ==
    /\ sets' = [sets EXCEPT ![to] = @ \cup sets[from]]
    /\ alias_set' = [g \in DOMAIN alias_set |-> IF g \in sets[from] THEN to ELSE alias_set[g]]

(* The current group and the one of an element met in its search are to be *)
(* merged.                                                                 *)
Alias(mine, other) ==
    LET his == alias_set[other]
        ours == alias_set[mine]
    IN  CASE his # NULL /\ ours = NULL ->
               /\ sets' = [sets EXCEPT ![his] = @ \cup {mine}]
               /\ alias_set' = [alias_set EXCEPT ![mine] = his]
          [] his # NULL /\ ours # NULL ->
               IF sets[his] = sets[ours] THEN UNCHANGED <<sets, alias_set>>
               ELSE IF Cardinality(sets[ours]) > Cardinality(sets[his])
                    THEN Share(his, ours)
                    ELSE Share(ours, his)
          [] his = NULL /\ ours # NULL ->
               /\ sets' = [sets EXCEPT ![ours] = @ \cup {other}]
               /\ alias_set' = [alias_set EXCEPT ![other] = ours]
          [] OTHER ->
               /\ sets' = Append(sets, {mine, other})
               /\ alias_set' = [alias_set EXCEPT ![mine] = Len(sets'), ![other] = Len(sets')]

Meet ==
    /\ phase = "split" /\ stack # <<>>
    /\ LET other == group[Last(stack)]
       IN  /\ other # NULL
           /\ IF other = current_grp_index THEN UNCHANGED <<sets, alias_set>>
              ELSE Alias(current_grp_index, other)
    /\ stack' = Front(stack)
    /\ UNCHANGED <<phase, option, l, refCount, group, groups_1, report>>

(* Pass 2: the groups of an alias set become one, and none may be in two.  *)
Merging(state, g) ==
    LET whole == IF alias_set[g] = NULL THEN {g} ELSE sets[alias_set[g]]
    IN  IF g \in state.merged THEN state
        ELSE [merged |-> state.merged \cup whole,
              groups_2 |-> Append(state.groups_2, UNION {ToSet(groups_1[a]) : a \in whole}),
              raised |-> state.raised \/ whole \cap state.merged # {}]

Merge ==
    /\ phase = "split" /\ stack = <<>> /\ Ungrouped = {}
    /\ LET after[g \in 0 .. Len(groups_1)] ==
               IF g = 0 THEN [merged |-> {}, groups_2 |-> <<>>, raised |-> FALSE]
               ELSE Merging(after[g - 1], g)
           state == after[Len(groups_1)]
       IN  IF state.raised THEN phase' = "raised" /\ UNCHANGED report
           ELSE /\ phase' = "end"
                /\ report' = {Written(g) : g \in ToSet(state.groups_2)} \ {{}}
    /\ UNCHANGED <<option, l, graph, split>>

-----------------------------------------------------------------------------
AnalysisInit ==
    /\ Init
    /\ phase = "wait" /\ option = "zero" /\ l = <<>>
    /\ refCount = <<>> /\ stack = <<>>
    /\ group = <<>> /\ groups_1 = <<>> /\ alias_set = <<>> /\ sets = <<>>
    /\ report = {}

Analyze ==
    /\ ReadFile \/ AnalyzeZeroRef \/ MarkRoots \/ Mark \/ Sweep
          \/ NewGroup \/ Visit \/ Meet \/ Merge
    /\ UNCHANGED vars

Stream == Next /\ UNCHANGED analysisVars

AnalysisNext == Stream \/ Analyze

AnalysisSpec == AnalysisInit /\ [][AnalysisNext]_<<vars, analysisVars>>

Busy == phase \in {"read", "mark", "split"} \/ (phase = "wait" /\ pc \in {"end", "killed"})

(* One thread sends, and a client that is there reads; the analysis is a   *)
(* process of its own.  The second is WF_analysisVars(Analyze), with what  *)
(* enables Analyze written out and its steps named by what they change:    *)
(* the general form makes TLC repeat every fold for every state.           *)
FairAnalysisSpec ==
    /\ AnalysisSpec
    /\ WF_vars((Sending \/ Child) /\ UNCHANGED analysisVars)
    /\ []<>~Busy \/ []<><<TRUE>>_analysisVars

-----------------------------------------------------------------------------
(* Properties.                                                             *)

(* Besides the types: every group has an alias set that exists and holds   *)
(* it, or none.                                                            *)
AnalysisTypeOK ==
    /\ TypeOK
    /\ phase \in {"wait", "read", "mark", "split", "end", "raised"}
    /\ ToSet(stack) \subseteq DOMAIN l
    /\ \A g \in DOMAIN groups_1 : alias_set[g] # NULL => g \in sets[alias_set[g]]

Words(h) ==
    IF "content" \in h.dataAttrib THEN {Word(a) : a \in h.addr .. (h.addr + h.len - 1)} ELSE {}

(* What a pointer refers to in a set of headers: what starts there, else   *)
(* what it is inside of or right behind.  Beyond the last start no header  *)
(* is looked for.                                                          *)
Refers(headers, a, b) ==
    \E x \in Words(a) :
        /\ \E h \in headers : h.addr >= x
        /\ IF \E h \in headers : h.addr = x THEN b.addr = x
           ELSE b.addr < x /\ x <= b.addr + b.len

Root(h) == h.backtraces \in {THREAD, GLOBAL}
Allocation(h) == ~Root(h) /\ "mmap" \notin h.dataAttrib

Overlapping(a, b) == a.addr = b.addr \/ (a.addr < b.addr + b.len /\ b.addr < a.addr + a.len)
Collides(headers, r) == \E h \in headers : ~Root(h) /\ Overlapping(h, r)

Pointers(headers) == {p \in headers \X headers : Refers(headers, p[1], p[2])}
Starts(headers) == {p \in headers \X headers : p[2].addr \in Words(p[1])}

(* What a relation leads to from some of the headers.                      *)
Reached(headers, from, Related) ==
    LET In[n \in 0 .. Cardinality(headers)] ==
            IF n = 0 THEN from
            ELSE LET before == In[n - 1]
                 IN  before \cup {p[2] : p \in {p \in Related : p[1] \in before}}
    IN  In[Cardinality(headers)]

Headers == ToSet(sent)
Roots == {h \in Headers : Root(h)}

(* Only roots overlap each other, and there is one of each allocation.     *)
NoCollision == \A a, b \in Headers : Overlapping(a, b) => a = b \/ (Root(a) /\ Root(b))

(* What remove_collision leaves as it was.                                 *)
Whole == {h \in Headers : Root(h) => ~Collides(Headers, h)}

(* An allocation inside a root leaves the root a size that is not negative *)
(* when what is before the allocation's page is kept.                      *)
RootsShrink ==
    \A r \in Roots, h \in Headers \ Roots :
        r.addr < h.addr /\ h.addr < r.addr + r.len => RoundDown(h.addr) >= r.addr

Referenced ==
    IF option = "zero" THEN {p[2] : p \in Pointers(Headers)}
    ELSE Reached(Headers, Roots, Pointers(Headers))

Leaked == {h \in Headers : Allocation(h)} \ Referenced

Addr(headers) == {h.addr : h \in {h \in headers : h.backtraces > 0}}

(* A complete file leads to a report of just the allocations that nothing  *)
(* points to, or that no stack and no global variable reaches.  Where a    *)
(* root and an allocation overlap, which confuses searches, still nothing  *)
(* is reported that other roots reach by pointers to starts; unless a root *)
(* and an allocation start together, when one may be taken for the other.  *)
LeaksReported ==
    phase = "end" /\ client =>
        /\ NoCollision => UNION report = Addr(Leaked)
        /\ (option = "mark_and_sweep" /\ \A r \in Roots, h \in Headers \ Roots : h.addr # r.addr) =>
              (UNION report) \cap Addr(Reached(Whole, Whole \cap Roots, Starts(Whole))) = {}

(* The reader gives up only on a file that was cut in a record, unless an  *)
(* allocation starts in a root on the page the root starts on; otherwise   *)
(* it splits what leaked into groups: two elements are in the same one     *)
(* exactly if pointers connect them, in whatever direction, and however    *)
(* often the searches had to merge groups.                                 *)
GroupsConnected ==
    /\ phase = "raised" /\ RootsShrink => ParseError \in ToSet(parse(stream))
    /\ (phase = "end" /\ client /\ option = "mark_and_sweep" /\ NoCollision) =>
          LET leaked == Leaked
              linked == Pointers(leaked) \cup {<<p[2], p[1]>> : p \in Pointers(leaked)}
          IN  report = {Addr(Reached(leaked, {h}, linked)) : h \in leaked} \ {{}}

(* The snapshot ends, wherever the client, which reads until then, hangs   *)
(* up: the child exits, and a light one gives the ledger back.  And so     *)
(* does the analysis of whatever the client received.                      *)
AnalysisEnds == <>(phase \in {"end", "raised"})
=============================================================================
