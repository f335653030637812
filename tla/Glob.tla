-------------------------------- MODULE Glob --------------------------------
(***************************************************************************)
(* libc-extra/src/glob.c: glob walks the directories and adds each path    *)
(* that matches to gl_pathv, an array that grows with it.                  *)
(*                                                                         *)
(* A name is a sequence of characters, a path a sequence of names, and a   *)
(* pattern a sequence of segments: how characters are encoded, quoted and  *)
(* put together with slashes is left out, and so are ~, GLOB_MARK, the     *)
(* entries `.' and `..', and names longer than MAXPATHLEN.  The files stay *)
(* as they are during a call.  The recursion of glob2 and glob3 is the     *)
(* stack of open directories.                                              *)
(***************************************************************************)
EXTENDS Integers, Sequences, SequencesExt, FiniteSets

CONSTANTS Characters, Dot,  \* numbers, in the order of strcmp
          Slash,            \* not of a name, but of its place in that order
          Tree,             \* for the path of each directory, the names in it
          Patterns,         \* what the clients ask for
          FlagSets,         \* the flags they give
          Handlers,         \* what errfunc does: "NULL", "ignores" or "stops"
          Limits, Offsets,  \* gl_matchc with GLOB_LIMIT (0: no limit), gl_offs
          MaxCalls,         \* bound: calls that append to one list
          Failing,          \* the calls that may fail
          NULL, Garbage

MetaCharacter == -2

NUL == 0

\* What stands in the array: the path of a file, or a pattern as it was given.
GlobPaths == Seq(Seq(Characters \cup {MetaCharacter}))

Tokens == [kind : {"char"}, chars : {{c} : c \in Characters}]
            \cup [kind : {"one", "all"}, chars : {{}}]
            \cup [kind : {"set", "not"}, chars : SUBSET Characters]

Segments == Seq(Tokens) \ {<<>>}

\* An element of a pattern is a segment, a brace with its alternatives (an inner
\* brace says the same as more alternatives), or a brace that is never closed.
Elements == [kind : {"segment"}, of : Segments]
              \cup [kind : {"brace"}, of : Seq(Seq(Segments)) \ {<<>>}]
              \cup [kind : {"open"}, of : {<<>>}]

\* What glob2 is called with: the path so far and the rest of the pattern.
Visits == [path : GlobPaths, rest : Seq(Segments)]

ASSUME GlobAssumption ==
  /\ Characters \subseteq Nat \ {NUL} /\ Dot \in Characters
  /\ Slash \in Nat \ (Characters \cup {NUL})
  /\ DOMAIN Tree \subseteq Seq(Seq(Characters)) /\ <<>> \in DOMAIN Tree
  /\ \A p \in DOMAIN Tree : Tree[p] \subseteq Seq(Characters) \ {<<>>}
  /\ \A p \in DOMAIN Tree \ {<<>>} : Front(p) \in DOMAIN Tree /\ Last(p) \in Tree[Front(p)]
  /\ Patterns \subseteq Seq(Elements)
  /\ NULL # Garbage /\ NULL \notin GlobPaths /\ Garbage \notin GlobPaths
  /\ NULL \notin Seq(GlobPaths \cup {NULL, Garbage}) /\ NULL \notin Visits
  /\ FlagSets \subseteq SUBSET {"NOCHECK", "NOMAGIC", "NOSORT", "ERR"}
  /\ Limits \subseteq Nat /\ Offsets \subseteq Nat /\ MaxCalls \in Nat

VARIABLES pathv,    \* NULL, or an array of paths, NULLs and what malloc left there
          pathc, offs,
          call,     \* the arguments of the last call
          magchar,  \* GLOB_MAGCHAR of gl_flags
          todo,     \* the alternatives of a brace that are still to be expanded
          oldpathc, \* glob0's local
          visit,    \* what glob2 looks at next: [path, rest], or NULL
          stack,    \* the directories that glob3 reads
          pc, ret,
          calls,    \* history: calls on this list
          before,   \* history: gl_pathc when the call began
          failed,   \* history: this call ran into an error
          skipped,  \* history: it passed over a directory it could not open
          lost      \* history: gl_pathc when the array was last thrown away, or 0

vars == <<pathv, pathc, offs, call, magchar, todo, oldpathc, visit, stack, pc, ret,
          calls, before, failed, skipped, lost>>

list == <<pathv, pathc, lost>>
history == <<calls, before, skipped>>

NoCall == [pattern |-> <<>>, flags |-> {}, handler |-> "NULL", limit |-> 0]

Init ==
  /\ pathv = NULL /\ pathc = 0 /\ offs = 0
  /\ call = NoCall /\ magchar = FALSE
  /\ todo = <<>> /\ oldpathc = 0 /\ visit = NULL /\ stack = <<>>
  /\ pc = "idle" /\ ret = "none"
  /\ calls = 0 /\ before = 0 /\ failed = FALSE /\ skipped = FALSE /\ lost = 0

\* The pattern as it was given, which need not be a path that exists.
AsGiven(pattern) ==
  [j \in DOMAIN pattern |->
     [k \in DOMAIN pattern[j] |->
        IF pattern[j][k].kind = "char" THEN CHOOSE c \in pattern[j][k].chars : TRUE
        ELSE MetaCharacter]]

-----------------------------------------------------------------------------
(* match, and the compilation of a segment in glob0                        *)

IsMagic(segment) == \E j \in DOMAIN segment : segment[j].kind # "char"

\* Adjacent stars are collapsed to one.
Collapse(s, token) ==
  IF s # <<>> /\ token.kind = "all" /\ s[Len(s)].kind = "all" THEN s ELSE Append(s, token)

Compiled(segment) ==
  LET front[n \in 0..Len(segment)] ==
        IF n = 0 THEN <<>> ELSE Collapse(front[n - 1], segment[n])
  IN  front[Len(segment)]

Takes(token, c) == CASE token.kind = "one" -> TRUE
                     [] token.kind = "not" -> c \notin token.chars
                     [] OTHER -> c \in token.chars

\* A * that never stands for the empty string.
LongStar == 1

ShortestStar == 0

\* The positions in the name from which a token, the n-th from the end, and those
\* behind it take the rest of the name: `behind' are the positions for the latter.
TakesFrom(name, token, n, behind) ==
  {d \in 0..Len(name) :
     IF token.kind = "all"
       THEN n = 1 \/ \E e \in d + ShortestStar..Len(name) : e \in behind
       ELSE d < Len(name) /\ Takes(token, name[d + 1]) /\ d + 1 \in behind}

Match(name, segment) ==
  LET from[n \in 0..Len(segment)] ==
        IF n = 0 THEN {Len(name)}
        ELSE TakesFrom(name, segment[Len(segment) - n + 1], n, from[n - 1])
  IN  0 \in from[Len(segment)]

AllDots(name, segment) == TRUE

\* An initial dot must be matched by a dot of the pattern.
ShowsDots(name, segment) ==
  Head(name) = Dot => Head(segment).kind = "char" /\ Dot \in Head(segment).chars

-----------------------------------------------------------------------------
(* globexp1 and globexp2                                                   *)

Braces(pattern) == {j \in DOMAIN pattern : pattern[j].kind # "segment"}

FirstBrace(pattern) == CHOOSE j \in Braces(pattern) : \A k \in Braces(pattern) : j <= k

\* Of a pattern with a brace that is not closed only the part before it is used.
UpToOpenBrace(pattern) ==
  LET IsBefore(n) == \A j \in 1..n : pattern[j].kind # "open"
  IN  SubSeq(pattern, 1, CHOOSE n \in 0..Len(pattern) :
                           /\ IsBefore(n)
                           /\ n = Len(pattern) \/ pattern[n + 1].kind = "open")

\* Each pattern so far with the next segment, or with each of the alternatives in
\* turn, from left to right.
WithNext(fronts, e) ==
  LET n == Len(e.of) IN
  IF e.kind = "segment" THEN [k \in 1..Len(fronts) |-> Append(fronts[k], e.of)]
  ELSE [k \in 1..Len(fronts) * n |-> fronts[(k - 1) \div n + 1] \o e.of[((k - 1) % n) + 1]]

\* The patterns given to glob0, in their order.
Expand(pattern) ==
  LET closed == UpToOpenBrace(pattern)
      fronts[n \in 0..Len(closed)] ==
        IF n = 0 THEN <<<<>>>> ELSE WithNext(fronts[n - 1], closed[n])
  IN  fronts[Len(closed)]

HasBrace(pattern) ==
  Braces(pattern) # {} /\ pattern[FirstBrace(pattern)].kind = "brace"

-----------------------------------------------------------------------------
(* globextend                                                              *)

OverLimit == call.limit # 0 /\ pathc > call.limit

\* The array with room for one more path: the old cells, or the offs cells that
\* are cleared in a new array.
Grown ==
  [j \in 1..offs + pathc + 2 |->
     CASE pathv # NULL /\ j <= offs + pathc + 1 -> pathv[j]
       [] pathv = NULL /\ j <= offs -> NULL
       [] OTHER -> Garbage]

Stored(array, path) ==
  [array EXCEPT ![offs + pathc + 1] = path, ![offs + pathc + 2] = NULL]

NotTerminated(array) == array

\* malloc for the copy of the path fails.
NotStored(array) == [array EXCEPT ![offs + pathc + 1] = NULL]

AddPath(path) ==
  /\ ~OverLimit
  /\ pathv' = Stored(Grown, path)
  /\ pathc' = pathc + 1
  /\ UNCHANGED <<lost, failed>>

\* GLOB_NOSPACE
CannotAdd ==
  /\ failed' = TRUE
  /\ UNCHANGED pathc
  /\ \/ OverLimit /\ UNCHANGED <<pathv, lost>>
     \/ /\ ~OverLimit /\ "realloc" \in Failing
        /\ pathv' = NULL /\ lost' = pathc
     \/ /\ ~OverLimit /\ "malloc" \in Failing
        /\ pathv' = NotStored(Grown)
        /\ UNCHANGED lost

-----------------------------------------------------------------------------
(* glob, and the loop over the alternatives in globexp2                    *)

\* The clients append to a list whatever its last call returned, and free it before
\* they use the structure for another one.
Glob ==
  /\ pc = "idle" /\ calls < MaxCalls
  /\ \E pattern \in Patterns, flags \in FlagSets, handler \in Handlers, limit \in Limits :
       /\ call' = [pattern |-> pattern, flags |-> flags, handler |-> handler, limit |-> limit]
       /\ todo' = Expand(pattern)
  /\ \/ /\ calls > 0                                       \* GLOB_APPEND
        /\ UNCHANGED <<pathv, pathc, offs, lost>>
     \/ /\ pathv = NULL
        /\ pathc' = 0 /\ pathv' = NULL /\ lost' = 0
        /\ offs' \in Offsets                               \* GLOB_DOOFFS
  /\ magchar' = FALSE
  /\ pc' = "next" /\ ret' = "0"
  /\ calls' = calls + 1 /\ before' = pathc' /\ failed' = FALSE /\ skipped' = FALSE
  /\ UNCHANGED <<oldpathc, visit, stack>>

\* glob0 begins
Glob0 ==
  /\ pc = "next" /\ todo # <<>>
  /\ visit' = IF Head(todo) = <<>> THEN NULL
              ELSE [path |-> <<>>, rest |-> [j \in DOMAIN Head(todo) |-> Compiled(Head(todo)[j])]]
  /\ magchar' = (magchar \/ \E j \in DOMAIN Head(todo) : IsMagic(Head(todo)[j]))
  /\ oldpathc' = pathc
  /\ pc' = "walk"
  /\ UNCHANGED <<list, offs, call, todo, stack, ret, history, failed>>

\* glob0 returns rv.  Whatever it is, the next alternative follows, and in the end
\* a pattern with a brace returns 0.
EndGlob0(rv) ==
  /\ todo' = Tail(todo)
  /\ pc' = "next"
  /\ ret' = IF HasBrace(call.pattern) THEN "0" ELSE rv
  /\ visit' = NULL /\ stack' = <<>>

Return ==
  /\ pc = "next" /\ todo = <<>>
  /\ pc' = "idle"
  /\ UNCHANGED <<list, offs, call, magchar, todo, oldpathc, visit, stack, ret, history, failed>>

-----------------------------------------------------------------------------
(* glob2                                                                   *)

Exists(path) == path # <<>> /\ Front(path) \in DOMAIN Tree /\ Last(path) \in Tree[Front(path)]

Literal(segment) == AsGiven(<<segment>>)[1]

\* A segment without meta characters is taken as it is.
NextSegment ==
  /\ pc = "walk" /\ visit # NULL /\ visit.rest # <<>> /\ ~IsMagic(Head(visit.rest))
  /\ visit' = [path |-> Append(visit.path, Literal(Head(visit.rest))), rest |-> Tail(visit.rest)]
  /\ UNCHANGED <<list, offs, call, magchar, todo, oldpathc, stack, pc, ret, history, failed>>

AtEnd == pc = "walk" /\ visit # NULL /\ visit.rest = <<>>

NoSuchFile ==
  /\ AtEnd /\ ~Exists(visit.path)
  /\ visit' = NULL
  /\ UNCHANGED <<list, offs, call, magchar, todo, oldpathc, stack, pc, ret, history, failed>>

FileFound ==
  /\ AtEnd /\ Exists(visit.path)
  /\ AddPath(visit.path)
  /\ visit' = NULL
  /\ UNCHANGED <<offs, call, magchar, todo, oldpathc, stack, pc, ret, history>>

\* An error ends the loops of all open directories, which are closed.
FileNotAdded ==
  /\ AtEnd /\ Exists(visit.path)
  /\ CannotAdd
  /\ EndGlob0("NOSPACE")
  /\ UNCHANGED <<offs, call, magchar, oldpathc, history>>

-----------------------------------------------------------------------------
(* glob3                                                                   *)

AtMagic == pc = "walk" /\ visit # NULL /\ visit.rest # <<>> /\ IsMagic(Head(visit.rest))

OpenDir ==
  /\ AtMagic
  /\ visit.path \in DOMAIN Tree
  /\ stack' = Append(stack, [path |-> visit.path, unread |-> Tree[visit.path], rest |-> visit.rest])
  /\ visit' = NULL
  /\ UNCHANGED <<list, offs, call, magchar, todo, oldpathc, pc, ret, history, failed>>

CannotOpen == visit.path \notin DOMAIN Tree \/ "opendir" \in Failing

\* GLOB_ERR counts only if there is an errfunc.
Stops == \/ call.handler = "stops"
         \/ call.handler = "ignores" /\ "ERR" \in call.flags

SkipDir ==
  /\ AtMagic /\ CannotOpen /\ ~Stops
  /\ visit' = NULL
  /\ skipped' = (skipped \/ visit.path \in DOMAIN Tree)
  /\ UNCHANGED <<list, offs, call, magchar, todo, oldpathc, stack, pc, ret, calls, before, failed>>

Abort ==
  /\ AtMagic /\ CannotOpen /\ Stops
  /\ EndGlob0("ABORTED")
  /\ failed' = TRUE
  /\ UNCHANGED <<list, offs, call, magchar, oldpathc, history>>

Reading == pc = "walk" /\ visit = NULL /\ stack # <<>>

\* readdir returns any of the names.
ReadDir ==
  /\ Reading
  /\ LET dir == Last(stack) IN
     \E name \in dir.unread :
       /\ stack' = [stack EXCEPT ![Len(stack)].unread = @ \ {name}]
       /\ visit' = IF ShowsDots(name, Head(dir.rest)) /\ Match(name, Head(dir.rest))
                     THEN [path |-> Append(dir.path, name), rest |-> Tail(dir.rest)]
                     ELSE NULL
  /\ UNCHANGED <<list, offs, call, magchar, todo, oldpathc, pc, ret, history, failed>>

CloseDir ==
  /\ Reading /\ Last(stack).unread = {}
  /\ stack' = Front(stack)
  /\ UNCHANGED <<list, offs, call, magchar, todo, oldpathc, visit, pc, ret, history, failed>>

-----------------------------------------------------------------------------
(* The end of glob0, and globfree                                          *)

WalkEnds == pc = "walk" /\ visit = NULL /\ stack = <<>>

\* What strcmp sees as the k-th character of a name and what is behind it: the NUL
\* ends the last name, and a slash the others.
CharAt(path, j, k) ==
  IF k <= Len(path[j]) THEN path[j][k] ELSE IF j < Len(path) THEN Slash ELSE NUL

\* strcmp of two paths
Before(p, q) ==
  \E j \in DOMAIN p \cap DOMAIN q :
    /\ \A i \in 1..j - 1 : p[i] = q[i]
    /\ \E k \in 1..Len(q[j]) + 1 :
         /\ \A i \in 1..k - 1 : CharAt(p, j, i) = CharAt(q, j, i)
         /\ CharAt(p, j, k) < CharAt(q, j, k)

SortWholeList == lost

SortFrom == oldpathc

SortedCells == offs + SortFrom + 1..offs + pathc

\* qsort: what order[j] held is in cell j, and nothing is behind what it is before.
Orders ==
  {order \in [SortedCells -> SortedCells] :
     /\ \A i \in SortedCells : \E j \in SortedCells : order[j] = i
     /\ \A i, j \in SortedCells : i < j => ~Before(pathv[order[j]], pathv[order[i]])}

Sorted(order) ==
  [j \in DOMAIN pathv |-> IF j \in SortedCells THEN pathv[order[j]] ELSE pathv[j]]

Matched ==
  /\ WalkEnds /\ pathc # oldpathc
  /\ IF "NOSORT" \in call.flags THEN UNCHANGED pathv
     ELSE \E order \in Orders : pathv' = Sorted(order)
  /\ EndGlob0("0")
  /\ UNCHANGED <<pathc, offs, call, magchar, oldpathc, history, failed, lost>>

WantsPattern ==
  \/ "NOCHECK" \in call.flags
  \/ "NOMAGIC" \in call.flags /\ ~magchar

NoMatch ==
  /\ WalkEnds /\ pathc = oldpathc /\ ~WantsPattern
  /\ EndGlob0("NOMATCH")
  /\ UNCHANGED <<list, offs, call, magchar, oldpathc, history, failed>>

PatternAdded ==
  /\ WalkEnds /\ pathc = oldpathc /\ WantsPattern
  /\ AddPath(AsGiven(Head(todo)))
  /\ EndGlob0("0")
  /\ UNCHANGED <<offs, call, magchar, oldpathc, history>>

PatternNotAdded ==
  /\ WalkEnds /\ pathc = oldpathc /\ WantsPattern
  /\ CannotAdd
  /\ EndGlob0("NOSPACE")
  /\ UNCHANGED <<offs, call, magchar, oldpathc, history>>

\* gl_pathc stays as it is.
GlobFree ==
  /\ pc = "idle" /\ calls > 0
  /\ pathv' = NULL
  /\ call' = NoCall /\ ret' = "none" /\ calls' = 0 /\ before' = 0
  /\ failed' = FALSE /\ skipped' = FALSE
  /\ UNCHANGED <<pathc, offs, lost, magchar, todo, oldpathc, visit, stack, pc>>

-----------------------------------------------------------------------------

Next ==
  \/ Glob \/ Glob0 \/ Return
  \/ NextSegment \/ NoSuchFile \/ FileFound \/ FileNotAdded
  \/ OpenDir \/ SkipDir \/ Abort \/ ReadDir \/ CloseDir
  \/ Matched \/ NoMatch \/ PatternAdded \/ PatternNotAdded
  \/ GlobFree

Spec == Init /\ [][Next]_vars

-----------------------------------------------------------------------------
(* What a pattern stands for, said without recursion: cut[k] is where the   *)
(* k-th token of the segment ends in the name.                             *)

Stands(token) == CASE token.kind = "one" -> Characters
                   [] token.kind = "not" -> Characters \ token.chars
                   [] OTHER -> token.chars

Accepts(name, segment) ==
  /\ \E cut \in [0..Len(segment) -> 0..Len(name)] :
       /\ cut[0] = 0 /\ cut[Len(segment)] = Len(name)
       /\ \A k \in 1..Len(segment) :
            IF segment[k].kind = "all" THEN cut[k - 1] <= cut[k]
            ELSE cut[k] = cut[k - 1] + 1 /\ name[cut[k]] \in Stands(segment[k])
  /\ name[1] = Dot => segment[1] = [kind |-> "char", chars |-> {Dot}]

Paths == UNION {{Append(dir, name) : name \in Tree[dir]} : dir \in DOMAIN Tree}

Matching(pattern) ==
  {path \in Paths :
     Len(path) = Len(pattern) /\ \A j \in 1..Len(path) : Accepts(path[j], pattern[j])}

\* The flags ask for the k-th alternative itself if it has no match.  With
\* GLOB_NOMAGIC an alternative does not count that follows a magic one.
StandsForItself(patterns, k) ==
  \/ "NOCHECK" \in call.flags
  \/ /\ "NOMAGIC" \in call.flags
     /\ ~\E i \in 1..k : \E j \in DOMAIN patterns[i] : IsMagic(patterns[i][j])

\* What the k-th alternative adds to the list.
Adds(patterns, k) ==
  LET matches == Matching(patterns[k]) IN
  IF matches # {} \/ ~StandsForItself(patterns, k) THEN matches ELSE {AsGiven(patterns[k])}

\* The braces are taken as the code takes them: of a pattern with a brace that is not
\* closed this promises what stands before it, although the comment at line 300
\* says `just glob the pattern'.
Promised == LET patterns == Expand(call.pattern) IN [k \in DOMAIN patterns |-> Adds(patterns, k)]

\* How many entries the first k sets have together.
Ends(sets) ==
  LET end[k \in 0..Len(sets)] == IF k = 0 THEN 0 ELSE end[k - 1] + Cardinality(sets[k])
  IN  end

\* The entries of this call.
New == SubSeq(pathv, offs + before + 1, offs + pathc)

\* The list in the middle of a call and after any failure.  The comment at lines
\* 684-686 promises PathcTellsPathv, which does not hold: the array is there without
\* a path if the first copy fails, and a failed reallocation throws it away but
\* leaves gl_pathc.  What does hold: without an array gl_pathc counts the paths that
\* were lost; with one, there are gl_offs NULLs, a cell that was never written for
\* each of them, then only paths, and a NULL.  Nothing sorts the unwritten cells.
ListInvariant ==
  calls > 0 =>
    /\ pathv = NULL => pathc = lost
    /\ pathv # NULL =>
         /\ Len(pathv) >= offs + pathc + 1 /\ lost <= pathc
         /\ \A j \in 1..offs + pathc + 1 :
              /\ pathv[j] = Garbage <=> j \in offs + 1..offs + lost
              /\ pathv[j] = NULL <=> j \notin offs + 1..offs + pathc
    /\ pc = "walk" => lost <= oldpathc

PathcTellsPathv == calls > 0 => (pathv = NULL <=> pathc = 0)

\* A call that returns 0, and was not told to pass over a directory, has added all
\* it should: for each alternative, in their order, what it stands for, none twice,
\* and sorted if it is asked for.  With a brace this holds only if nothing failed,
\* because the outcome of an alternative is overwritten.
AllAdded ==
  /\ pc = "idle" /\ ret = "0" /\ calls > 0 /\ ~skipped
  /\ HasBrace(call.pattern) => ~failed
  =>
    LET sets == Promised
        end == Ends(sets)
    IN /\ pathc = before + end[Len(sets)]
       /\ \A k \in DOMAIN sets :
            LET block == offs + before + end[k - 1] + 1..offs + before + end[k]
            IN /\ sets[k] = {pathv[j] : j \in block}
               /\ "NOSORT" \notin call.flags =>
                    \A i, j \in block : i < j => Before(pathv[i], pathv[j])

\* Whatever fails, no call adds what does not match: only a pattern that has no
\* match, or whose matches were passed over with a directory, stands for itself.
\* Only the cells of paths that the call had lost hold something else.
NothingElse ==
  calls > 0 /\ pathv # NULL =>
    LET patterns == Expand(call.pattern) IN
    \A path \in Range(New) \ {Garbage} : \E k \in DOMAIN patterns :
      \/ path \in Adds(patterns, k)
      \/ skipped /\ StandsForItself(patterns, k) /\ path = AsGiven(patterns[k])

\* The entries of earlier calls stay where they are: growing, sorting and failing
\* leave them alone as long as the array is there.
OldEntriesStay ==
  [][pathv # NULL /\ pathv' # NULL /\ calls' = calls =>
       \A j \in 1..offs + before : pathv'[j] = pathv[j]]_vars

=============================================================================
