-------------------------- MODULE ProjectFiles_proofs --------------------------
(***************************************************************************)
(* For any files, contents, clients and requests: revisions keep clients   *)
(* from overwriting what they have not seen, and do not refuse a client    *)
(* that has seen everything.  The invariant says what the running request  *)
(* has read so far, if nobody else changed a file since it arrived, and    *)
(* that what a client was told is, or begins, a content that was there.    *)
(***************************************************************************)
EXTENDS ProjectFiles, SequenceTheorems, FiniteSetTheorems, TLAPS

Revisions == Seq(Nat)
Ops == {"none", "read", "tool", "range", "search", "write"}
Requests ==
  [client : Clients \union {"none"}, op : Ops, path : Paths \union {"none"}, range : Nat \X Nat,
   content : Seq(Lines), expected : Revisions, step : Steps, left : SUBSET {"content", "revision"},
   read : Seq(Lines), rev : Revisions, todo : SUBSET Paths, found : SUBSET (Paths \X Nat),
   lost : BOOLEAN]
Memories == [path : Paths \union {"none"}, rev : Revisions, lines : Seq(Lines), whole : BOOLEAN,
             sure : BOOLEAN, fresh : BOOLEAN]

Shapes == /\ files \in [Paths -> FileStates] /\ now \in Nat /\ quiet \in BOOLEAN
          /\ req \in Requests /\ known \in [Clients -> Memories]

\* Which request can be at which step, and what it names.
Control ==
  /\ req.step = "read" => req.op \in {"read", "tool", "range"}
  /\ req.step \in {"compare", "temp", "rename", "stamp"} => req.op = "write"
  /\ req.step # "idle" => req.op # "none"
  /\ req.op # "none" => req.client \in Clients
  /\ req.op \in {"read", "tool", "range", "write"} => req.path \in Paths
  /\ req.step = "read" /\ req.op = "range" => req.range[1] >= 1 /\ req.range[2] >= 1
  /\ req.step = "rename" => req.rev[2] \in Nat

\* A revision that was sent is the one its client was told for that file.
Sent == req.op = "write" /\ req.expected # NoRevision =>
          /\ known[req.client].path = req.path
          /\ known[req.client].rev = req.expected

\* What the running request has seen is there still.
Seen ==
  quiet =>
    /\ req.step = "read" /\ "revision" \notin req.left => req.rev = Revision(files[req.path])
    /\ req.step = "read" => files[req.path].kind = "file"
    /\ req.step = "read" /\ "content" \notin req.left => req.read = files[req.path].content
    /\ req.step \in {"compare", "temp", "rename"} => files[req.path].kind \in {"none", "file", "dangling"}
    /\ req.step \in {"temp", "rename"} /\ req.expected # NoRevision =>
         req.expected = Revision(files[req.path])
    /\ req.step = "stamp" => /\ files[req.path].kind = "file"
                             /\ files[req.path].content = req.content

\* Whoever was told of a file and missed no change of it knows its revision.
Fresh == \A c \in Clients : known[c].fresh => /\ known[c].path \in Paths
                                              /\ known[c].rev = Revision(files[known[c].path])

\* Every revision that a file has, names its content.
Named == \A p \in Paths : files[p].kind = "file" =>
                            <<p, Revision(files[p]), files[p].content>> \in named

\* The lines of a memory begin a content that its revision named.
Begins(lines, whole, d) == /\ Len(lines) <= Len(d) /\ lines = SubSeq(d, 1, Len(lines))
                           /\ whole => lines = d
Remembered(k) ==
  k.sure /\ Unambiguous(k.path, k.rev) =>
    \E d \in Seq(Lines) : <<k.path, k.rev, d>> \in named /\ Begins(k.lines, k.whole, d)
Pieces == \A c \in Clients : Remembered(known[c])

\* A client that knows nothing sends no revision.
Knows == \A c \in Clients : known[c] = Nothing \/ known[c].path \in Paths

\* Beside the request only the memories, the files and the names matter.
Memory == Fresh /\ Named /\ Pieces /\ Knows

IInv == Shapes /\ Control /\ Sent /\ Seen /\ Memory

-----------------------------------------------------------------------------
\* Only a missing file has no revision.
LEMMA RevisionKinds ==
  ASSUME NEW f \in FileStates
  PROVE  /\ Revision(f) \in Revisions
         /\ Revision(f) = NoRevision <=> f.kind \in {"none", "dangling"}
<1>1. CASE f.kind \in {"none", "dangling"}
  BY <1>1 DEF Revision, NoRevision, Revisions
<1>2. CASE f.kind \notin {"none", "dangling"}
  <2>1. f.content \in Seq(Lines) /\ f.stamp \in Nat
    BY DEF FileStates
  <2>2. Len(f.content) \in Nat
    BY <2>1, LenProperties
  <2>3. Revision(f) = <<Len(f.content), f.stamp>>
    BY <1>2 DEF Revision
  <2> QED BY <1>2, <2>1, <2>2, <2>3 DEF NoRevision, Revisions
<1> QED BY <1>1, <1>2

\* What the record of no request holds.
LEMMA IdleFields ==
  /\ Idle \in Requests /\ Idle.step = "idle" /\ Idle.op = "none" /\ Idle.client = "none"
  /\ Idle.path = "none" /\ Idle.range = <<1, 1>> /\ Idle.content = <<>>
  /\ Idle.expected = NoRevision /\ Idle.left = {} /\ Idle.read = <<>> /\ Idle.rev = NoRevision
  /\ Idle.todo = {} /\ Idle.found = {}
  BY DEF Idle, Requests, Ops, Steps, NoRevision, Revisions

\* What the record of no memory holds.
LEMMA NothingFields ==
  /\ Nothing \in Memories /\ Nothing.fresh = FALSE /\ Nothing.sure = FALSE
  BY DEF Nothing, Memories, Revisions, NoRevision

\* No request runs: nothing is to keep but the memories.
LEMMA NoRequest ==
  ASSUME req' = Idle
  PROVE  Control' /\ Sent' /\ Seen'
  BY IdleFields DEF Control, Sent, Seen

\* No file changes and no client is told anything.
LEMMA MemoryStays ==
  ASSUME Memory, UNCHANGED <<files, known, named>>
  PROVE  Memory'
<1>1. Fresh' /\ Named' /\ Knows'
  BY DEF Memory, Fresh, Named, Knows, Revision
<1>2. Pieces'
  BY DEF Memory, Pieces, Remembered, Unambiguous
<1> QED BY <1>1, <1>2 DEF Memory

\* A client is told of a file.
LEMMA MemoryTold ==
  ASSUME Memory, Shapes, NEW c \in Clients, NEW m \in Memories,
         UNCHANGED <<files, named>>, known' = [known EXCEPT ![c] = m],
         m.path \in Paths, m.fresh => m.rev = Revision(files[m.path]), Remembered(m)
  PROVE  Memory' /\ known' \in [Clients -> Memories]
<1>1. known' \in [Clients -> Memories]
  BY DEF Shapes
<1>2. \A d \in Clients : known'[d] = IF d = c THEN m ELSE known[d]
  BY DEF Shapes
<1>3. Fresh'
  BY <1>2 DEF Memory, Fresh, Revision
<1>4. Named'
  BY DEF Memory, Named, Revision
<1>5. Knows'
  BY <1>2 DEF Memory, Knows
<1>6. Pieces'
  <2> SUFFICES ASSUME NEW d \in Clients PROVE Remembered(known[d])'
    BY DEF Pieces
  <2>1. Remembered(known'[d])
    BY <1>2 DEF Memory, Pieces
  <2> QED BY <2>1 DEF Remembered, Unambiguous
<1> QED BY <1>1, <1>3, <1>4, <1>5, <1>6 DEF Memory

\* A file is changed.
LEMMA MemoryReplaced ==
  ASSUME Memory, Shapes, NEW p \in Paths, NEW f \in FileStates, Replace(p, f)
  PROVE  /\ Memory' /\ known' \in [Clients -> Memories] /\ files' \in [Paths -> FileStates]
         /\ \A q \in Paths : files'[q] = IF q = p THEN f ELSE files[q]
         /\ \A c \in Clients : known'[c].path = known[c].path /\ known'[c].rev = known[c].rev
<1>1. /\ files \in [Paths -> FileStates] /\ known \in [Clients -> Memories]
      /\ files' = [files EXCEPT ![p] = f] /\ named' = named \union Standing(p, f)
      /\ known' = [c \in Clients |-> [known[c] EXCEPT !.fresh = @ /\ known[c].path # p]]
  BY DEF Shapes, Replace
<1>2. files' \in [Paths -> FileStates] /\ \A q \in Paths : files'[q] = IF q = p THEN f ELSE files[q]
  BY <1>1
<1>3. ASSUME NEW c \in Clients
      PROVE  /\ known'[c] \in Memories
             /\ known'[c].path = known[c].path /\ known'[c].rev = known[c].rev
             /\ known'[c].lines = known[c].lines /\ known'[c].whole = known[c].whole
             /\ known'[c].sure = known[c].sure
             /\ known'[c].fresh = (known[c].fresh /\ known[c].path # p)
             /\ known[c] = Nothing => known'[c] = Nothing
  <2>1. known[c] \in Memories /\ known'[c] = [known[c] EXCEPT !.fresh = @ /\ known[c].path # p]
    BY <1>1
  <2>2. /\ known'[c] \in Memories
        /\ known'[c].path = known[c].path /\ known'[c].rev = known[c].rev
        /\ known'[c].lines = known[c].lines /\ known'[c].whole = known[c].whole
        /\ known'[c].sure = known[c].sure
        /\ known'[c].fresh = (known[c].fresh /\ known[c].path # p)
    BY <2>1 DEF Memories
  <2>3. known[c] = Nothing => known'[c] = Nothing
    <3> SUFFICES ASSUME known[c] = Nothing PROVE known'[c] = Nothing
      OBVIOUS
    <3>1. (Nothing.fresh /\ known[c].path # p) = FALSE
      BY NothingFields
    <3>2. known'[c] = [Nothing EXCEPT !.fresh = FALSE]
      BY <2>1, <3>1
    <3> QED BY <3>2 DEF Nothing
  <2> QED BY <2>2, <2>3
<1>4. known' \in [Clients -> Memories]
  BY <1>1, <1>3
<1>5. Fresh'
  <2> SUFFICES ASSUME NEW c \in Clients, known'[c].fresh
               PROVE  known'[c].path \in Paths /\ known'[c].rev = Revision(files'[known'[c].path])
    BY DEF Fresh, Revision
  <2>1. known[c].fresh /\ known[c].path # p /\ known'[c].path = known[c].path
        /\ known'[c].rev = known[c].rev
    BY <1>3
  <2>2. known[c].path \in Paths /\ known[c].rev = Revision(files[known[c].path])
    BY <2>1 DEF Memory, Fresh
  <2> QED BY <1>2, <2>1, <2>2
<1>6. Named'
  <2> SUFFICES ASSUME NEW q \in Paths, files'[q].kind = "file"
               PROVE  <<q, Revision(files'[q]), files'[q].content>> \in named'
    BY DEF Named, Revision
  <2> QED BY <1>1, <1>2 DEF Memory, Named, Standing
<1>7. Pieces'
  <2> SUFFICES ASSUME NEW c \in Clients PROVE Remembered(known[c])'
    BY DEF Pieces
  <2>1. Remembered(known[c])
    BY DEF Memory, Pieces
  <2>2. named \subseteq named'
    BY <1>1
  <2>3. Unambiguous(known[c].path, known[c].rev)' => Unambiguous(known[c].path, known[c].rev)
    BY <1>3, <2>2 DEF Unambiguous
  <2> QED BY <1>3, <2>1, <2>2, <2>3 DEF Remembered
<1>8. Knows'
  BY <1>3 DEF Memory, Knows
<1> QED BY <1>2, <1>3, <1>4, <1>5, <1>6, <1>7, <1>8 DEF Memory

-----------------------------------------------------------------------------
\* What a client asks for is well-formed, and a revision in it is its own.
LEMMA AskedFields ==
  ASSUME Shapes, Knows, NEW c \in Clients, NEW q \in Asked(c)
  PROVE  /\ q \in Requests /\ q.client = c /\ q.op # "none"
         /\ q.op \in {"read", "tool", "range", "write"} => q.path \in Paths
         /\ q.op = "write" /\ q.expected # NoRevision =>
              known[c].path = q.path /\ known[c].rev = q.expected
<1>1. ASSUME NEW op \in Ops, NEW p \in Paths \union {"none"}
      PROVE  /\ From(c, op, p) \in Requests /\ From(c, op, p).client = c
             /\ From(c, op, p).op = op /\ From(c, op, p).path = p
             /\ From(c, op, p).expected = NoRevision
  BY IdleFields DEF Requests, From
<1>2. Opened \subseteq Paths /\ Ranges \subseteq Nat \X Nat /\ \A d \in Contents : d \in Seq(Lines)
  BY FilesAssumption
<1>3. known[c] # Nothing => known[c].path \in Paths /\ known[c].rev \in Revisions
  BY DEF Knows, Shapes, Memories
<1>4. CASE q \in Reads(c)
  <2>1. PICK op \in {"read", "tool"}, p \in Opened : q = From(c, op, p)
    BY <1>4 DEF Reads
  <2> QED BY <1>1, <1>2, <2>1 DEF Ops
<1>5. CASE q \in Ranged(c)
  <2>1. PICK p \in Opened, r \in Ranges : q = [From(c, "range", p) EXCEPT !.range = r]
    BY <1>5 DEF Ranged
  <2> DEFINE f == From(c, "range", p)
  <2>2. f \in Requests /\ f.client = c /\ f.op = "range"
        /\ f.path = p /\ p \in Paths /\ r \in Nat \X Nat
    BY <1>1, <1>2 DEF Ops
  <2>3. q = [f EXCEPT !.range = r]
    BY <2>1
  <2> HIDE DEF f
  <2> QED BY <2>2, <2>3 DEF Requests
<1>6. CASE q = SearchAll(c)
  <2> DEFINE f == From(c, "search", "none")
  <2>1. f \in Requests /\ f.client = c /\ f.op = "search"
    BY <1>1 DEF Ops
  <2>2. q = [f EXCEPT !.todo = Paths]
    BY <1>6 DEF SearchAll
  <2> HIDE DEF f
  <2> QED BY <2>1, <2>2 DEF Requests
<1>7. CASE q \in Searches(c)
  <2>1. PICK p \in Opened : q = [From(c, "search", p) EXCEPT !.todo = {p}]
    BY <1>7 DEF Searches
  <2> DEFINE f == From(c, "search", p)
  <2>2. f \in Requests /\ f.client = c /\ f.op = "search" /\ {p} \in SUBSET Paths
    BY <1>1, <1>2 DEF Ops
  <2>3. q = [f EXCEPT !.todo = {p}]
    BY <2>1
  <2> HIDE DEF f
  <2> QED BY <2>2, <2>3 DEF Requests
<1>8. CASE q \in Writes(c)
  <2>1. PICK p \in Opened, d \in Contents : q = [From(c, "write", p) EXCEPT !.content = d]
    BY <1>8 DEF Writes
  <2> DEFINE f == From(c, "write", p)
  <2>2. f \in Requests /\ f.client = c /\ f.op = "write" /\ f.expected = NoRevision
        /\ f.path = p /\ p \in Paths /\ d \in Seq(Lines)
    BY <1>1, <1>2 DEF Ops
  <2>3. q = [f EXCEPT !.content = d]
    BY <2>1
  <2> HIDE DEF f
  <2> QED BY <2>2, <2>3 DEF Requests
<1>9. CASE q \in Rewrites(c)
  <2>1. PICK d \in Contents : /\ known[c] # Nothing
                             /\ q = [From(c, "write", known[c].path)
                                       EXCEPT !.content = d, !.expected = known[c].rev]
    BY <1>9 DEF Rewrites
  <2> DEFINE f == From(c, "write", known[c].path)
  <2>2. f \in Requests /\ f.client = c /\ f.op = "write" /\ f.path = known[c].path
        /\ known[c].path \in Paths /\ d \in Seq(Lines) /\ known[c].rev \in Revisions
    BY <1>1, <1>2, <1>3, <2>1 DEF Ops
  <2>3. q = [f EXCEPT !.content = d, !.expected = known[c].rev]
    BY <2>1
  <2> HIDE DEF f
  <2> QED BY <2>2, <2>3 DEF Requests
<1> QED BY <1>4, <1>5, <1>6, <1>7, <1>8, <1>9 DEF Asked

\* The invariant holds at the start.
LEMMA InitInv == Init => IInv
<1> SUFFICES ASSUME Init PROVE IInv
  OBVIOUS
<1>1. /\ files \in [Paths -> FileStates] /\ now = 0 /\ req = Idle /\ quiet = TRUE
      /\ known = [c \in Clients |-> Nothing] /\ named = UNION {Standing(p, files[p]) : p \in Paths}
  BY BeginningsAssumption DEF Init
<1>2. Shapes
  BY <1>1, IdleFields, NothingFields DEF Shapes
<1>3. Control /\ Sent /\ Seen
  BY <1>1, IdleFields DEF Control, Sent, Seen
<1>4. Fresh /\ Knows /\ Pieces
  BY <1>1, NothingFields DEF Fresh, Knows, Pieces, Remembered
<1>5. Named
  BY <1>1 DEF Named, Standing
<1> QED BY <1>2, <1>3, <1>4, <1>5 DEF IInv, Memory

\* A request begins, goes on or ends, and changes nothing but itself.
LEMMA Only ==
  ASSUME IInv, UNCHANGED <<files, known, named>>, now' \in Nat, quiet' \in BOOLEAN,
         req' \in Requests, Control', Sent', Seen'
  PROVE  IInv'
<1>1. Memory'
  BY MemoryStays DEF IInv
<1>2. Shapes'
  BY DEF IInv, Shapes
<1> QED BY <1>1, <1>2 DEF IInv

LEMMA Answered ==
  ASSUME IInv, req' = Idle, UNCHANGED <<files, now, quiet, known, named>>
  PROVE  IInv'
<1>1. Control' /\ Sent' /\ Seen'
  BY NoRequest
<1>2. now' \in Nat /\ quiet' \in BOOLEAN /\ req' \in Requests
  BY IdleFields DEF IInv, Shapes
<1> QED BY <1>1, <1>2, Only

\* The steps before a file is touched.
LEMMA NextOfChecks ==
  ASSUME IInv, (\E c \in Clients : \E q \in Asked(c) : Arrive(q)) \/ Check
  PROVE  IInv'
<1>0. Shapes /\ Control /\ Sent /\ Seen /\ Memory /\ Knows /\ req \in Requests
  BY DEF IInv, Memory, Shapes
<1>1. ASSUME NEW c \in Clients, NEW q \in Asked(c), Arrive(q) PROVE IInv'
  <2>1. req' = [q EXCEPT !.step = "check"] /\ quiet' = TRUE
        /\ UNCHANGED <<files, known, named, now>>
    BY <1>1 DEF Arrive
  <2>2. /\ q \in Requests /\ q.client = c /\ q.op # "none"
        /\ q.op \in {"read", "tool", "range", "write"} => q.path \in Paths
        /\ q.op = "write" /\ q.expected # NoRevision =>
             known[c].path = q.path /\ known[c].rev = q.expected
    BY <1>0, <1>1, AskedFields
  <2>3. /\ req' \in Requests /\ req'.step = "check" /\ req'.client = q.client /\ req'.op = q.op
        /\ req'.path = q.path /\ req'.expected = q.expected
    BY <2>1, <2>2 DEF Requests, Steps
  <2>4. Control' /\ Sent' /\ Seen'
    BY <2>1, <2>2, <2>3 DEF Control, Sent, Seen
  <2> QED BY <1>0, <2>1, <2>3, <2>4, Only DEF Shapes
<1>2. CASE Check
  <2>1. UNCHANGED <<files, now, quiet, named, known>> /\ req.step = "check"
    BY <1>2 DEF Check
  <2>2. CASE ~Admitted(req)
    BY <1>2, <2>1, <2>2, Answered DEF Check, Answer
  <2>3. CASE Admitted(req)
    <3> DEFINE to == CASE req.op = "write"  -> "compare"
                       [] req.op = "search" -> "search"
                       [] OTHER             -> "read"
    <3>1. req' = [req EXCEPT !.step = to, !.left = {"content", "revision"}]
      BY <1>2, <2>3 DEF Check
    <3>2. /\ to \in Steps /\ to # "idle"
          /\ req.op = "write" => to = "compare"
          /\ req.op = "search" => to = "search"
          /\ req.op \notin {"write", "search"} => to = "read"
      BY DEF Steps
    <3> HIDE DEF to
    <3>3. /\ req' \in Requests /\ req'.step = to /\ req'.client = req.client /\ req'.op = req.op
          /\ req'.path = req.path /\ req'.expected = req.expected /\ req'.range = req.range
          /\ req'.left = {"content", "revision"}
      BY <1>0, <3>1, <3>2 DEF Requests
    <3>4. req.op \in {"read", "tool", "range", "search", "write"}
      BY <1>0, <2>1 DEF Control, Requests, Ops
    <3>5. /\ req.op \in {"read", "tool"} => ReadAllowed(files[req.path])
          /\ req.op = "range" => RangeAllowed(files[req.path], req.range)
          /\ req.op = "write" => WriteAllowed(files[req.path], req.content)
      BY <2>3 DEF Admitted
    <3>6. Control'
      BY <1>0, <2>1, <3>2, <3>3, <3>4, <3>5 DEF Control, RangeAllowed
    <3>7. Sent'
      BY <1>0, <2>1, <3>3 DEF Sent
    <3>8. Seen'
      BY <1>0, <2>1, <3>2, <3>3, <3>4, <3>5
      DEF Seen, ReadAllowed, RangeAllowed, WriteAllowed
    <3> QED BY <1>0, <2>1, <3>3, <3>6, <3>7, <3>8, Only DEF Shapes
  <2> QED BY <2>2, <2>3
<1> QED BY <1>1, <1>2

\* A request is answered with what its client is told of a file.
LEMMA Told ==
  ASSUME IInv, req' = Idle, UNCHANGED <<files, now, quiet, named>>,
         NEW c \in Clients, NEW m \in Memories, known' = [known EXCEPT ![c] = m],
         m.path \in Paths, m.fresh => m.rev = Revision(files[m.path]), Remembered(m)
  PROVE  IInv'
<1>1. Control' /\ Sent' /\ Seen'
  BY NoRequest
<1>2. Memory' /\ known' \in [Clients -> Memories]
  BY MemoryTold DEF IInv
<1>3. Shapes'
  BY <1>2, IdleFields DEF IInv, Shapes
<1> QED BY <1>1, <1>2, <1>3 DEF IInv

\* A range asks for lines.
LEMMA RangeTyped ==
  ASSUME NEW d \in Seq(Lines), NEW r \in Nat \X Nat, r[1] >= 1
  PROVE  LinesOf(d, r) \in Seq(Lines)
<1>1. Len(d) \in Nat /\ \A i \in 1..Len(d) : d[i] \in Lines
  BY LenProperties, ElementOfSeq
<1> DEFINE n == IF r[1] + r[2] - 1 < Len(d) THEN r[1] + r[2] - 1 ELSE Len(d)
<1>2. n \in Int /\ r[1] \in Int /\ n <= Len(d)
  BY <1>1
<1>3. LinesOf(d, r) = SubSeq(d, r[1], n)
  BY DEF LinesOf
<1> HIDE DEF n
<1>4. \A i \in r[1] .. n : d[i] \in Lines
  BY <1>1, <1>2
<1> QED BY <1>2, <1>3, <1>4, SubSeqProperties

\* The lines of a range follow those before it.
LEMMA RangeLines ==
  ASSUME NEW d \in Seq(Lines), NEW r \in Nat \X Nat, r[1] >= 1, r[2] >= 1, r[1] <= Len(d) + 1
  PROVE  /\ LinesOf(d, r) \in Seq(Lines)
         /\ \E n \in Nat : /\ n <= Len(d) /\ (~HasMore(d, r) => n = Len(d))
                          /\ SubSeq(d, 1, n) = SubSeq(d, 1, r[1] - 1) \o LinesOf(d, r)
<1>1. Len(d) \in Nat /\ \A i \in 1..Len(d) : d[i] \in Lines
  BY LenProperties, ElementOfSeq
<1> DEFINE n == IF r[1] + r[2] - 1 < Len(d) THEN r[1] + r[2] - 1 ELSE Len(d)
<1>2. n \in r[1] - 1 .. Len(d) /\ n \in Nat /\ (~HasMore(d, r) => n = Len(d))
  BY <1>1 DEF HasMore
<1>3. LinesOf(d, r) = SubSeq(d, r[1], n)
  BY DEF LinesOf
<1> HIDE DEF n
<1>4. SubSeq(d, r[1], n) \in Seq(Lines)
  <2>1. \A i \in r[1] .. n : d[i] \in Lines
    BY <1>1, <1>2
  <2> QED BY <1>2, <2>1, SubSeqProperties
<1>5. SubSeq(d, 1, r[1] - 1) \o SubSeq(d, r[1], n) = SubSeq(d, 1, n)
  <2> DEFINE k == r[1] - 1
  <2>1. k \in 0 .. Len(d) /\ n \in k .. Len(d) /\ 1 \in 1 .. Len(d) + 1 /\ k + 1 = r[1]
    BY <1>1, <1>2
  <2> HIDE DEF k
  <2>2. \A m \in 1 .. Len(d) + 1 : \A j \in m - 1 .. Len(d) : \A l \in j .. Len(d) :
          SubSeq(d, m, j) \o SubSeq(d, j + 1, l) = SubSeq(d, m, l)
    BY ConcatAdjacentSubSeq
  <2>3. k \in 1 - 1 .. Len(d)
    BY <2>1
  <2>4. SubSeq(d, 1, k) \o SubSeq(d, k + 1, n) = SubSeq(d, 1, n)
    BY <2>1, <2>2, <2>3, Zenon
  <2> QED BY <2>1, <2>4 DEF k
<1>6. n <= Len(d)
  BY <1>1, <1>2
<1>7. SubSeq(d, 1, n) = SubSeq(d, 1, r[1] - 1) \o LinesOf(d, r)
  BY <1>3, <1>5, Zenon
<1>8. LinesOf(d, r) \in Seq(Lines)
  BY <1>3, <1>4
<1> QED BY <1>2, <1>6, <1>7, <1>8, Zenon

\* The first lines of a content begin it.
LEMMA FirstLines ==
  ASSUME NEW d \in Seq(Lines), NEW n \in Nat, n <= Len(d), NEW whole \in BOOLEAN,
         whole => n = Len(d)
  PROVE  Begins(SubSeq(d, 1, n), whole, d)
<1>1. Len(d) \in Nat /\ \A i \in 1..Len(d) : d[i] \in Lines
  BY LenProperties, ElementOfSeq
<1>2. Len(SubSeq(d, 1, n)) = n
  BY <1>1, SubSeqProperties, SubSeqEmpty
<1>3. SubSeq(d, 1, Len(d)) = d
  BY SubSeqFull
<1> QED BY <1>1, <1>2, <1>3 DEF Begins

-----------------------------------------------------------------------------
\* Reading a file.
LEMMA NextOfReads ==
  ASSUME IInv, ReadContent \/ ReadFails \/ ReadRevision
  PROVE  IInv'
<1>0. Shapes /\ Control /\ Sent /\ Seen /\ req \in Requests /\ files \in [Paths -> FileStates]
  BY DEF IInv, Shapes
<1>1. CASE ReadContent
  <2>1. /\ UNCHANGED <<files, now, quiet, named, known>> /\ req.step = "read"
        /\ req' = [req EXCEPT !.left = @ \ {"content"}, !.read = files[req.path].content]
    BY <1>1 DEF ReadContent
  <2>2. req.path \in Paths /\ files[req.path].content \in Seq(Lines)
    BY <1>0, <2>1 DEF Control, FileStates
  <2>3. /\ req' \in Requests /\ req'.step = "read" /\ req'.client = req.client
        /\ req'.op = req.op /\ req'.path = req.path /\ req'.expected = req.expected
        /\ req'.range = req.range /\ req'.rev = req.rev /\ req'.left = req.left \ {"content"}
        /\ req'.read = files[req.path].content
    BY <1>0, <2>1, <2>2 DEF Requests
  <2>4. Control' /\ Sent' /\ Seen'
    BY <1>0, <2>1, <2>3 DEF Control, Sent, Seen, Revision
  <2> QED BY <1>0, <2>1, <2>3, <2>4, Only DEF Shapes
<1>2. CASE ReadFails
  BY <1>2, Answered DEF ReadFails, Answer
<1>3. CASE ReadRevision
  <2>1. /\ UNCHANGED <<files, now, quiet, named, known>> /\ req.step = "read"
        /\ req' = [req EXCEPT !.left = @ \ {"revision"}, !.rev = Revision(files[req.path])]
    BY <1>3 DEF ReadRevision
  <2>2. req.path \in Paths /\ Revision(files[req.path]) \in Revisions
    BY <1>0, <2>1, RevisionKinds DEF Control
  <2>3. /\ req' \in Requests /\ req'.step = "read" /\ req'.client = req.client
        /\ req'.op = req.op /\ req'.path = req.path /\ req'.expected = req.expected
        /\ req'.range = req.range /\ req'.read = req.read
        /\ req'.left = req.left \ {"revision"} /\ req'.rev = Revision(files[req.path])
    BY <1>0, <2>1, <2>2 DEF Requests
  <2>4. Control' /\ Sent' /\ Seen'
    BY <1>0, <2>1, <2>3 DEF Control, Sent, Seen, Revision
  <2> QED BY <1>0, <2>1, <2>3, <2>4, Only DEF Shapes
<1> QED BY <1>1, <1>2, <1>3

\* What a reading request has seen, if nobody else changed a file.
LEMMA SeenWhole ==
  ASSUME IInv, req.step = "read", req.left = {}
  PROVE  /\ req \in Requests /\ req.client \in Clients /\ req.path \in Paths
         /\ quiet \in BOOLEAN
         /\ quiet => /\ req.rev = Revision(files[req.path])
                     /\ <<req.path, req.rev, req.read>> \in named
<1>1. Shapes /\ Control /\ Seen /\ Named
  BY DEF IInv, Memory
<1>2. req \in Requests /\ req.client \in Clients /\ req.path \in Paths /\ quiet \in BOOLEAN
  BY <1>1 DEF Shapes, Control
<1>3. quiet => /\ req.rev = Revision(files[req.path]) /\ files[req.path].kind = "file"
               /\ req.read = files[req.path].content
  BY <1>1 DEF Seen
<1>4. files[req.path].kind = "file" =>
        <<req.path, Revision(files[req.path]), files[req.path].content>> \in named
  BY <1>1, <1>2 DEF Named
<1> QED BY <1>2, <1>3, <1>4

\* What is told of a file that was read while nobody changed it.
Memo(lines, whole, sure) ==
  [path |-> req.path, rev |-> req.rev, lines |-> lines, whole |-> whole,
   sure |-> quiet /\ sure, fresh |-> quiet]

\* A request for lines is answered with lines that begin what it read.
LEMMA MemoTold ==
  ASSUME IInv, req.step = "read", req.left = {}, req' = Idle,
         UNCHANGED <<files, now, quiet, named>>,
         NEW lines \in Seq(Lines), NEW whole \in BOOLEAN, NEW sure \in BOOLEAN,
         known' = [known EXCEPT ![req.client] = Memo(lines, whole, sure)],
         quiet /\ sure /\ Unambiguous(req.path, req.rev) => Begins(lines, whole, req.read)
  PROVE  IInv'
<1> DEFINE m == Memo(lines, whole, sure)
<1>1. /\ req \in Requests /\ req.client \in Clients /\ req.path \in Paths /\ quiet \in BOOLEAN
      /\ quiet => /\ req.rev = Revision(files[req.path])
                  /\ <<req.path, req.rev, req.read>> \in named
  BY SeenWhole
<1>2. /\ m \in Memories /\ m.path = req.path /\ m.rev = req.rev /\ m.lines = lines
      /\ m.whole = whole /\ m.sure = (quiet /\ sure) /\ m.fresh = quiet
  BY <1>1 DEF Memo, Memories, Requests
<1> HIDE DEF m
<1>3. Remembered(m)
  <2>1. req.read \in Seq(Lines)
    BY <1>1 DEF Requests
  <2> QED BY <1>1, <1>2, <2>1 DEF Remembered
<1>4. known' = [known EXCEPT ![req.client] = m]
  BY DEF m
<1> QED BY <1>1, <1>2, <1>3, <1>4, Told

\* The answers to requests for a whole file and for a range of its lines.
LEMMA NextOfAnswers ==
  ASSUME IInv, AnswerRead \/ AnswerRange
  PROVE  IInv'
<1>1. /\ req' = Idle /\ UNCHANGED <<files, now, quiet, named>>
      /\ req.step = "read" /\ req.left = {}
  BY DEF AnswerRead, AnswerRange, Answer
<1>2. /\ req \in Requests /\ req.client \in Clients /\ req.path \in Paths /\ quiet \in BOOLEAN
      /\ quiet => /\ req.rev = Revision(files[req.path])
                  /\ <<req.path, req.rev, req.read>> \in named
  BY <1>1, SeenWhole
<1>3. req.read \in Seq(Lines) /\ req.range \in Nat \X Nat /\ Len(req.read) \in Nat
  BY <1>2, LenProperties DEF Requests
<1>4. CASE AnswerRead
  <2>1. known' = [known EXCEPT ![req.client] = Memo(req.read, TRUE, TRUE)]
    BY <1>4 DEF AnswerRead, Tell, Memo
  <2>2. Begins(req.read, TRUE, req.read)
    BY <1>3, SubSeqFull DEF Begins
  <2> QED BY <1>1, <1>3, <2>1, <2>2, MemoTold
<1>5. CASE AnswerRange
  <2> DEFINE k == known[req.client]
             piece == LinesOf(req.read, req.range)
             whole == ~HasMore(req.read, req.range)
  <2>1. req.op = "range" /\ req.range[1] >= 1 /\ req.range[2] >= 1
    BY <1>1, <1>5 DEF AnswerRange, IInv, Control
  <2>0. /\ piece \in Seq(Lines)
        /\ req.range[1] <= Len(req.read) + 1 =>
             \E n \in Nat : /\ n <= Len(req.read) /\ (whole => n = Len(req.read))
                         /\ SubSeq(req.read, 1, n)
                            = SubSeq(req.read, 1, req.range[1] - 1) \o piece
    BY <1>3, <2>1, RangeTyped, RangeLines, Zenon
  <2> HIDE DEF piece, whole
  <2>2. CASE req.range[1] = 1
    <3>1. known' = [known EXCEPT ![req.client] = Memo(piece, whole, TRUE)]
      BY <1>5, <2>2 DEF AnswerRange, Tell, Memo, piece, whole
    <3>0. req.range[1] <= Len(req.read) + 1
      BY <1>3, <2>2
    <3>2. PICK n \in Nat : /\ n <= Len(req.read) /\ (whole => n = Len(req.read))
                          /\ SubSeq(req.read, 1, n)
                             = SubSeq(req.read, 1, req.range[1] - 1) \o piece
      BY <2>0, <3>0, Zenon
    <3>3. SubSeq(req.read, 1, req.range[1] - 1) = <<>>
      BY <2>2, SubSeqEmpty
    <3>4. SubSeq(req.read, 1, n) = piece
      BY <2>0, <3>2, <3>3, ConcatEmptySeq
    <3>5. whole \in BOOLEAN
      BY DEF whole
    <3>6. Begins(piece, whole, req.read)
      BY <1>3, <3>2, <3>4, <3>5, FirstLines
    <3> QED BY <1>1, <2>0, <3>1, <3>5, <3>6, MemoTold
  <2>3. CASE req.range[1] # 1 /\ Follows(k)
    <3>1. known' = [known EXCEPT ![req.client] = Memo(k.lines \o piece, whole, k.sure)]
      BY <1>5, <2>3 DEF AnswerRange, Tell, Memo, piece, whole
    <3>2. /\ k \in Memories /\ Remembered(k) /\ k.path = req.path /\ k.rev = req.rev
          /\ req.range[1] = Len(k.lines) + 1
      BY <1>2, <2>3 DEF IInv, Shapes, Memory, Pieces, Follows
    <3>3. k.lines \in Seq(Lines) /\ k.sure \in BOOLEAN /\ Len(k.lines) \in Nat
      BY <3>2, LenProperties DEF Memories
    <3>4. whole \in BOOLEAN
      BY DEF whole
    <3>5. k.lines \o piece \in Seq(Lines)
      BY <2>0, <3>3, ConcatProperties
    <3>6. ASSUME quiet, k.sure, Unambiguous(req.path, req.rev)
          PROVE  Begins(k.lines \o piece, whole, req.read)
      <4>1. PICK d \in Seq(Lines) :
              <<req.path, req.rev, d>> \in named /\ Begins(k.lines, k.whole, d)
        BY <3>2, <3>6 DEF Remembered
      <4>2. d = req.read
        BY <1>2, <3>6, <4>1 DEF Unambiguous
      <4>3. Len(k.lines) <= Len(req.read) /\ k.lines = SubSeq(req.read, 1, Len(k.lines))
        BY <4>1, <4>2 DEF Begins
      <4>0. req.range[1] <= Len(req.read) + 1
        BY <1>3, <3>2, <3>3, <4>3
      <4>4. PICK n \in Nat : /\ n <= Len(req.read) /\ (whole => n = Len(req.read))
                            /\ SubSeq(req.read, 1, n)
                               = SubSeq(req.read, 1, req.range[1] - 1) \o piece
        BY <2>0, <4>0, Zenon
      <4>5. req.range[1] - 1 = Len(k.lines)
        BY <3>2, <3>3
      <4>6. SubSeq(req.read, 1, n) = k.lines \o piece
        BY <4>3, <4>4, <4>5
      <4> QED BY <1>3, <3>4, <4>4, <4>6, FirstLines
    <3> HIDE DEF k
    <3> QED BY <1>1, <3>1, <3>3, <3>4, <3>5, <3>6, MemoTold
  <2>4. CASE req.range[1] # 1 /\ ~Follows(k)
    BY <1>1, <1>5, <2>4, Answered DEF AnswerRange
  <2> QED BY <2>2, <2>3, <2>4
<1> QED BY <1>4, <1>5

\* Searching, which remembers nothing.
LEMMA NextOfSearches ==
  ASSUME IInv, (\E p \in Paths : SearchFile(p)) \/ SearchLoses \/ AnswerSearch
  PROVE  IInv'
<1>0. Shapes /\ Control /\ Sent /\ Seen /\ req \in Requests /\ files \in [Paths -> FileStates]
  BY DEF IInv, Shapes
<1>1. ASSUME NEW p \in Paths, SearchFile(p) PROVE IInv'
  <2>1. UNCHANGED <<files, now, quiet, named, known>> /\ req.step = "search"
    BY <1>1 DEF SearchFile
  <2>2. PICK first \in SUBSET Hits(p) :
          req' = [req EXCEPT !.todo = @ \ {p}, !.found = @ \union first]
    BY <1>1 DEF SearchFile
  <2>3. Hits(p) \subseteq Paths \X Nat
    <3>1. files[p].content \in Seq(Lines)
      BY <1>0 DEF FileStates
    <3>2. DOMAIN files[p].content \subseteq Nat
      BY <3>1, LenProperties
    <3> QED BY <3>2 DEF Hits, Matches
  <2>4. /\ req' \in Requests /\ req'.step = "search" /\ req'.client = req.client
        /\ req'.op = req.op /\ req'.path = req.path /\ req'.expected = req.expected
    BY <1>0, <2>1, <2>2, <2>3 DEF Requests
  <2>5. Control' /\ Sent' /\ Seen'
    BY <1>0, <2>1, <2>4 DEF Control, Sent, Seen
  <2> QED BY <1>0, <2>1, <2>4, <2>5, Only DEF Shapes
<1>2. CASE SearchLoses
  <2>1. UNCHANGED <<files, now, quiet, named, known>> /\ req.step = "search"
    BY <1>2 DEF SearchLoses
  <2>2. PICK rest \in SUBSET req.todo : req' = [req EXCEPT !.todo = rest, !.lost = TRUE]
    BY <1>2 DEF SearchLoses
  <2>3. /\ req' \in Requests /\ req'.step = "search" /\ req'.client = req.client
        /\ req'.op = req.op /\ req'.path = req.path /\ req'.expected = req.expected
    BY <1>0, <2>1, <2>2 DEF Requests
  <2>4. Control' /\ Sent' /\ Seen'
    BY <1>0, <2>1, <2>3 DEF Control, Sent, Seen
  <2> QED BY <1>0, <2>1, <2>3, <2>4, Only DEF Shapes
<1>3. CASE AnswerSearch
  BY <1>3, Answered DEF AnswerSearch, Answer
<1> QED BY <1>1, <1>2, <1>3

-----------------------------------------------------------------------------
\* The steps of a write before it replaces the file.
LEMMA NextOfWrites ==
  ASSUME IInv, Compare \/ WriteTemp \/ WriteFails
  PROVE  IInv'
<1>0. Shapes /\ Control /\ Sent /\ Seen /\ req \in Requests
  BY DEF IInv, Shapes
<1>1. CASE Compare
  <2>1. UNCHANGED <<files, now, quiet, named, known>> /\ req.step = "compare"
    BY <1>1 DEF Compare
  <2>2. CASE req.expected # NoRevision /\ req.expected # Revision(files[req.path])
    BY <1>1, <2>1, <2>2, Answered DEF Compare, Answer
  <2>3. CASE ~(req.expected # NoRevision /\ req.expected # Revision(files[req.path]))
    <3>1. req' = [req EXCEPT !.step = "temp"]
      BY <1>1, <2>3 DEF Compare, Step
    <3>2. /\ req' \in Requests /\ req'.step = "temp" /\ req'.client = req.client
          /\ req'.op = req.op /\ req'.path = req.path /\ req'.expected = req.expected
      BY <1>0, <3>1 DEF Requests, Steps
    <3>3. Control' /\ Sent' /\ Seen'
      BY <1>0, <2>1, <2>3, <3>2 DEF Control, Sent, Seen, Revision
    <3> QED BY <1>0, <2>1, <3>2, <3>3, Only DEF Shapes
  <2> QED BY <2>2, <2>3
<1>2. CASE WriteTemp
  <2>1. /\ UNCHANGED <<files, quiet, named, known>> /\ req.step = "temp" /\ now' \in {now, now + 1}
        /\ req' = [req EXCEPT !.step = "rename", !.rev = <<Len(req.content), now'>>]
    BY <1>2 DEF WriteTemp, Tick
  <2>2. now' \in Nat /\ Len(req.content) \in Nat
    BY <1>0, <2>1, LenProperties DEF Shapes, Requests
  <2>3. <<Len(req.content), now'>> \in Revisions /\ <<Len(req.content), now'>>[2] = now'
    BY <2>2 DEF Revisions
  <2>4. /\ req' \in Requests /\ req'.step = "rename" /\ req'.client = req.client
        /\ req'.op = req.op /\ req'.path = req.path /\ req'.expected = req.expected
        /\ req'.rev[2] \in Nat
    BY <1>0, <2>1, <2>2, <2>3 DEF Requests, Steps
  <2>5. Control' /\ Sent' /\ Seen'
    BY <1>0, <2>1, <2>4 DEF Control, Sent, Seen, Revision
  <2> QED BY <1>0, <2>1, <2>2, <2>4, <2>5, Only DEF Shapes
<1>3. CASE WriteFails
  BY <1>3, Answered DEF WriteFails, Answer
<1> QED BY <1>1, <1>2, <1>3

\* The file is replaced.
LEMMA NextOfRename ==
  ASSUME IInv, Rename
  PROVE  IInv'
<1>0. /\ Shapes /\ Control /\ Sent /\ Seen /\ Memory /\ req \in Requests
      /\ files \in [Paths -> FileStates]
  BY DEF IInv, Shapes
<1> DEFINE f == File(req.content, req.rev[2])
<1>1. /\ req.step = "rename" /\ Replace(req.path, f) /\ req' = [req EXCEPT !.step = "stamp"]
      /\ UNCHANGED <<now, quiet>>
  BY DEF Rename, Step
<1>2. req.path \in Paths /\ req.client \in Clients
  BY <1>0, <1>1 DEF Control
<1>3. f \in FileStates /\ f.kind = "file" /\ f.content = req.content
  BY <1>0, <1>1 DEF Control, Requests, File, FileStates, FileKinds
<1> HIDE DEF f
<1>4. /\ Memory' /\ known' \in [Clients -> Memories] /\ files' \in [Paths -> FileStates]
      /\ files'[req.path] = f
      /\ \A c \in Clients : known'[c].path = known[c].path /\ known'[c].rev = known[c].rev
  BY <1>0, <1>1, <1>2, <1>3, MemoryReplaced
<1>5. /\ req' \in Requests /\ req'.step = "stamp" /\ req'.client = req.client
      /\ req'.op = req.op /\ req'.path = req.path /\ req'.expected = req.expected
      /\ req'.content = req.content
  BY <1>0, <1>1 DEF Requests, Steps
<1>6. Shapes'
  BY <1>0, <1>1, <1>4, <1>5 DEF Shapes
<1>7. Control' /\ Sent' /\ Seen'
  BY <1>0, <1>1, <1>2, <1>3, <1>4, <1>5 DEF Control, Sent, Seen
<1> QED BY <1>4, <1>6, <1>7 DEF IInv

\* The writer is told what it wrote, and the revision it has now.
LEMMA NextOfAnswerWrite ==
  ASSUME IInv, AnswerWrite
  PROVE  IInv'
<1>0. /\ Shapes /\ Control /\ Seen /\ Memory /\ req \in Requests
      /\ files \in [Paths -> FileStates] /\ quiet \in BOOLEAN
  BY DEF IInv, Shapes
<1> DEFINE m == [path |-> req.path, rev |-> Revision(files[req.path]), lines |-> req.content,
                 whole |-> TRUE, sure |-> quiet, fresh |-> quiet]
<1>1. /\ req.step = "stamp" /\ known' = [known EXCEPT ![req.client] = m] /\ req' = Idle
      /\ UNCHANGED <<files, now, quiet, named>>
  BY DEF AnswerWrite, Answer
<1>2. req.path \in Paths /\ req.client \in Clients /\ req.content \in Seq(Lines)
  BY <1>0, <1>1 DEF Control, Requests
<1>3. Revision(files[req.path]) \in Revisions
  BY <1>0, <1>2, RevisionKinds
<1>4. /\ m \in Memories /\ m.path = req.path /\ m.rev = Revision(files[req.path])
      /\ m.lines = req.content /\ m.whole = TRUE /\ m.sure = quiet
  BY <1>0, <1>2, <1>3 DEF Memories
<1>5. Remembered(m)
  <2> SUFFICES ASSUME quiet PROVE Remembered(m)
    BY <1>4 DEF Remembered
  <2>1. files[req.path].kind = "file" /\ files[req.path].content = req.content
    BY <1>0, <1>1 DEF Seen
  <2>2. <<req.path, Revision(files[req.path]), req.content>> \in named
    BY <1>0, <1>2, <2>1 DEF Memory, Named
  <2>3. Begins(req.content, TRUE, req.content)
    BY <1>2, LenProperties, SubSeqFull DEF Begins
  <2> HIDE DEF m
  <2> QED BY <1>2, <1>4, <2>2, <2>3 DEF Remembered
<1> HIDE DEF m
<1> QED BY <1>1, <1>2, <1>4, <1>5, Told

-----------------------------------------------------------------------------
\* Others change a file, the access rule, or kill the server.
LEMMA NextOfOthers ==
  ASSUME IInv, (\E p \in Paths : OthersChange(p)) \/ PutAccess \/ Dies
  PROVE  IInv'
<1>0. /\ Shapes /\ Control /\ Sent /\ Seen /\ Memory /\ req \in Requests
      /\ now \in Nat /\ quiet \in BOOLEAN
  BY DEF IInv, Shapes
<1>1. ASSUME NEW p \in Paths, OthersChange(p) PROVE IInv'
  <2>1. now' \in Nat /\ quiet' = FALSE /\ req' = req
    BY <1>0, <1>1 DEF OthersChange, Tick
  <2>2. PICK f \in {File(c, now') : c \in Contents}
                    \union {NoFile(k) : k \in FileKinds \ {"file"}} : Replace(p, f)
    BY <1>1 DEF OthersChange
  <2>3. f \in FileStates
    <3>1. ASSUME NEW c \in Contents PROVE File(c, now') \in FileStates
      BY <2>1, <3>1, FilesAssumption DEF File, FileStates, FileKinds
    <3>2. ASSUME NEW k \in FileKinds \ {"file"} PROVE NoFile(k) \in FileStates
      BY <3>2, EmptySeq DEF NoFile, FileStates, FileKinds
    <3> QED BY <2>2, <3>1, <3>2
  <2>4. /\ Memory' /\ known' \in [Clients -> Memories] /\ files' \in [Paths -> FileStates]
        /\ \A c \in Clients : known'[c].path = known[c].path /\ known'[c].rev = known[c].rev
    BY <1>0, <2>2, <2>3, MemoryReplaced
  <2>5. Shapes'
    BY <1>0, <2>1, <2>4 DEF Shapes
  <2>6. Control' /\ Sent' /\ Seen'
    BY <1>0, <2>1, <2>4 DEF Control, Sent, Seen
  <2> QED BY <2>4, <2>5, <2>6 DEF IInv
<1>2. CASE PutAccess
  <2>1. UNCHANGED <<files, now, req, known, named, quiet>>
    BY <1>2 DEF PutAccess
  <2>2. Control' /\ Sent' /\ Seen'
    BY <1>0, <2>1 DEF Control, Sent, Seen, Revision
  <2> QED BY <1>0, <2>1, <2>2, Only
<1>3. CASE Dies
  BY <1>3, Answered DEF Dies
<1> QED BY <1>1, <1>2, <1>3

\* The invariant holds throughout.
THEOREM Inductive == Spec => []IInv
<1>1. IInv /\ [Next]_vars => IInv'
  <2> SUFFICES ASSUME IInv, [Next]_vars PROVE IInv'
    OBVIOUS
  <2>1. CASE UNCHANGED vars
    <3>1. UNCHANGED <<files, now, req, known, named, quiet>>
      BY <2>1 DEF vars
    <3>2. Control' /\ Sent' /\ Seen'
      BY <3>1 DEF IInv, Control, Sent, Seen, Revision
    <3> QED BY <3>1, <3>2, Only DEF IInv, Shapes
  <2>2. CASE Next
    BY <2>2, NextOfChecks, NextOfReads, NextOfAnswers, NextOfSearches, NextOfWrites,
       NextOfRename, NextOfAnswerWrite, NextOfOthers DEF Next
  <2> QED BY <2>1, <2>2
<1> QED BY <1>1, InitInv, PTL DEF Spec

-----------------------------------------------------------------------------
\* No false conflict: a write is refused for its revision only when the file
\* was changed after its client was told that revision (put_project_file_json).
THEOREM ConflictsAreReal == Spec => NoFalseConflict
<1>1. IInv /\ [Next]_vars =>
        [answer'.code = 409 /\ answer # answer' => ~known[req.client].fresh]_vars
  <2> SUFFICES ASSUME IInv, Next, answer'.code = 409, answer # answer'
               PROVE  ~known[req.client].fresh
    OBVIOUS
  <2>1. Compare /\ req' = Idle
    <3>1. answer' # NoAnswer
      BY DEF NoAnswer
    <3>2. \A t : ~Answer(200, t) /\ ~Answer(400, t)
      BY DEF Answer
    <3>3. ~Check
      BY <3>2 DEF Check
    <3>4. ~(\E c \in Clients : \E q \in Asked(c) : Arrive(q)) /\ ~Dies
      BY <3>1 DEF Arrive, Dies
    <3>5. ~ReadContent /\ ~ReadRevision /\ ~PutAccess
      BY DEF ReadContent, ReadRevision, PutAccess
    <3>11. ~WriteTemp /\ ~Rename
      BY DEF WriteTemp, Rename
    <3>6. ~(\E p \in Paths : SearchFile(p)) /\ ~(\E p \in Paths : OthersChange(p))
          /\ ~SearchLoses
      BY DEF SearchFile, OthersChange, SearchLoses
    <3>7. ~ReadFails /\ ~AnswerRead /\ ~WriteFails /\ ~AnswerWrite
      BY <3>2 DEF ReadFails, AnswerRead, WriteFails, AnswerWrite
    <3>8. ~AnswerRange
      BY <3>2 DEF AnswerRange
    <3>9. ~AnswerSearch
      BY <3>2, Zenon DEF AnswerSearch
    <3>10. Compare
      BY <3>3, <3>4, <3>5, <3>6, <3>7, <3>8, <3>9, <3>11 DEF Next
    <3> QED BY <3>10 DEF Compare, Answer
  <2>2. /\ req.step = "compare" /\ req.expected # NoRevision
        /\ req.expected # Revision(files[req.path])
    BY <2>1, IdleFields DEF Compare, Step, IInv, Shapes, Requests
  <2>3. req.op = "write" /\ req.client \in Clients
    BY <2>2 DEF IInv, Control
  <2>4. known[req.client].path = req.path /\ known[req.client].rev = req.expected
    BY <2>2, <2>3 DEF IInv, Sent
  <2>5. known[req.client].fresh => known[req.client].rev = Revision(files[req.path])
    BY <2>3, <2>4 DEF IInv, Memory, Fresh
  <2> QED BY <2>2, <2>4, <2>5
<1> QED BY <1>1, Inductive, PTL DEF Spec, NoFalseConflict

\* Pieces make a whole: lines that a client put together under one revision
\* are a file that was there under that revision.
THEOREM WholePieces == Spec => []PiecesAreOneFile
<1>1. IInv => PiecesAreOneFile
  BY DEF IInv, Memory, Pieces, Remembered, Begins, PiecesAreOneFile
<1> QED BY <1>1, Inductive, PTL

\* No lost update: a file that a client replaces under a revision it was told
\* holds what the client was told, unless somebody else changed a file during
\* one of its requests or its revision stood for two contents.
THEOREM UpdatesAreKept == Spec => NoLostUpdate
<1>1. IInv /\ [Next]_vars =>
        [LET k == known[req.client] IN
         /\ req.step = "rename" /\ req'.step = "stamp"
         /\ req.expected # NoRevision /\ k.sure /\ quiet /\ Unambiguous(req.path, req.expected)
         => /\ IsPrefix(k.lines, files[req.path].content)
            /\ k.whole => k.lines = files[req.path].content]_vars
  <2> DEFINE k == known[req.client]
  <2> SUFFICES ASSUME IInv, req.step = "rename", req.expected # NoRevision, k.sure, quiet,
                      Unambiguous(req.path, req.expected)
               PROVE  /\ IsPrefix(k.lines, files[req.path].content)
                      /\ k.whole => k.lines = files[req.path].content
    OBVIOUS
  <2>0. /\ Control /\ Sent /\ Seen /\ Named /\ Pieces /\ req \in Requests
        /\ files \in [Paths -> FileStates]
    BY DEF IInv, Memory, Shapes
  <2>1. req.op = "write" /\ req.path \in Paths /\ req.client \in Clients
    BY <2>0 DEF Control
  <2>2. k.path = req.path /\ k.rev = req.expected
    BY <2>0, <2>1 DEF Sent
  <2>3. req.expected = Revision(files[req.path]) /\ files[req.path].kind \in {"none", "file", "dangling"}
    BY <2>0 DEF Seen
  <2>4. files[req.path].kind = "file"
    BY <2>0, <2>1, <2>3, RevisionKinds
  <2>5. <<req.path, req.expected, files[req.path].content>> \in named
    BY <2>0, <2>1, <2>3, <2>4 DEF Named
  <2>6. PICK d \in Seq(Lines) :
          <<req.path, req.expected, d>> \in named /\ Begins(k.lines, k.whole, d)
    BY <2>0, <2>1, <2>2 DEF Pieces, Remembered
  <2>7. d = files[req.path].content
    BY <2>5, <2>6 DEF Unambiguous
  <2>8. k.lines \in Seq(Lines)
    BY <2>1 DEF IInv, Shapes, Memories
  <2>9. SubSeq(k.lines, 1, Len(k.lines)) = k.lines
    BY <2>8, SubSeqFull
  <2> QED BY <2>6, <2>7, <2>9 DEF Begins, IsPrefix
<1> QED BY <1>1, Inductive, PTL DEF Spec, NoLostUpdate

-----------------------------------------------------------------------------
\* A set of naturals that is not empty has a least element.
LEMMA Least ==
  ASSUME NEW T \in SUBSET Nat, T # {}
  PROVE  \E m \in T : \A k \in T : m <= k
<1>1. IsWellFoundedOn(OpToRel(<, Nat), Nat)
  BY NatLessThanWellFounded
<1>2. \E x \in T : \A y \in T : ~(<<y, x>> \in OpToRel(<, Nat))
  BY <1>1, WFMin
<1>3. PICK x \in T : \A y \in T : ~(<<y, x>> \in OpToRel(<, Nat))
  BY <1>2
<1>4. ASSUME NEW y \in T PROVE ~(y < x)
  <2>1. y \in Nat /\ x \in Nat
    BY <1>3
  <2> QED BY <1>3, <2>1 DEF OpToRel
<1>5. ASSUME NEW y \in T PROVE x <= y
  <2>1. y \in Nat /\ x \in Nat
    BY <1>3
  <2> QED BY <1>4, <2>1
<1> QED BY <1>3, <1>5

\* A set of naturals with a bound that is not empty has a greatest element.
LEMMA Greatest ==
  ASSUME NEW T \in SUBSET Nat, T # {}, NEW n \in Nat, \A k \in T : k <= n
  PROVE  \E m \in T : \A k \in T : k <= m
<1> DEFINE U == {u \in Nat : \A k \in T : k <= u}
<1>1. PICK u \in U : \A v \in U : u <= v
  <2>1. n \in U
    OBVIOUS
  <2> HIDE DEF U
  <2>2. U \in SUBSET Nat
    BY DEF U
  <2> QED BY <2>1, <2>2, Least
<1>2. u \in T
  <2> SUFFICES ASSUME u \notin T PROVE FALSE
    OBVIOUS
  <2>1. PICK k \in T : TRUE
    OBVIOUS
  <2>2. \A j \in T : j <= u - 1
    BY <1>1
  <2>3. u - 1 \in U
    BY <1>1, <2>1, <2>2
  <2> QED BY <1>1, <2>3
<1> QED BY <1>1, <1>2

\* Those of a finite set of lines that are first, as many as a limit admits.
Before(M, m) == {k \in M : k[2] <= m[2]}
First(M, limit) == {m \in M : Cardinality(Before(M, m)) <= limit}

\* The first lines of one file are within the limit, and fewer than the
\* limit only when they are all there are.
LEMMA FirstIsLimited ==
  ASSUME NEW p, NEW n \in Nat, NEW M \in SUBSET ({p} \X (1..n)), NEW limit \in Nat
  PROVE  /\ IsFiniteSet(M)
         /\ IsFiniteSet(First(M, limit)) /\ Cardinality(First(M, limit)) <= limit
         /\ Cardinality(First(M, limit)) < limit => First(M, limit) = M
<1> DEFINE F == First(M, limit)
<1>1. IsFiniteSet(M)
  <2>1. IsFiniteSet({p}) /\ IsFiniteSet(1..n)
    <3>1. IsFiniteSet({p})
      BY FS_Singleton, Zenon
    <3> QED BY <3>1, FS_Interval
  <2>2. IsFiniteSet({p} \X (1..n))
    BY <2>1, FS_Product
  <2> QED BY <2>2, FS_Subset
<1>2. F \subseteq M
  BY DEF First
<1>3. IsFiniteSet(F) /\ Cardinality(F) \in Nat
  BY <1>1, <1>2, FS_Subset, FS_CardinalityType
<1>4. \A m \in M : Before(M, m) \subseteq M /\ IsFiniteSet(Before(M, m))
  BY <1>1, FS_Subset DEF Before
<1>5. \A m \in M : m[2] \in Nat /\ m[2] <= n /\ m = <<p, m[2]>>
  OBVIOUS
<1>6. Cardinality(F) <= limit
  <2>1. CASE F = {}
    BY <2>1, FS_EmptySet
  <2>2. CASE F # {}
    <3> DEFINE T == {m[2] : m \in F}
    <3>1. T \in SUBSET Nat /\ T # {} /\ \A k \in T : k <= n
      BY <1>2, <1>5, <2>2
    <3> HIDE DEF T
    <3>2. PICK k \in T : \A j \in T : j <= k
      BY <3>1, Greatest
    <3>3. PICK m \in F : k = m[2]
      BY <3>2 DEF T
    <3>4. F \subseteq Before(M, m)
      BY <1>2, <3>2, <3>3 DEF T, Before
    <3>5. Cardinality(Before(M, m)) <= limit /\ m \in M
      BY <3>3 DEF First
    <3>6. Cardinality(F) <= Cardinality(Before(M, m)) /\ Cardinality(Before(M, m)) \in Nat
      BY <1>4, <3>4, <3>5, FS_Subset, FS_CardinalityType
    <3> QED BY <1>3, <3>5, <3>6
  <2> QED BY <2>1, <2>2
<1>7. ASSUME F # M PROVE Cardinality(F) >= limit
  <2> DEFINE T == {m[2] : m \in M \ F}
  <2>1. T \in SUBSET Nat /\ T # {}
    BY <1>2, <1>5, <1>7
  <2> HIDE DEF T
  <2>2. PICK k \in T : \A j \in T : k <= j
    BY <2>1, Least
  <2>3. PICK m \in M \ F : k = m[2]
    BY <2>2 DEF T
  <2>4. Before(M, m) \ {m} \subseteq F
    <3> SUFFICES ASSUME NEW x \in Before(M, m), x # m, x \notin F PROVE FALSE
      OBVIOUS
    <3>1. x \in M /\ x[2] <= m[2] /\ x[2] \in T
      BY DEF Before, T
    <3>2. x[2] = m[2]
      BY <1>5, <2>2, <2>3, <3>1
    <3> QED BY <1>5, <2>3, <3>1, <3>2
  <2>5. m \in Before(M, m)
    BY <1>5, <2>3 DEF Before
  <2>6. /\ IsFiniteSet(Before(M, m)) /\ Cardinality(Before(M, m)) \in Nat
        /\ Cardinality(Before(M, m) \ {m}) = Cardinality(Before(M, m)) - 1
    BY <1>4, <2>3, <2>5, FS_RemoveElement, FS_CardinalityType
  <2>7. Cardinality(Before(M, m) \ {m}) <= Cardinality(F)
    BY <1>3, <2>4, FS_Subset
  <2>8. ~(Cardinality(Before(M, m)) <= limit)
    BY <2>3 DEF First
  <2> QED BY <1>3, <2>6, <2>7, <2>8
<1>8. Cardinality(F) < limit => F = M
  BY <1>3, <1>7
<1> HIDE DEF F
<1> QED BY <1>1, <1>3, <1>6, <1>8 DEF F

-----------------------------------------------------------------------------
\* Files have contents from before now; the request brings such a content,
\* has stamped it, and has found no more lines than it may; and the bounds.
Written == \A p \in Paths : /\ files[p].content \in Contents \union {<<>>}
                            /\ files[p].stamp \in 0..now
Asking == /\ req.content \in Contents \union {<<>>}
          /\ req.step = "rename" => req.rev[2] \in 0..now
          /\ IsFiniteSet(req.found) /\ Cardinality(req.found) <= MaxMatches
Counted == /\ access \in Accesses /\ answer.code \in {0, 200, 400, 409}
           /\ count \in 0..MaxRequests /\ acts \in 0..MaxActs

\* A running search has found every line of the files it is done with, unless
\* it has found enough, passed over a file, or somebody else changed a file.
Wanted == IF req.path \in Paths THEN {req.path} ELSE Paths
Searched ==
  /\ req.step = "check" => req.found = {} /\ (req.op = "search" => Wanted \subseteq req.todo)
  /\ req.step = "search" => \A m \in req.found : m[1] \notin req.todo
  /\ req.step = "search" /\ quiet /\ ~req.lost /\ Cardinality(req.found) < MaxMatches =>
       \A p \in Wanted \ req.todo : Hits(p) \subseteq req.found

Limits == Written /\ Asking /\ Counted /\ Searched

LEMMA NoRequestLimits ==
  ASSUME req' = Idle
  PROVE  Asking' /\ Searched'
<1>1. MaxMatches \in Nat
  BY FilesAssumption
<1>2. Asking'
  BY <1>1, IdleFields, FS_EmptySet DEF Asking
<1>3. Searched'
  BY IdleFields DEF Searched
<1> QED BY <1>2, <1>3

\* Only these actions change a file, the clock or what the request brings.
LEMMA WrittenNext ==
  ASSUME IInv, Written, Asking, [Next]_vars
  PROVE  Written'
<1>0. now \in Nat /\ files \in [Paths -> FileStates] /\ req \in Requests
  BY DEF IInv, Shapes
<1>1. CASE UNCHANGED <<files, now>>
  BY <1>1 DEF Written
<1>2. CASE WriteTemp
  <2>1. files' = files /\ now' \in {now, now + 1}
    BY <1>2 DEF WriteTemp, Tick
  <2> QED BY <1>0, <2>1 DEF Written, FileStates
<1>3. CASE Rename
  <2>1. /\ files' = [files EXCEPT ![req.path] = File(req.content, req.rev[2])] /\ now' = now
        /\ req.step = "rename"
    BY <1>3 DEF Rename, Replace
  <2> QED BY <1>0, <2>1 DEF Written, Asking, File
<1>4. ASSUME NEW p \in Paths, OthersChange(p) PROVE Written'
  <2>1. now' \in {now, now + 1}
    BY <1>4 DEF OthersChange, Tick
  <2>2. PICK f \in {File(c, now') : c \in Contents}
                    \union {NoFile(k) : k \in FileKinds \ {"file"}} :
                      files' = [files EXCEPT ![p] = f]
    BY <1>4 DEF OthersChange, Replace
  <2>3. f.content \in Contents \union {<<>>} /\ f.stamp \in 0..now'
    BY <1>0, <2>1, <2>2 DEF File, NoFile
  <2> QED BY <1>0, <2>1, <2>2, <2>3 DEF Written, FileStates
<1>5. CASE UNCHANGED vars
  BY <1>1, <1>5 DEF vars
<1>6. CASE \/ \E c \in Clients : \E q \in Asked(c) : Arrive(q)
           \/ Check \/ ReadContent \/ ReadFails \/ ReadRevision \/ AnswerRead \/ AnswerRange
           \/ \E p \in Paths : SearchFile(p)
           \/ SearchLoses \/ AnswerSearch \/ Compare \/ WriteFails \/ AnswerWrite \/ PutAccess \/ Dies
  BY <1>1, <1>6 DEF Arrive, Check, ReadContent, ReadFails, ReadRevision, AnswerRead, AnswerRange,
     SearchFile, SearchLoses, AnswerSearch, Compare, WriteFails, AnswerWrite, PutAccess, Dies
<1> QED BY <1>2, <1>3, <1>4, <1>5, <1>6 DEF Next

LEMMA CountedNext ==
  ASSUME IInv, Counted, [Next]_vars
  PROVE  Counted'
<1> DEFINE Kept == access' = access /\ count' = count /\ acts' = acts
<1>0. MaxRequests \in Nat /\ MaxActs \in Nat
  BY FilesAssumption
<1>1. \A t : Answer(200, t) \/ Answer(400, t) \/ Answer(409, t) =>
               answer'.code \in {0, 200, 400, 409}
  BY DEF Answer
<1>2. NoAnswer.code = 0
  BY DEF NoAnswer
<1>3. ASSUME \/ answer' = answer
             \/ \E t \in BOOLEAN : Answer(200, t) \/ Answer(400, t) \/ Answer(409, t),
             access' = access, count' = count, acts' = acts
      PROVE  Counted'
  <2>1. answer' = answer \/ answer'.code \in {0, 200, 400, 409}
    BY <1>1, <1>3
  <2> QED BY <1>3, <2>1 DEF Counted
<1>4. ASSUME NEW c \in Clients, NEW q \in Asked(c), Arrive(q) PROVE Counted'
  BY <1>0, <1>2, <1>4 DEF Arrive, Counted
<1>5. CASE Check
  <2>1. (answer' = answer \/ Answer(400, FALSE)) /\ Kept
    BY <1>5 DEF Check
  <2> QED BY <1>3, <2>1
<1>6. CASE ReadContent \/ ReadFails \/ ReadRevision \/ AnswerRead
  <2>1. (answer' = answer \/ Answer(400, FALSE) \/ Answer(200, FALSE)) /\ Kept
    BY <1>6 DEF ReadContent, ReadFails, ReadRevision, AnswerRead
  <2> QED BY <1>3, <2>1
<1>7. CASE AnswerRange
  <2>1. Answer(200, FALSE) /\ Kept
    BY <1>7 DEF AnswerRange
  <2> QED BY <1>3, <2>1
<1>8. ASSUME SearchLoses \/ \E p \in Paths : SearchFile(p) PROVE Counted'
  <2>1. answer' = answer /\ Kept
    BY <1>8 DEF SearchFile, SearchLoses
  <2> QED BY <1>3, <2>1
<1>9. CASE AnswerSearch
  <2> DEFINE t == Cardinality(req.found) >= MaxMatches
  <2>1. Answer(200, t) /\ t \in BOOLEAN /\ Kept
    BY <1>9 DEF AnswerSearch
  <2> HIDE DEF t
  <2> QED BY <1>3, <2>1
<1>10. CASE Compare \/ WriteTemp \/ Rename \/ WriteFails \/ AnswerWrite
  <2>1. CASE Compare
    <3>1. (answer' = answer \/ Answer(409, FALSE)) /\ Kept
      BY <2>1 DEF Compare
    <3> QED BY <1>3, <3>1
  <2>2. CASE WriteTemp \/ Rename
    <3>1. answer' = answer /\ Kept
      BY <2>2 DEF WriteTemp, Rename
    <3> QED BY <1>3, <3>1
  <2>3. CASE WriteFails \/ AnswerWrite
    <3>1. (Answer(400, FALSE) \/ Answer(200, FALSE)) /\ Kept
      BY <2>3 DEF WriteFails, AnswerWrite
    <3> QED BY <1>3, <3>1
  <2> QED BY <1>10, <2>1, <2>2, <2>3
<1>11. ASSUME NEW p \in Paths, OthersChange(p) PROVE Counted'
  BY <1>0, <1>11 DEF OthersChange, Counted
<1>12. CASE PutAccess
  BY <1>0, <1>12 DEF PutAccess, Counted
<1>13. CASE Dies
  BY <1>0, <1>2, <1>13 DEF Dies, Counted
<1>14. CASE UNCHANGED vars
  BY <1>3, <1>14 DEF vars
<1> QED BY <1>4, <1>5, <1>6, <1>7, <1>8, <1>9, <1>10, <1>11, <1>12, <1>13, <1>14 DEF Next

\* What a client asks for brings one of the contents and has found nothing.
LEMMA AskedLimits ==
  ASSUME Shapes, Knows, NEW c \in Clients, NEW q \in Asked(c)
  PROVE  /\ q.content \in Contents \union {<<>>} /\ q.found = {}
         /\ q.op = "search" => (IF q.path \in Paths THEN {q.path} ELSE Paths) \subseteq q.todo
<1>1. ASSUME NEW op \in Ops, NEW p
      PROVE  /\ From(c, op, p).content = <<>> /\ From(c, op, p).found = {}
             /\ From(c, op, p).op = op /\ From(c, op, p).path = p
             /\ DOMAIN From(c, op, p) = DOMAIN Idle
  BY DEF From, Idle
<1>2. CASE q \in Reads(c)
  <2>1. PICK op \in {"read", "tool"}, p \in Opened : q = From(c, op, p)
    BY <1>2 DEF Reads
  <2> QED BY <1>1, <2>1 DEF Ops
<1>3. CASE q \in Ranged(c)
  <2>1. PICK p \in Opened, r \in Ranges : q = [From(c, "range", p) EXCEPT !.range = r]
    BY <1>3 DEF Ranged
  <2> QED BY <2>1 DEF From, Idle
<1>4. CASE q = SearchAll(c)
  BY <1>4 DEF SearchAll, From, Idle
<1>5. CASE q \in Searches(c)
  <2>1. PICK p \in Opened : q = [From(c, "search", p) EXCEPT !.todo = {p}]
    BY <1>5 DEF Searches
  <2>2. q.path = p /\ q.todo = {p} /\ q.content = <<>> /\ q.found = {} /\ p \in Paths
    BY <2>1, FilesAssumption DEF From, Idle
  <2> QED BY <2>2
<1>6. CASE q \in Writes(c)
  <2>1. PICK p \in Opened, d \in Contents : q = [From(c, "write", p) EXCEPT !.content = d]
    BY <1>6 DEF Writes
  <2> QED BY <2>1 DEF From, Idle
<1>7. CASE q \in Rewrites(c)
  <2>1. PICK d \in Contents :
          q = [From(c, "write", known[c].path) EXCEPT !.content = d, !.expected = known[c].rev]
    BY <1>7 DEF Rewrites
  <2> QED BY <2>1 DEF From, Idle
<1> QED BY <1>2, <1>3, <1>4, <1>5, <1>6, <1>7 DEF Asked

\* A step of a request that is no search keeps what the request brought.
LEMMA AskingKept ==
  ASSUME Asking, Searched, req' \in Requests, req'.content = req.content,
         req'.found = req.found, req'.step \in {"read", "temp", "stamp"}
  PROVE  Asking' /\ Searched'
  BY DEF Asking, Searched

\* The lines that are found are numbered, of the file they are in.
LEMMA HitsAreLines ==
  ASSUME Shapes, NEW p \in Paths
  PROVE  \E n \in Nat : Hits(p) \subseteq {p} \X (1..n)
<1>1. files[p].content \in Seq(Lines)
  BY DEF Shapes, FileStates
<1>2. Len(files[p].content) \in Nat /\ DOMAIN files[p].content = 1..Len(files[p].content)
  BY <1>1, LenProperties
<1>3. Hits(p) \subseteq {p} \X (1..Len(files[p].content))
  BY <1>2 DEF Hits, Matches
<1> QED BY <1>2, <1>3

\* A file is searched, up to the limit.
LEMMA SearchLimits ==
  ASSUME IInv, Asking, Searched, NEW p \in Paths, SearchFile(p)
  PROVE  Asking' /\ Searched'
<1>0. /\ Shapes /\ req \in Requests /\ MaxMatches \in Nat
      /\ IsFiniteSet(req.found) /\ Cardinality(req.found) \in Nat
  BY FilesAssumption, FS_CardinalityType DEF IInv, Shapes, Asking
<1> DEFINE limit == MaxMatches - Cardinality(req.found)
           M == Hits(p)
           F == First(M, limit)
<1>1. /\ req.step = "search" /\ p \in req.todo /\ Cardinality(req.found) < MaxMatches
      /\ req' = [req EXCEPT !.todo = @ \ {p}, !.found = @ \union F]
      /\ UNCHANGED <<files, now, quiet>>
  BY DEF SearchFile, First, Before
<1>2. limit \in Nat
  BY <1>0, <1>1
<1>3. PICK n \in Nat : M \in SUBSET ({p} \X (1..n))
  BY <1>0, HitsAreLines
<1>4. F \subseteq M /\ \A m \in M : m[1] = p
  BY <1>3 DEF First
<1>5. Wanted' = Wanted /\ \A x : Hits(x)' = Hits(x)
  BY <1>0, <1>1 DEF Wanted, Hits, Matches, Requests
<1> HIDE DEF M
<1>6. /\ IsFiniteSet(M) /\ IsFiniteSet(F) /\ Cardinality(F) \in Nat /\ Cardinality(F) <= limit
      /\ Cardinality(F) < limit => F = M
  BY <1>2, <1>3, FirstIsLimited, FS_CardinalityType
<1> HIDE DEF F
<1>7. /\ req'.step = "search" /\ req'.content = req.content /\ req'.path = req.path
      /\ req'.todo = req.todo \ {p} /\ req'.found = req.found \union F
      /\ req'.lost = req.lost
  BY <1>0, <1>1 DEF Requests
<1>8. req.found \intersect F = {}
  BY <1>1, <1>4 DEF Searched
<1>9. /\ IsFiniteSet(req'.found)
      /\ Cardinality(req'.found) = Cardinality(req.found) + Cardinality(F)
  <2>1. /\ IsFiniteSet(req.found \union F)
        /\ Cardinality(req.found \union F)
             = Cardinality(req.found) + Cardinality(F) - Cardinality(req.found \intersect F)
    BY <1>0, <1>6, FS_Union, Zenon
  <2>2. Cardinality(req.found \intersect F) = 0
    BY <1>8, FS_EmptySet, Zenon
  <2> QED BY <1>0, <1>6, <1>7, <2>1, <2>2
<1>10. Asking'
  BY <1>0, <1>1, <1>6, <1>7, <1>9 DEF Asking
<1>11. \A m \in req'.found : m[1] \notin req'.todo
  BY <1>1, <1>4, <1>7 DEF Searched
<1>12. ASSUME quiet', ~req'.lost, Cardinality(req'.found) < MaxMatches,
              NEW x \in Wanted \ req'.todo
       PROVE  Hits(x) \subseteq req'.found
  <2>1. F = M
    BY <1>0, <1>6, <1>9, <1>12
  <2>2. CASE x = p
    BY <1>7, <2>1, <2>2 DEF M
  <2>3. CASE x # p
    BY <1>1, <1>7, <1>12, <2>3 DEF Searched
  <2> QED BY <2>2, <2>3
<1>13. Searched'
  BY <1>5, <1>7, <1>11, <1>12 DEF Searched
<1> QED BY <1>10, <1>13

LEMMA SearchedNext ==
  ASSUME IInv, IInv', Asking, Searched, [Next]_vars
  PROVE  Asking' /\ Searched'
<1>0. Shapes /\ Knows /\ req \in Requests /\ req' \in Requests /\ now \in Nat
  BY DEF IInv, Memory, Shapes
<1>1. ASSUME NEW c \in Clients, NEW q \in Asked(c), Arrive(q) PROVE Asking' /\ Searched'
  <2>1. req' = [q EXCEPT !.step = "check"]
    BY <1>1 DEF Arrive
  <2>2. /\ q \in Requests /\ q.content \in Contents \union {<<>>} /\ q.found = {}
        /\ q.op = "search" => (IF q.path \in Paths THEN {q.path} ELSE Paths) \subseteq q.todo
    BY <1>0, AskedFields, AskedLimits
  <2>3. /\ req'.step = "check" /\ req'.content = q.content /\ req'.found = {}
        /\ req'.op = q.op /\ req'.path = q.path /\ req'.todo = q.todo
    BY <2>1, <2>2 DEF Requests
  <2>4. MaxMatches \in Nat
    BY FilesAssumption
  <2> QED BY <2>2, <2>3, <2>4, FS_EmptySet DEF Asking, Searched, Wanted
<1>2. CASE Check
  <2>1. CASE ~Admitted(req)
    BY <1>2, <2>1, NoRequestLimits DEF Check, Answer
  <2>2. CASE Admitted(req)
    <3>1. /\ req' = [req EXCEPT !.step = CASE req.op = "write"  -> "compare"
                                           [] req.op = "search" -> "search"
                                           [] OTHER             -> "read",
                                !.left = {"content", "revision"}]
          /\ UNCHANGED <<files, now, quiet>> /\ req.step = "check"
      BY <1>2, <2>2 DEF Check
    <3>2. /\ req'.content = req.content /\ req'.found = req.found /\ req'.path = req.path
          /\ req'.todo = req.todo
          /\ req'.step = "search" => req.op = "search"
          /\ req'.step \in {"compare", "search", "read"}
      BY <1>0, <3>1 DEF Requests
    <3> QED BY <3>1, <3>2 DEF Asking, Searched, Wanted
  <2> QED BY <2>1, <2>2
<1>3. CASE ReadContent
  <2>1. req.step = "read" /\ \E d : req' = [req EXCEPT !.left = @ \ {"content"}, !.read = d]
    BY <1>3 DEF ReadContent
  <2>2. req'.step = "read" /\ req'.content = req.content /\ req'.found = req.found
    BY <1>0, <2>1 DEF Requests
  <2> QED BY <1>0, <2>2, AskingKept
<1>4. CASE ReadRevision
  <2>1. req.step = "read" /\ \E d : req' = [req EXCEPT !.left = @ \ {"revision"}, !.rev = d]
    BY <1>4 DEF ReadRevision
  <2>2. req'.step = "read" /\ req'.content = req.content /\ req'.found = req.found
    BY <1>0, <2>1 DEF Requests
  <2> QED BY <1>0, <2>2, AskingKept
<1>5. CASE \/ ReadFails \/ AnswerRead \/ AnswerRange \/ AnswerSearch \/ WriteFails \/ AnswerWrite
           \/ Dies
  <2>1. req' = Idle
    BY <1>5 DEF ReadFails, AnswerRead, AnswerRange, AnswerSearch, WriteFails, AnswerWrite, Dies,
       Answer
  <2> QED BY <2>1, NoRequestLimits
<1>6. ASSUME NEW p \in Paths, SearchFile(p) PROVE Asking' /\ Searched'
  BY <1>6, SearchLimits
<1>12. CASE SearchLoses
  <2>1. /\ req.step = "search"
        /\ \E rest \in SUBSET req.todo : req' = [req EXCEPT !.todo = rest, !.lost = TRUE]
    BY <1>12 DEF SearchLoses
  <2>2. /\ req'.step = "search" /\ req'.content = req.content /\ req'.found = req.found
        /\ req'.lost /\ req'.todo \subseteq req.todo
    BY <1>0, <2>1 DEF Requests
  <2> QED BY <2>1, <2>2 DEF Asking, Searched
<1>7. CASE Compare
  <2>1. req' = Idle \/ req' = [req EXCEPT !.step = "temp"]
    BY <1>7 DEF Compare, Answer, Step
  <2>2. CASE req' = Idle
    BY <2>2, NoRequestLimits
  <2>3. CASE req' = [req EXCEPT !.step = "temp"]
    <3>1. req'.step = "temp" /\ req'.content = req.content /\ req'.found = req.found
      BY <1>0, <2>3 DEF Requests
    <3> QED BY <1>0, <3>1, AskingKept
  <2> QED BY <2>1, <2>2, <2>3
<1>8. CASE WriteTemp
  <2> DEFINE r == <<Len(req.content), now'>>
  <2>1. now' \in {now, now + 1} /\ req' = [req EXCEPT !.step = "rename", !.rev = r]
    BY <1>8 DEF WriteTemp, Tick
  <2>2. r[2] = now'
    OBVIOUS
  <2> HIDE DEF r
  <2>3. /\ req'.step = "rename" /\ req'.content = req.content /\ req'.found = req.found
        /\ req'.rev = r
    BY <1>0, <2>1 DEF Requests
  <2> QED BY <1>0, <2>1, <2>2, <2>3 DEF Asking, Searched
<1>9. CASE Rename
  <2>1. req' = [req EXCEPT !.step = "stamp"]
    BY <1>9 DEF Rename, Step
  <2>2. req'.step = "stamp" /\ req'.content = req.content /\ req'.found = req.found
    BY <1>0, <2>1 DEF Requests
  <2> QED BY <1>0, <2>2, AskingKept
<1>10. ASSUME NEW p \in Paths, OthersChange(p) PROVE Asking' /\ Searched'
  <2>1. now' \in {now, now + 1} /\ req' = req /\ quiet' = FALSE
    BY <1>10 DEF OthersChange, Tick
  <2> QED BY <1>0, <2>1 DEF Asking, Searched, Wanted
<1>11. CASE PutAccess \/ UNCHANGED vars
  <2>1. UNCHANGED <<files, now, req, quiet>>
    BY <1>11 DEF PutAccess, vars
  <2> QED BY <2>1 DEF Asking, Searched, Wanted, Hits, Matches
<1> QED BY <1>1, <1>2, <1>3, <1>4, <1>5, <1>6, <1>7, <1>8, <1>9, <1>10, <1>11, <1>12
  DEF Next

\* The limits hold throughout.
LEMMA AlwaysLimited == Spec => []Limits
<1>1. Init => Limits
  <2> SUFFICES ASSUME Init PROVE Limits
    OBVIOUS
  <2>1. now = 0 /\ req = Idle /\ answer = NoAnswer /\ count = 0 /\ acts = 0
    BY DEF Init
  <2>2. Written /\ access \in Accesses
    BY <2>1, BeginningsAssumption DEF Init, Written
  <2>3. MaxMatches \in Nat /\ MaxRequests \in Nat /\ MaxActs \in Nat
    BY FilesAssumption
  <2>4. Asking /\ Searched
    BY <2>1, <2>3, IdleFields, FS_EmptySet DEF Asking, Searched
  <2> QED BY <2>1, <2>2, <2>3, <2>4 DEF Limits, Counted, NoAnswer
<1>2. Limits /\ IInv /\ IInv' /\ [Next]_vars => Limits'
  BY WrittenNext, CountedNext, SearchedNext DEF Limits
<1> QED BY <1>1, <1>2, Inductive, PTL DEF Spec

\* Every variable has its type: whoever writes, files hold one of the
\* contents under a time that is past, and a search finds no more lines than
\* search_project_files allows.
THEOREM TypeCorrect == Spec => []TypeOK
<1>1. IInv /\ Limits => TypeOK
  <2> SUFFICES ASSUME IInv, Limits PROVE TypeOK
    OBVIOUS
  <2>1. files \in [Paths -> FileStates] /\ now \in Nat /\ quiet \in BOOLEAN /\ req \in Requests
    BY DEF IInv, Shapes
  <2>2. req.step \in Steps /\ req.left \subseteq {"content", "revision"} /\ req.todo \subseteq Paths
    BY <2>1 DEF Requests
  <2>3. \A p \in Paths : files[p].kind \in FileKinds
    BY <2>1 DEF FileStates
  <2> QED BY <2>1, <2>2, <2>3 DEF Limits, Written, Asking, Counted, TypeOK
<1> QED BY <1>1, Inductive, AlwaysLimited, PTL

\* The limit never cuts silently: a search that is not marked as truncated has
\* found every matching line, whatever the order of the files and wherever the
\* limit falls, unless somebody else changed a file while it ran.  Lines in
\* files above the size limit, or passed over on an error, are left out.
THEOREM LimitsAreTold == Spec => LimitIsTold
<1>1. IInv /\ Limits /\ [Next]_vars =>
        [/\ req.step = "search" /\ req'.step = "idle" /\ answer'.code = 200
         /\ ~answer'.truncated /\ quiet /\ ~req.lost
         => \A p \in IF req.path \in Paths THEN {req.path} ELSE Paths :
              files[p].content \notin Huge => Matches(p) \subseteq req.found]_vars
  <2> SUFFICES ASSUME IInv, Limits, Next, req.step = "search", req'.step = "idle",
                      answer'.code = 200, ~answer'.truncated, quiet, ~req.lost
               PROVE  \A p \in Wanted : Hits(p) \subseteq req.found
    BY DEF Wanted, Hits
  <2>0. req \in Requests
    BY DEF IInv, Shapes
  <2>1. ~(\E p \in Paths : SearchFile(p)) /\ ~SearchLoses
    <3>1. ASSUME NEW p \in Paths, SearchFile(p) PROVE FALSE
      <4>1. \E t, f : req' = [req EXCEPT !.todo = t, !.found = f]
        BY <3>1 DEF SearchFile
      <4> QED BY <2>0, <4>1 DEF Requests
    <3>2. ~SearchLoses
      <4>1. SearchLoses => \E t : req' = [req EXCEPT !.todo = t, !.lost = TRUE]
        BY DEF SearchLoses
      <4> QED BY <2>0, <4>1 DEF Requests
    <3> QED BY <3>1, <3>2
  <2>2. ~Dies
    <3> SUFFICES ASSUME Dies PROVE FALSE
      OBVIOUS
    <3>1. answer' = [code |-> 0, truncated |-> FALSE]
      BY DEF Dies, NoAnswer
    <3> QED BY <3>1
  <2>3. ~(\E c \in Clients : \E q \in Asked(c) : Arrive(q))
    BY IdleFields DEF Arrive
  <2>4. ~(\E p \in Paths : OthersChange(p)) /\ ~PutAccess
    BY IdleFields DEF OthersChange, PutAccess
  <2>5. AnswerSearch
    BY <2>1, <2>2, <2>3, <2>4 DEF Next, Check, ReadContent, ReadFails, ReadRevision, AnswerRead,
       AnswerRange, Compare, WriteTemp, Rename, WriteFails, AnswerWrite
  <2>6. Answer(200, Cardinality(req.found) >= MaxMatches)
        /\ (req.todo = {} \/ Cardinality(req.found) >= MaxMatches)
    BY <2>5 DEF AnswerSearch
  <2>7. ~(Cardinality(req.found) >= MaxMatches)
    BY <2>6 DEF Answer
  <2>8. req.todo = {} /\ Cardinality(req.found) < MaxMatches
    <3>1. Cardinality(req.found) \in Nat /\ MaxMatches \in Nat
      BY FilesAssumption, FS_CardinalityType DEF Limits, Asking
    <3> QED BY <2>6, <2>7, <3>1
  <2> QED BY <2>8 DEF Limits, Searched
<1> QED BY <1>1, Inductive, AlwaysLimited, PTL DEF Spec, LimitIsTold, Wanted
================================================================================
