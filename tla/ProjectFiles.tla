----------------------------- MODULE ProjectFiles -----------------------------
(***************************************************************************)
(* The project files that clients of gitboard-server read, search and      *)
(* replace: the handlers of /api/agent/files and Agent Pip's file tools,   *)
(* with the revisions that let a client notice that a file changed.  One   *)
(* request runs at a time (the API mutex, see ServerApi); editors and git  *)
(* change the files between any two of its steps.  A content is the        *)
(* sequence of its lines; its length stands for the size of the file.      *)
(***************************************************************************)
EXTENDS Naturals, SequencesExt

CONSTANTS Clients,
          Paths,       \* files of one directory, under one access rule
          Lines,       \* lines of text
          Contents,    \* contents of files: sequences of lines
          Huge,        \* contents larger than kMaxAgentFileReadBytes
          Matching,    \* lines that contain the query of a search
          MaxRange,    \* kMaxAgentFileRangeLines
          MaxMatches,  \* kMaxAgentSearchResults
          Opened,      \* bound: the paths that are read and replaced
          Beginnings,  \* pairs of files and access rule to begin with
          Ranges,      \* pairs of startLine and lineCount that are asked for
          MaxRequests, \* bound: requests
          MaxActs      \* bound: changes by others and deaths of the server

ASSUME FilesAssumption == /\ Huge \subseteq Contents
                          /\ \A c \in Contents : c \in Seq(Lines)
                          /\ Opened \subseteq Paths
                          /\ Ranges \subseteq Nat \X Nat
                          /\ MaxRange \in Nat /\ MaxMatches \in Nat
                          /\ MaxRequests \in Nat /\ MaxActs \in Nat

VARIABLES files,  \* what is at each path
          access, \* the access rule of the directory
          now,    \* the clock of the file system
          req,    \* the running request
          answer, \* the last answer
          known,  \* what each client was told of a file last
          named,  \* the contents that each revision of a path stood for
          quiet,  \* nobody else changed a file since the request arrived
          count,  \* requests so far
          acts    \* acts of others so far

vars == <<files, access, now, req, answer, known, named, quiet, count, acts>>

-----------------------------------------------------------------------------
NoRevision == <<>>

\* The size and the time of the last write; nothing for a missing file, or for
\* a symbolic link to one.
Revision(f) == IF f.kind \in {"none", "dangling"} THEN NoRevision ELSE <<Len(f.content), f.stamp>>

File(content, stamp) == [kind |-> "file", content |-> content, stamp |-> stamp]
NoFile(kind) == [kind |-> kind, content |-> <<>>, stamp |-> 0]

\* A request and how far its handler is: what it has read, the revision it
\* looked up, the files it has still to search, the lines it found, and whether
\* an error made it pass over files.
Idle == [client |-> "none", op |-> "none", path |-> "none", range |-> <<1, 1>>,
         content |-> <<>>, expected |-> NoRevision, step |-> "idle", left |-> {},
         read |-> <<>>, rev |-> NoRevision, todo |-> {}, found |-> {},
         lost |-> FALSE]
Nothing == [path |-> "none", rev |-> NoRevision, lines |-> <<>>, whole |-> FALSE,
            sure |-> FALSE, fresh |-> FALSE]
NoAnswer == [code |-> 0, truncated |-> FALSE]

\* Contents that the files at p have had under a revision.
Standing(p, f) == IF f.kind = "file" THEN {<<p, Revision(f), f.content>>} ELSE {}

Accesses == {"forbidden", "read_only", "full_access"}
FileKinds == {"none", "file", "directory", "link", "dangling"}
FileStates == [kind : FileKinds, content : Seq(Lines), stamp : Nat]

\* The clock starts when the last of the files was written.
ASSUME BeginningsAssumption ==
  \A b \in Beginnings : /\ b[1] \in [Paths -> FileStates] /\ b[2] \in Accesses
                        /\ \A p \in Paths : /\ b[1][p].content \in Contents \union {<<>>}
                                            /\ b[1][p].stamp = 0

Init == /\ \E b \in Beginnings : files = b[1] /\ access = b[2]
        /\ now = 0 /\ req = Idle /\ answer = NoAnswer
        /\ known = [c \in Clients |-> Nothing]
        /\ named = UNION {Standing(p, files[p]) : p \in Paths}
        /\ quiet = TRUE /\ count = 0 /\ acts = 0

Step(s) == req' = [req EXCEPT !.step = s]
Running(ops, s) == req.op \in ops /\ req.step = s

\* The file at p is changed; whoever was told of it knows an old state.
Replace(p, f) ==
  /\ files' = [files EXCEPT ![p] = f]
  /\ named' = named \union Standing(p, f)
  /\ known' = [c \in Clients |-> [known[c] EXCEPT !.fresh = @ /\ known[c].path # p]]

\* Times of two changes are equal when the clock is too coarse for them.
Tick == now' \in {now, now + 1}

Answer(code, truncated) ==
  /\ req' = Idle
  /\ answer' = [code |-> code, truncated |-> truncated]

-----------------------------------------------------------------------------
(* A request arrives; the checks before a file is touched.                 *)

Arrive(q) ==
  /\ req = Idle /\ count < MaxRequests
  /\ count' = count + 1
  /\ req' = [q EXCEPT !.step = "check"]
  /\ answer' = NoAnswer /\ quiet' = TRUE
  /\ UNCHANGED <<files, access, now, known, named, acts>>

From(c, op, p) == [Idle EXCEPT !.client = c, !.op = op, !.path = p]

Reads(c)  == {From(c, op, p) : op \in {"read", "tool"}, p \in Opened}
Ranged(c) == {[From(c, "range", p) EXCEPT !.range = r] : p \in Opened, r \in Ranges}
SearchAll(c) == [From(c, "search", "none") EXCEPT !.todo = Paths]
Searches(c)  == {[From(c, "search", p) EXCEPT !.todo = {p}] : p \in Opened}

\* A client knows the revision of one file; without one it sends none.
Writes(c)   == {[From(c, "write", p) EXCEPT !.content = d] : p \in Opened, d \in Contents}
Rewrites(c) == {[From(c, "write", known[c].path) EXCEPT !.content = d, !.expected = known[c].rev] :
                  d \in {x \in Contents : known[c] # Nothing}}

Asked(c) == Reads(c) \union Ranged(c) \union {SearchAll(c)} \union Searches(c)
            \union Writes(c) \union Rewrites(c)

AccessAllows(op) == access = "full_access" \/ (op # "write" /\ access = "read_only")

\* What must be at the path, and within which limits.  A symbolic link is
\* refused, but not one that leads nowhere as the path of a write.
ReadAllowed(f) == f.kind = "file" /\ f.content \notin Huge
RangeAllowed(f, r) == f.kind = "file" /\ r[1] >= 1 /\ r[2] >= 1 /\ r[2] <= MaxRange
WriteAllowed(f, content) == f.kind \in {"none", "file", "dangling"} /\ content \notin Huge

Admitted(q) ==
  /\ AccessAllows(q.op)
  /\ CASE q.op \in {"read", "tool"} -> ReadAllowed(files[q.path])
       [] q.op = "range"  -> RangeAllowed(files[q.path], q.range)
       [] q.op = "write"  -> WriteAllowed(files[q.path], q.content)
       [] q.op = "search" -> q.path \in Paths => files[q.path].kind = "file"

Check ==
  /\ req.step = "check"
  /\ IF ~Admitted(req) THEN Answer(400, FALSE) /\ UNCHANGED known
     ELSE /\ req' = [req EXCEPT !.step = CASE req.op = "write"  -> "compare"
                                           [] req.op = "search" -> "search"
                                           [] OTHER             -> "read",
                                !.left = {"content", "revision"}]
          /\ UNCHANGED <<answer, known>>
  /\ UNCHANGED <<files, access, now, named, quiet, count, acts>>

-----------------------------------------------------------------------------
(* Reading a file, or some of its lines.                                   *)

ReadContent ==
  /\ req.step = "read" /\ "content" \in req.left /\ files[req.path].kind = "file"
  /\ req' = [req EXCEPT !.left = @ \ {"content"}, !.read = files[req.path].content]
  /\ UNCHANGED <<files, access, now, answer, known, named, quiet, count, acts>>

\* The file went away after the checks.
ReadFails ==
  /\ req.step = "read" /\ "content" \in req.left /\ files[req.path].kind # "file"
  /\ Answer(400, FALSE)
  /\ UNCHANGED <<files, access, now, known, named, quiet, count, acts>>

\* The revision is looked up after the content; in the tool's expression the
\* compiler chooses the order.
ReadRevision ==
  /\ req.step = "read" /\ "revision" \in req.left
  /\ "content" \in req.left => req.op = "tool"
  /\ req' = [req EXCEPT !.left = @ \ {"revision"}, !.rev = Revision(files[req.path])]
  /\ UNCHANGED <<files, access, now, answer, known, named, quiet, count, acts>>

\* The client of a whole file knows it; a client that reads it in pieces
\* puts together those that follow each other under one revision.
Tell(lines, whole, sure) ==
  known' = [known EXCEPT ![req.client] =
              [path |-> req.path, rev |-> req.rev, lines |-> lines, whole |-> whole,
               sure |-> quiet /\ sure, fresh |-> quiet]]

AnswerRead ==
  /\ req.step = "read" /\ req.left = {} /\ req.op \in {"read", "tool"}
  /\ Tell(req.read, TRUE, TRUE)
  /\ Answer(200, FALSE)
  /\ UNCHANGED <<files, access, now, named, quiet, count, acts>>

LinesOf(content, r) ==
  SubSeq(content, r[1], IF r[1] + r[2] - 1 < Len(content) THEN r[1] + r[2] - 1 ELSE Len(content))
HasMoreOffByOne(content, r) == Len(content) > r[1] + r[2]
HasMore(content, r) == Len(content) > r[1] + r[2] - 1

Follows(k) == /\ k.path = req.path /\ k.rev = req.rev /\ ~k.whole
              /\ req.range[1] = Len(k.lines) + 1

AnswerRange ==
  /\ req.step = "read" /\ req.left = {} /\ req.op = "range"
  /\ LET k == known[req.client]
         piece == LinesOf(req.read, req.range)
     IN IF req.range[1] = 1 THEN Tell(piece, ~HasMore(req.read, req.range), TRUE)
        ELSE IF Follows(k) THEN Tell(k.lines \o piece, ~HasMore(req.read, req.range), k.sure)
        ELSE UNCHANGED known
  /\ Answer(200, FALSE)
  /\ UNCHANGED <<files, access, now, named, quiet, count, acts>>

-----------------------------------------------------------------------------
(* Searching the lines of a file, or of all files of the directory.        *)

Matches(p) ==
  IF files[p].kind = "file"
  THEN {<<p, i>> : i \in {j \in DOMAIN files[p].content : files[p].content[j] \in Matching}}
  ELSE {}

\* A file above the limit for reading is passed over.
Hits(p) == IF files[p].content \in Huge THEN {} ELSE Matches(p)

SearchFileUnlimited(p) ==
  /\ req.step = "search" /\ p \in req.todo /\ Cardinality(req.found) < MaxMatches
  /\ req' = [req EXCEPT !.todo = @ \ {p}, !.found = @ \union Hits(p)]
  /\ UNCHANGED <<files, access, now, answer, known, named, quiet, count, acts>>

\* The first lines of the file that match, up to the limit.
SearchFile(p) ==
  /\ req.step = "search" /\ p \in req.todo /\ Cardinality(req.found) < MaxMatches
  /\ LET first == {m \in Hits(p) :
                     Cardinality({k \in Hits(p) : k[2] <= m[2]})
                       <= MaxMatches - Cardinality(req.found)}
     IN req' = [req EXCEPT !.todo = @ \ {p}, !.found = @ \union first]
  /\ UNCHANGED <<files, access, now, answer, known, named, quiet, count, acts>>

\* A file that cannot be opened is passed over; an error of the directory's
\* iterator ends the walk.
SearchLoses ==
  /\ req.step = "search" /\ req.todo # {} /\ Cardinality(req.found) < MaxMatches
  /\ \E rest \in {req.todo \ {p} : p \in req.todo} \union {t \in {{}} : req.path \notin Paths} :
       req' = [req EXCEPT !.todo = rest, !.lost = TRUE]
  /\ UNCHANGED <<files, access, now, answer, known, named, quiet, count, acts>>

AnswerSearchAbove ==
  /\ req.step = "search" /\ (req.todo = {} \/ Cardinality(req.found) >= MaxMatches)
  /\ Answer(200, Cardinality(req.found) > MaxMatches)
  /\ UNCHANGED <<files, access, now, known, named, quiet, count, acts>>

AnswerSearch ==
  /\ req.step = "search" /\ (req.todo = {} \/ Cardinality(req.found) >= MaxMatches)
  /\ Answer(200, Cardinality(req.found) >= MaxMatches)
  /\ UNCHANGED <<files, access, now, known, named, quiet, count, acts>>

-----------------------------------------------------------------------------
(* Replacing a file.                                                       *)

CompareSizes ==
  /\ req.step = "compare"
  /\ IF req.expected # NoRevision /\ (files[req.path].kind = "none"
                                      \/ req.expected[1] # Len(files[req.path].content))
     THEN Answer(409, FALSE)
     ELSE Step("temp") /\ UNCHANGED answer
  /\ UNCHANGED <<files, access, now, known, named, quiet, count, acts>>

\* Only a revision that the client sent is compared.
Compare ==
  /\ req.step = "compare"
  /\ IF req.expected # NoRevision /\ req.expected # Revision(files[req.path])
     THEN Answer(409, FALSE)
     ELSE Step("temp") /\ UNCHANGED answer
  /\ UNCHANGED <<files, access, now, known, named, quiet, count, acts>>

\* The temporary file is written; its time stays when it is renamed.
WriteTemp ==
  /\ req.step = "temp"
  /\ Tick
  /\ req' = [req EXCEPT !.step = "rename", !.rev = <<Len(req.content), now'>>]
  /\ UNCHANGED <<files, access, answer, known, named, quiet, count, acts>>

Rename ==
  /\ req.step = "rename" /\ files[req.path].kind # "directory"
  /\ Replace(req.path, File(req.content, req.rev[2]))
  /\ Step("stamp")
  /\ UNCHANGED <<access, now, answer, quiet, count, acts>>

\* The disk is full, or a directory took the path: write_file_atomic throws.
WriteFails ==
  /\ req.step \in {"temp", "rename"}
  /\ Answer(400, FALSE)
  /\ UNCHANGED <<files, access, now, known, named, quiet, count, acts>>

AnswerWriteOldRevision ==
  /\ req.step = "stamp"
  /\ known' = [known EXCEPT ![req.client] =
                 [path |-> req.path, rev |-> req.expected, lines |-> req.content,
                  whole |-> TRUE, sure |-> quiet, fresh |-> quiet]]
  /\ Answer(200, FALSE)
  /\ UNCHANGED <<files, access, now, named, quiet, count, acts>>

AnswerWrite ==
  /\ req.step = "stamp"
  /\ known' = [known EXCEPT ![req.client] =
                 [path |-> req.path, rev |-> Revision(files[req.path]), lines |-> req.content,
                  whole |-> TRUE, sure |-> quiet, fresh |-> quiet]]
  /\ Answer(200, FALSE)
  /\ UNCHANGED <<files, access, now, named, quiet, count, acts>>

-----------------------------------------------------------------------------
(* Others: an editor or git, the settings, the death of the server.        *)

OthersChange(p) ==
  /\ acts < MaxActs /\ acts' = acts + 1
  /\ Tick
  /\ \E f \in {File(c, now') : c \in Contents}
              \union {NoFile(k) : k \in FileKinds \ {"file"}} :
       f # files[p] /\ Replace(p, f)
  /\ quiet' = FALSE
  /\ UNCHANGED <<access, req, answer, count>>

\* PUT of the file access rules: a request, so no other one runs.
PutAccess ==
  /\ req = Idle /\ acts < MaxActs /\ acts' = acts + 1
  /\ access' \in Accesses \ {access}
  /\ UNCHANGED <<files, now, req, answer, known, named, quiet, count>>

\* The server is killed: the client never hears what became of its request.
Dies ==
  /\ req # Idle /\ acts < MaxActs /\ acts' = acts + 1
  /\ req' = Idle /\ answer' = NoAnswer
  /\ UNCHANGED <<files, access, now, known, named, quiet, count>>

Next ==
  \/ \E c \in Clients : \E q \in Asked(c) : Arrive(q)
  \/ Check
  \/ ReadContent \/ ReadFails \/ ReadRevision \/ AnswerRead \/ AnswerRange
  \/ \E p \in Paths : SearchFile(p)
  \/ SearchLoses \/ AnswerSearch
  \/ Compare \/ WriteTemp \/ Rename \/ WriteFails \/ AnswerWrite
  \/ \E p \in Paths : OthersChange(p)
  \/ PutAccess \/ Dies

Spec == Init /\ [][Next]_vars

-----------------------------------------------------------------------------
(* Properties.                                                             *)

Steps == {"idle", "check", "read", "search", "compare", "temp", "rename", "stamp"}

\* Every variable has its type.
TypeOK ==
  /\ \A p \in Paths : /\ files[p].kind \in FileKinds
                      /\ files[p].content \in Contents \union {<<>>}
                      /\ files[p].stamp \in 0..now
  /\ access \in Accesses /\ now \in Nat
  /\ req.step \in Steps /\ req.left \subseteq {"content", "revision"}
  /\ req.todo \subseteq Paths /\ Cardinality(req.found) <= MaxMatches
  /\ answer.code \in {0, 200, 400, 409} /\ quiet \in BOOLEAN
  /\ count \in 0..MaxRequests /\ acts \in 0..MaxActs

\* The revision stood for one content only.
Unambiguous(p, rev) == \A a, b \in named : a[1] = p /\ a[2] = rev /\ b[1] = p /\ b[2] = rev => a = b

\* No lost update: a file that a client replaces under a revision it was
\* told, in whole or in pieces, holds what the client was told, unless
\* somebody else changed a file during one of its requests or the clock was
\* too coarse to tell two contents apart.
NoLostUpdate ==
  [][LET k == known[req.client] IN
     /\ req.step = "rename" /\ req'.step = "stamp"
     /\ req.expected # NoRevision /\ k.sure /\ quiet /\ Unambiguous(req.path, req.expected)
     => /\ IsPrefix(k.lines, files[req.path].content)
        /\ k.whole => k.lines = files[req.path].content]_vars

\* No false conflict: a write is refused for its revision only when the file
\* was changed after the client was told that revision.
NoFalseConflict ==
  [][answer'.code = 409 /\ answer # answer' => ~known[req.client].fresh]_vars

\* Pieces make a whole: lines that a client put together under one revision
\* are a file that was there under that revision.
PiecesAreOneFile ==
  \A c \in Clients : LET k == known[c] IN
    k.sure /\ k.whole /\ Unambiguous(k.path, k.rev) => <<k.path, k.rev, k.lines>> \in named

\* The limit never cuts silently: a search that is not marked as truncated has
\* found every matching line, in whatever file and wherever its limit fell.  Not
\* so for lines in files above the size limit, or passed over on an error: those
\* are missing without a sign.
LimitIsTold ==
  [][/\ req.step = "search" /\ req'.step = "idle" /\ answer'.code = 200
     /\ ~answer'.truncated /\ quiet /\ ~req.lost
     => \A p \in IF req.path \in Paths THEN {req.path} ELSE Paths :
          files[p].content \notin Huge => Matches(p) \subseteq req.found]_vars
=============================================================================
