-------------------------------- MODULE Tools --------------------------------
(***************************************************************************)
(* One call of registry.execute, from its arguments to its ToolResult: the *)
(* tools web_fetch, file_read, shell and python_exec, and the world they   *)
(* meet: servers that redirect, files that others write, commands that     *)
(* leave children behind.  AgentTurn's Execute is such a call.             *)
(***************************************************************************)
EXTENDS Integers, Sequences, FiniteSets, FiniteSetsExt, SequencesExt

CONSTANTS
  Hosts,         \* hosts that URLs name
  MaxRedirects,  \* redirects followed
  MaxBytes,      \* MAX_FETCH_BYTES, MAX_FILE_BYTES
  OutLimit,      \* STDOUT_LIMIT, PY_STDOUT_LIMIT
  ErrLimit,      \* STDERR_LIMIT, PY_STDERR_LIMIT
  Asked,         \* values of max_bytes, its default among them
  Sizes,         \* sizes of files, bodies and outputs
  Ssize,         \* lengths of reads are in -Ssize..Ssize-1
  None

\* What the content of a failed call says.
Tags ==
  {"UnknownTool", "ArgumentError", "InvalidURL", "SchemeNotAllowed", "MissingHost", "SSRFBlocked",
   "DNSFailure", "UnicodeError", "TooManyRedirects", "BinaryContent", "HTTPError", "HTTPXError",
   "PathNotAllowed", "FileNotFound", "NotRegularFile", "BinaryRefused", "PermissionDenied",
   "PermissionError", "FileNotFoundError", "IsADirectoryError", "ValueError", "OSError",
   "UnicodeDecodeError", "OverflowError", "Timeout"}

ASSUME ToolsAssumption ==
  /\ MaxRedirects \in Nat /\ MaxBytes \in Nat /\ OutLimit \in Nat /\ ErrLimit \in Nat
  /\ Asked \subseteq Int /\ Sizes \subseteq Nat /\ 0 \in Sizes /\ Ssize \in Nat
  /\ None \notin Hosts \cup Tags \cup Int

VARIABLES
  pc,      \* where the call is
  call,    \* the tool, max_bytes and the URL asked for
  result,  \* the ToolResult, or None
  url,     \* current_url; its host is current_host
  next,    \* next_url
  hop,     \* _hop
  passed,  \* history: the URLs whose host was resolved and let through
  gets,    \* history: the URLs requested
  logged,  \* hosts in web_fetch's audit lines of the event log
  there,   \* history: how many bytes there were to show
  disk,    \* the file at the path
  child    \* the command

web == <<url, next, hop, passed, gets, logged>>
vars == <<pc, call, result, web, there, disk, child>>

-----------------------------------------------------------------------------
(* Arguments                                                                *)

Schema ==
  [shell |-> [command |-> "string"],
   python_exec |-> [code |-> "string", timeout |-> "number"],
   file_read |-> [path |-> "string", max_bytes |-> "integer"],
   web_fetch |-> [url |-> "string", max_bytes |-> "integer"]]
Required ==
  [shell |-> {"command"}, python_exec |-> {"code"}, file_read |-> {"path"}, web_fetch |-> {"url"}]

\* JSON types of values.  A boolean is no integer, an integer is a number.
Matches(actual, expected) == actual = expected \/ (actual = "integer" /\ expected = "number")

Types == {"string", "integer", "number", "boolean"}
ArgumentsOf(tool) ==
  UNION {[P -> Types] : P \in SUBSET (DOMAIN Schema[tool] \cup {"other"})}

Accepted(tool, args) ==
  /\ Required[tool] \subseteq DOMAIN args
  /\ DOMAIN args \subseteq DOMAIN Schema[tool]
  /\ \A p \in DOMAIN args : Matches(args[p], Schema[tool][p])

URLs == [scheme : {"http", "other", "malformed"}, host : Hosts \cup {None}]

-----------------------------------------------------------------------------
(* Results: what the content says went wrong, the exit code, how many bytes *)
(* are shown, whether a marker says that more were there, the audit's URL.  *)

Error(tag, u) == [error |-> tag, code |-> None, shown |-> 0, truncated |-> FALSE, url |-> u]
Page(u, bytes, cut) == [error |-> None, code |-> None, shown |-> bytes, truncated |-> cut, url |-> u]

\* mutant: the argument alone decides
AsAsked(max) == max

Cap(max) == Min({max, MaxBytes})

\* mutant: a negative cap may take more than there is
CountBack(bytes, cap) == IF cap >= 0 THEN Min({bytes, cap}) ELSE bytes + cap

\* len(raw[:cap]); a negative cap counts from the end
Shown(bytes, cap) == IF cap >= 0 THEN Min({bytes, cap}) ELSE Max({0, bytes + cap})

\* mutant: no byte more than the cap is asked for, so that none is cut off
ReadCap(size, cap) == IF cap = -1 THEN size ELSE Min({size, cap})

\* f.read(cap + 1): -1 reads all
ReadMore(size, cap) == IF cap = -2 THEN size ELSE Min({size, cap + 1})

Streams == {"out", "err"}
Clip == [out |-> OutLimit, err |-> ErrLimit]
Total(f) == f["out"] + f["err"]
Clipped(f) == [s \in Streams |-> Min({f[s], Clip[s]})]

\* What the tool shows of the text it has, f.
Output(tag, code, f) ==
  [error |-> tag, code |-> code, shown |-> Total(Clipped(f)), truncated |-> Clipped(f) # f, url |-> None]

Silent == [s \in Streams |-> 0]
NoChild ==
  [code |-> None, wrote |-> Silent, crlf |-> Silent, read |-> Silent, text |-> TRUE, own |-> FALSE,
   held |-> FALSE]
Missing == [kind |-> "none", binary |-> FALSE, size |-> 0]
Files ==
  [kind : {"none", "hidden", "directory", "socket", "pipe", "denied"}, binary : {FALSE}, size : {0}]
  \cup [kind : {"file"}, binary : BOOLEAN, size : Sizes]

Go(from, to) == pc = from /\ pc' = to

Finish(from, r, bytes) ==
  /\ Go(from, "done")
  /\ result' = r
  /\ there' = bytes
  /\ UNCHANGED <<call, web, disk>>

Init ==
  /\ pc = "idle"
  /\ call = None /\ result = None
  /\ url = None /\ next = None /\ hop = 0 /\ passed = <<>> /\ gets = <<>> /\ logged = {}
  /\ there = 0
  /\ disk = Missing
  /\ child = NoChild

-----------------------------------------------------------------------------
(* registry.execute                                                         *)

Entry == [shell |-> "spawn", python_exec |-> "spawn", file_read |-> "path", web_fetch |-> "url"]
Commands == {"shell", "python_exec"}

\* The tool is known and its arguments fit, or not.
Execute ==
  /\ pc = "idle"
  /\ \E tool \in DOMAIN Schema : \E args \in ArgumentsOf(tool),
        max \in IF tool \in Commands THEN {None} ELSE Asked,
        u \in IF tool = "web_fetch" THEN URLs ELSE {None} :
       /\ pc' = IF Accepted(tool, args) THEN Entry[tool] ELSE "done"
       /\ result' = IF Accepted(tool, args) THEN None ELSE Error("ArgumentError", None)
       /\ call' = [tool |-> tool, max |-> max, url |-> u]
       /\ next' = u
  /\ UNCHANGED <<url, hop, passed, gets, logged, there, disk, child>>

\* Arguments that are no object: the test for the required names, or what
\* follows it, raises outside the try of execute, unless a name is missed first.
NoObject ==
  \/ Finish("idle", Error("ArgumentError", None), 0) /\ UNCHANGED child
  \/ /\ Go("idle", "raised")
     /\ UNCHANGED <<call, result, web, there, disk, child>>

UnknownTool == Finish("idle", Error("UnknownTool", None), 0) /\ UNCHANGED child

-----------------------------------------------------------------------------
(* web_fetch                                                                *)

Malformed == next.scheme = "malformed"

\* A redirect's Location is joined to current_url before it is next_url.
BadURL ==
  /\ Finish("url", CASE Malformed -> Error("InvalidURL", IF hop = 0 THEN next ELSE url)
                     [] next.scheme = "other" -> Error("SchemeNotAllowed", next)
                     [] OTHER -> Error("MissingHost", next), 0)
  /\ next.scheme # "http" \/ next.host = None
  /\ UNCHANGED child

GoodURL ==
  /\ Go("url", "check")
  /\ next.scheme = "http" /\ next.host # None
  /\ UNCHANGED <<call, result, web, there, disk, child>>

\* _ssrf_check refuses.  What it raises leaves web_fetch before the first
\* request, and is caught with current_url after it.
Refuse ==
  /\ \/ \E tag \in {"SSRFBlocked", "DNSFailure"} : Finish("check", Error(tag, next), 0)
     \/ Finish("check", Error("UnicodeError", url), 0)
  /\ UNCHANGED child

\* mutant: the last redirect is not followed
AllHops == hop >= MaxRedirects

HopsUsed == hop > MaxRedirects

\* The host passes.  The log line of the first is best effort.
Allow ==
  /\ pc = "check"
  /\ passed' = Append(passed, next)
  /\ url' = next
  /\ logged' \in IF hop = 0 THEN {logged, logged \cup {next.host}} ELSE {logged}
  /\ pc' = IF HopsUsed THEN "done" ELSE "get"
  /\ result' = IF HopsUsed THEN Error("TooManyRedirects", next) ELSE None
  /\ UNCHANGED <<call, next, hop, gets, there, disk, child>>

Get ==
  /\ Go("get", "answer")
  /\ gets' = Append(gets, url)
  /\ UNCHANGED <<call, result, url, next, hop, passed, logged, there, disk, child>>

\* mutant: a redirect is followed as it comes
FollowBlindly ==
  /\ Go("answer", "get")
  /\ next' \in URLs /\ url' = next'
  /\ hop' = hop + 1
  /\ UNCHANGED <<call, result, passed, gets, logged, there, disk, child>>

Redirect ==
  /\ Go("answer", "url")
  /\ next' \in URLs
  /\ hop' = hop + 1
  /\ UNCHANGED <<call, result, url, passed, gets, logged, there, disk, child>>

\* The body was read whole before it is cut.  A redirect without a Location
\* is such an answer.
Deliver ==
  /\ \/ Finish("answer", Error("BinaryContent", url), 0)
     \/ Finish("answer", Error("HTTPError", url), 0)
     \/ \E size \in Sizes : LET cap == Cap(call.max) IN
          Finish("answer", Page(url, Shown(size, cap), size > cap), size)
  /\ UNCHANGED child

FetchFails ==
  /\ \E tag \in {"Timeout", "HTTPXError"} : Finish("answer", Error(tag, url), 0)
  /\ UNCHANGED child

-----------------------------------------------------------------------------
(* file_read                                                                *)

Resolve ==
  \/ /\ Go("path", "exists")
     /\ UNCHANGED <<call, result, web, there, disk, child>>
  \/ /\ \E tag \in {"PathNotAllowed", "ValueError"} : Finish("path", Error(tag, None), 0)
     /\ UNCHANGED child

\* Whether a file under a closed directory exists, Path answers in some
\* versions of Python and raises in others.
Exists ==
  \/ /\ Go("exists", "isfile")
     /\ disk.kind \notin {"none", "hidden"}
     /\ UNCHANGED <<call, result, web, there, disk, child>>
  \/ /\ Finish("exists", Error("FileNotFound", None), 0)
     /\ disk.kind \in {"none", "hidden"}
     /\ UNCHANGED child
  \/ /\ Finish("exists", Error("PermissionError", None), 0)
     /\ disk.kind = "hidden"
     /\ UNCHANGED child

IsFile ==
  \/ /\ Go("isfile", "probe")
     /\ disk.kind \in {"file", "denied"}
     /\ UNCHANGED <<call, result, web, there, disk, child>>
  \/ /\ Finish("isfile", Error("NotRegularFile", None), 0)
     /\ disk.kind \notin {"file", "denied"}
     /\ UNCHANGED child
  \/ /\ Finish("isfile", Error("PermissionError", None), 0)
     /\ disk.kind = "hidden"
     /\ UNCHANGED child

OpenError ==
  [none |-> "FileNotFoundError", directory |-> "IsADirectoryError", socket |-> "OSError",
   hidden |-> "PermissionDenied", denied |-> "PermissionDenied"]

Probe ==
  \/ /\ Go("probe", "read")
     /\ disk.kind = "file" /\ ~disk.binary
     /\ UNCHANGED <<call, result, web, there, disk, child>>
  \/ /\ Finish("probe", Error("BinaryRefused", None), 0)
     /\ disk.kind = "file" /\ disk.binary
     /\ UNCHANGED child

CannotOpen ==
  /\ disk.kind \notin {"file", "pipe"}
  /\ \E from \in {"probe", "read"} : Finish(from, Error(OpenError[disk.kind], None), 0)
  /\ UNCHANGED child

\* f.read(cap + 1) on the file that is open, of the size it has
Read(from, size) ==
  LET cap == Cap(call.max)
      raw == ReadMore(size, cap)
  IN  Finish(from, IF cap + 1 < -Ssize THEN Error("OverflowError", None)
                   ELSE IF cap < -2 THEN Error("ValueError", None)
                   ELSE Page(None, Shown(raw, cap), raw > cap), size)

\* The file opened now, which need not be the one that was probed.
ReadFile == disk.kind = "file" /\ Read("read", disk.size) /\ UNCHANGED child

\* A named pipe that took the file's place: open waits for somebody to write,
\* with no deadline.
OpenPipe ==
  /\ disk.kind = "pipe"
  /\ Go("probe", "probing") \/ Go("read", "reading")
  /\ UNCHANGED <<call, result, web, there, disk, child>>

\* Somebody writes into the pipe and closes it.
Feed ==
  \/ /\ Go("probing", "read")
     /\ UNCHANGED <<call, result, web, there, disk, child>>
  \/ Finish("probing", Error("BinaryRefused", None), 0) /\ UNCHANGED child
  \/ \E size \in Sizes : Read("reading", size) /\ UNCHANGED child

\* Another process creates, replaces, writes, removes or locks away the file.
Rewrite ==
  /\ pc \in {"path", "exists", "isfile", "probe", "probing", "read"}
  /\ disk' \in Files
  /\ UNCHANGED <<pc, call, result, web, there, child>>

-----------------------------------------------------------------------------
(* shell and python_exec                                                    *)

Spawn ==
  /\ Go("spawn", "run")
  /\ child' = [NoChild EXCEPT !.own = TRUE]
  /\ UNCHANGED <<call, result, web, there, disk>>

\* A timeout no float holds leaves python_exec before its try; fork or exec
\* fails; a NUL character in the command, which only shell lets out of execute.
CannotSpawn ==
  /\ pc = "spawn"
  /\ \/ call.tool = "python_exec" /\ Finish("spawn", Error("OverflowError", None), 0)
     \/ Finish("spawn", [Error("OSError", None) EXCEPT !.code = -1], 0)
     \/ Finish("spawn", [Error("ValueError", None) EXCEPT
                           !.code = IF call.tool = "shell" THEN None ELSE -1], 0)
  /\ UNCHANGED child

Command(c) == pc = "run" /\ child' = c /\ UNCHANGED <<pc, call, result, web, there, disk>>

\* The command, or what it left in the background, writes: some of it may be
\* no UTF-8, some of it ends of lines that are two bytes long.
Say ==
  /\ child.own \/ child.held
  /\ \E s \in Streams, size \in Sizes, utf8 \in BOOLEAN :
       /\ size > child.wrote[s]
       /\ \E ends \in child.crlf[s] .. size \div 2 :
            Command([child EXCEPT !.wrote[s] = size, !.crlf[s] = ends, !.text = @ /\ utf8])

LeaveBehind == child.own /\ ~child.held /\ Command([child EXCEPT !.held = TRUE])
CloseOutput == child.own /\ Command([child EXCEPT !.own = FALSE])
LetGo == child.held /\ Command([child EXCEPT !.held = FALSE])

\* -1 is the end by SIGHUP.
Exit == child.code = None /\ \E code \in {0, 1, -1} : Command([child EXCEPT !.code = code, !.own = FALSE])

ReadPipe == \E s \in Streams :
  child.read[s] < child.wrote[s] /\ Command([child EXCEPT !.read[s] = child.wrote[s]])

\* Both pipes are read to their end: nobody can write any more.
Eof == ~child.own /\ ~child.held /\ child.read = child.wrote

\* mutant: the pipes are left when the command is gone
CollectEarly ==
  /\ child.code # None
  /\ Finish("run", Output(None, child.code, child.read), Total(child.wrote))
  /\ UNCHANGED child

\* text=True: a line's end is one character.
Text(c) == [s \in Streams |-> c.wrote[s] - c.crlf[s]]

\* communicate returns: the output is decoded after the command has ended.
Collect ==
  /\ Eof /\ child.code # None
  /\ Finish("run", IF child.text THEN Output(None, child.code, Text(child))
                   ELSE [Error("UnicodeDecodeError", None) EXCEPT
                           !.code = IF call.tool = "shell" THEN None ELSE -1],
            Total(Text(child)))
  /\ UNCHANGED child

Killed == -9

\* "timeout after 30s" and a newline, before what was read of stderr
Notice == 1

\* mutant: no timeout is given
NoDeadline == FALSE

\* Partial output is decoded as it is, and what is no character becomes one
\* of three bytes: none of it is, or all.
Replaced(f) == {[s \in Streams |-> f[s] * bytes[s]] : bytes \in [Streams -> {1, 3}]}

\* The time is over: the command is killed, what it left behind is not.  shell
\* shows what was read, unless it only waited for the command's end by then.
Deadline ==
  /\ \E partial \in Replaced(child.read) \cup (IF Eof THEN {Silent} ELSE {}) :
     Finish("run", IF call.tool = "shell"
                   THEN Output("Timeout", -1, [partial EXCEPT !["err"] = @ + Notice])
                   ELSE [Error("Timeout", None) EXCEPT !.code = -1],
            Total(child.wrote))
  /\ child' = [child EXCEPT !.code = IF @ = None THEN Killed ELSE @, !.own = FALSE]

-----------------------------------------------------------------------------
\* What this process does, without waiting for anybody.
Proceed ==
  \/ BadURL \/ GoodURL \/ Refuse \/ Allow \/ Get
  \/ Resolve \/ Exists \/ IsFile \/ Probe \/ CannotOpen \/ OpenPipe \/ ReadFile
  \/ Spawn \/ CannotSpawn \/ ReadPipe \/ Collect

Next ==
  \/ Execute \/ NoObject \/ UnknownTool \/ Proceed \/ Deadline
  \/ Redirect \/ Deliver \/ FetchFails
  \/ Rewrite \/ Feed
  \/ Say \/ LeaveBehind \/ CloseOutput \/ LetGo \/ Exit

Spec == Init /\ [][Next]_vars

\* The steps of this process, and the timeout of a command.  A server's answer
\* has no deadline: httpx bounds the wait for each read of it.  Nor has the
\* wait for somebody to write into a pipe.
FairSpec == Spec /\ WF_vars(Proceed) /\ WF_vars(Deadline)

-----------------------------------------------------------------------------
(* Properties                                                               *)

Results ==
  [error : Tags \cup {None}, code : {None, 0, 1, -1}, shown : Nat, truncated : BOOLEAN,
   url : URLs \cup {None}]
Calls == [tool : DOMAIN Schema, max : Asked \cup {None}, url : URLs \cup {None}]
Bytes == [Streams -> Nat]
Children ==
  {c \in [code : {None, 0, 1, -1, Killed}, wrote : Bytes, crlf : Bytes, read : Bytes, text : BOOLEAN,
          own : BOOLEAN, held : BOOLEAN] :
     \A s \in Streams : c.crlf[s] <= c.wrote[s]}

\* The variables have their types.
TypeOK ==
  /\ pc \in {"idle", "url", "check", "get", "answer", "path", "exists", "isfile", "probe",
             "probing", "read", "reading", "spawn", "run", "done", "raised"}
  /\ call = None \/ call \in Calls
  /\ result = None \/ result \in Results
  /\ url \in URLs \cup {None} /\ next \in URLs \cup {None}
  /\ hop \in 0..(MaxRedirects + 1)
  /\ passed \in Seq(URLs) /\ gets \in Seq(URLs) /\ logged \subseteq Hosts
  /\ there \in Nat
  /\ disk \in Files
  /\ child \in Children

\* Each request, those that follow redirects too, goes to a web URL with a
\* host, and that very host was resolved and let through before it, once for
\* each request (web_fetch.py:121, 168).
EveryHopIsChecked ==
  /\ IsPrefix(gets, passed)
  /\ \A i \in DOMAIN gets : gets[i].scheme = "http" /\ gets[i].host \in Hosts

\* MaxRedirects redirects are followed, one more is not: the answer "too many
\* redirects" comes after MaxRedirects + 1 requests, no call makes more, and
\* any other answer of a server is about the URL requested last
\* (web_fetch.py:144, 184).
RedirectsAreCounted ==
  /\ Len(gets) <= MaxRedirects + 1
  /\ pc = "done" /\ result.error = "TooManyRedirects" => Len(gets) = MaxRedirects + 1
  /\ pc = "done" /\ result.error \in {None, "BinaryContent", "HTTPError", "Timeout"} /\ gets # <<>>
       => result.url = Last(gets)

\* A result that reports no error and shows fewer bytes than there were, the
\* ends of a command's lines counted as one, says so, whatever max_bytes is, a negative number included (file_read.py:115,
\* web_fetch.py:220, shell.py:163).
NothingCutSilently ==
  pc = "done" /\ result.error = None /\ result.shown < there => result.truncated

\* A page or file is no longer than max_bytes, nor than the ceiling, unless
\* max_bytes is negative (web_fetch.py:99, file_read.py:94).
CapHolds ==
  /\ pc = "done" /\ result.error = None /\ call.tool \notin Commands
  /\ call.max >= 0
  => result.shown <= call.max /\ result.shown <= MaxBytes

\* An exit code that is reported without an error is the command's, and then
\* nobody writes to its pipes any more and all that was written is shown, up to
\* the limits: what a process left in the background says is waited for, or the
\* call times out (shell.py:56, python_exec.py:70).
ExitIsTheCommands ==
  pc = "done" /\ result.error = None /\ call.tool \in Commands =>
      /\ result.code = child.code
      /\ ~child.own /\ ~child.held
      /\ result.shown = Total(Clipped(Text(child)))

\* A call ends, unless a server never ends its answer or nobody writes into a
\* pipe that took the file's place: the loop of redirects does, and so does the
\* wait for a command, whatever it leaves behind (web_fetch.py:144,
\* shell.py:61, python_exec.py:78).
ToolEnds == <>[](pc \in {"idle", "answer", "probing", "reading", "done", "raised"})
=============================================================================
