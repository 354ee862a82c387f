---------------------------- MODULE ToolsProofs ----------------------------
(***************************************************************************)
(* What a tool call guarantees for any hosts, sizes, limits and numbers of *)
(* redirects, and for any argument max_bytes.                              *)
(***************************************************************************)
EXTENDS Tools, SequenceTheorems, TLAPS

WebPoints == {"url", "check", "get", "answer"}
FilePoints == {"path", "exists", "isfile", "probe", "probing", "read", "reading"}
CommandPoints == {"spawn", "run"}

Good(u) == u \in URLs /\ u.scheme = "http" /\ u.host \in Hosts

\* A call that was accepted is at a point of its tool, and has what that
\* tool's arguments give.
Called ==
  /\ pc \in WebPoints => call \in Calls /\ call.tool = "web_fetch" /\ call.max \in Asked
  /\ pc \in FilePoints => call \in Calls /\ call.tool = "file_read" /\ call.max \in Asked
  /\ pc \in CommandPoints => call \in Calls /\ call.tool \in Commands
  /\ pc = "run" => child.code # Killed

\* The requests made, the checks passed and the hops counted, point by point.
Hops ==
  /\ Len(gets) <= MaxRedirects + 1
  /\ \A i \in DOMAIN gets : Good(gets[i])
  /\ pc \notin WebPoints \cup {"done"} => hop = 0 /\ gets = <<>> /\ passed = <<>>
  /\ pc \in {"url", "check"} => passed = gets /\ Len(gets) = hop /\ next \in URLs
  /\ pc = "check" => Good(next)
  /\ pc = "get" => passed = Append(gets, url) /\ Len(gets) = hop /\ hop <= MaxRedirects /\ Good(url)
  /\ pc = "answer" => passed = gets /\ Len(gets) = hop + 1 /\ hop <= MaxRedirects /\ url = Last(gets)
  /\ pc = "done" => IsPrefix(gets, passed)

\* What a finished call tells.
Told ==
  pc = "done" =>
    /\ result \in Results
    /\ RedirectsAreCounted
    /\ NothingCutSilently /\ CapHolds /\ ExitIsTheCommands

IInv == TypeOK /\ Called /\ Hops /\ Told

-----------------------------------------------------------------------------
(* The smaller of two numbers, and what is cut off                          *)

LEMMA MinOfTwo ==
  ASSUME NEW a \in Int, NEW b \in Int
  PROVE  Min({a, b}) \in {a, b} /\ Min({a, b}) <= a /\ Min({a, b}) <= b
<1>1. \E x \in {a, b} : \A y \in {a, b} : x <= y
  <2>1. a <= b \/ b <= a OBVIOUS
  <2> QED BY <2>1
<1> QED BY <1>1 DEF Min

LEMMA MaxOfTwo ==
  ASSUME NEW a \in Int, NEW b \in Int
  PROVE  Max({a, b}) \in {a, b} /\ Max({a, b}) >= a /\ Max({a, b}) >= b
<1>1. \E x \in {a, b} : \A y \in {a, b} : x >= y
  <2>1. a <= b \/ b <= a OBVIOUS
  <2> QED BY <2>1
<1> QED BY <1>1 DEF Max

\* The bound on what is taken, for every max_bytes.
LEMMA CapBounds ==
  ASSUME NEW max \in Int
  PROVE  Cap(max) \in Int /\ Cap(max) <= max /\ Cap(max) <= MaxBytes /\ (max >= 0 => Cap(max) >= 0)
<1>1. MaxBytes \in Nat BY ToolsAssumption
<1> QED BY <1>1, MinOfTwo DEF Cap

LEMMA ShownBounds ==
  ASSUME NEW bytes \in Nat, NEW cap \in Int
  PROVE  /\ Shown(bytes, cap) \in Nat /\ Shown(bytes, cap) <= bytes
         /\ cap >= 0 => Shown(bytes, cap) <= cap
         /\ bytes <= cap => Shown(bytes, cap) = bytes
<1>1. CASE cap >= 0 BY <1>1, MinOfTwo DEF Shown
<1>2. CASE cap < 0
  <2>1. bytes + cap \in Int /\ 0 \in Int OBVIOUS
  <2>2. Max({0, bytes + cap}) \in {0, bytes + cap} /\ Max({0, bytes + cap}) >= 0 BY <2>1, MaxOfTwo
  <2> QED BY <1>2, <2>2 DEF Shown
<1> QED BY <1>1, <1>2

\* One byte more than the cap is read, if there is one.
LEMMA ReadBounds ==
  ASSUME NEW size \in Nat, NEW cap \in Int, cap >= -2
  PROVE  /\ ReadMore(size, cap) \in Nat /\ ReadMore(size, cap) <= size
         /\ ReadMore(size, cap) <= cap => ReadMore(size, cap) = size
<1>1. CASE cap = -2 BY <1>1 DEF ReadMore
<1>2. CASE cap >= -1
  <2>1. cap + 1 \in Nat /\ cap # -2 BY <1>2
  <2>2. /\ Min({size, cap + 1}) \in {size, cap + 1}
        /\ Min({size, cap + 1}) <= size /\ Min({size, cap + 1}) <= cap + 1
    BY <2>1, MinOfTwo
  <2> QED BY <2>1, <2>2 DEF ReadMore
<1> QED BY <1>1, <1>2

LEMMA OutputBounds ==
  ASSUME NEW f \in Bytes
  PROVE  /\ Total(f) \in Nat /\ Total(Clipped(f)) \in Nat
         /\ Total(Clipped(f)) < Total(f) => Clipped(f) # f
<1>1. f["out"] \in Nat /\ f["err"] \in Nat BY DEF Bytes, Streams
<1>2. \A s \in Streams : Clip[s] \in Nat BY ToolsAssumption DEF Clip, Streams
<1>3. \A s \in Streams : Clipped(f)[s] \in Nat
  <2> TAKE s \in Streams
  <2>1. f[s] \in Nat /\ Clip[s] \in Nat BY <1>2 DEF Bytes
  <2>2. f[s] \in Int /\ Clip[s] \in Int BY <2>1
  <2>3. Min({f[s], Clip[s]}) \in {f[s], Clip[s]} BY <2>2, MinOfTwo, Zenon
  <2> QED BY <2>1, <2>3 DEF Clipped
<1>4. Clipped(f)["out"] \in Nat /\ Clipped(f)["err"] \in Nat BY <1>3 DEF Streams
<1> QED BY <1>1, <1>4 DEF Total

LEMMA PrefixOfItself ==
  ASSUME NEW s \in Seq(URLs), NEW u \in URLs
  PROVE  IsPrefix(s, s) /\ IsPrefix(s, Append(s, u))
<1>1. Len(s) \in Nat /\ Append(s, u) \in Seq(URLs) /\ Len(Append(s, u)) = Len(s) + 1
      /\ \A i \in 1..Len(s) : Append(s, u)[i] = s[i]
  BY AppendProperties, LenProperties
<1>2. SubSeq(s, 1, Len(s)) = [i \in 1..Len(s) |-> s[i]] BY <1>1 
<1>3. SubSeq(Append(s, u), 1, Len(s)) = [i \in 1..Len(s) |-> Append(s, u)[i]] BY <1>1
<1> QED BY <1>1, <1>2, <1>3 DEF IsPrefix
-----------------------------------------------------------------------------
(* Steps that end a call *)

LEMMA NoTagIsNone == \A tag \in Tags : tag # None
  BY ToolsAssumption DEF Tags

LEMMA ErrorsAreResults ==
  ASSUME NEW tag \in Tags, NEW u \in URLs \cup {None}
  PROVE  Error(tag, u) \in Results /\ Error(tag, u).error = tag /\ Error(tag, u).url = u
  BY DEF Error, Results

LEMMA PagesAreResults ==
  ASSUME NEW u \in URLs \cup {None}, NEW bytes \in Nat, NEW cut \in BOOLEAN
  PROVE  /\ Page(u, bytes, cut) \in Results
         /\ Page(u, bytes, cut).error = None /\ Page(u, bytes, cut).url = u
         /\ Page(u, bytes, cut).shown = bytes /\ Page(u, bytes, cut).truncated = cut
  BY DEF Page, Results

\* The end of a call, once what its result tells is shown to be true.
LEMMA CallEnds ==
  ASSUME IInv, NEW r \in Results, NEW bytes \in Nat, NEW from, Finish(from, r, bytes),
         child' \in Children, IsPrefix(gets, passed),
         RedirectsAreCounted', (NothingCutSilently /\ CapHolds /\ ExitIsTheCommands)'
  PROVE  IInv'
<1>1. /\ pc' = "done" /\ result' = r /\ there' = bytes
      /\ UNCHANGED <<call, url, next, hop, passed, gets, logged, disk>>
  BY DEF Finish, Go, web
<1>2. TypeOK' BY <1>1 DEF IInv, TypeOK
<1>3. Called' BY <1>1 DEF Called, WebPoints, FilePoints, CommandPoints
<1>4. Hops' BY <1>1 DEF IInv, Hops, WebPoints
<1> QED BY <1>1, <1>2, <1>3, <1>4 DEF IInv, Told

\* An end with an error: nothing is claimed of what it shows.
LEMMA EndsInError ==
  ASSUME IInv, NEW r \in Results, r.error \in Tags, NEW bytes \in Nat, NEW from, Finish(from, r, bytes),
         child' \in Children, IsPrefix(gets, passed),
         r.error = "TooManyRedirects" => Len(gets) = MaxRedirects + 1,
         r.error \in {"BinaryContent", "HTTPError", "Timeout"} /\ gets # <<>> => r.url = Last(gets)
  PROVE  IInv'
<1>1. pc' = "done" /\ result' = r /\ gets' = gets BY DEF Finish, Go, web
<1>2. r.error # None BY NoTagIsNone
<1>3. RedirectsAreCounted' BY <1>1, <1>2 DEF IInv, Hops, RedirectsAreCounted
<1>4. (NothingCutSilently /\ CapHolds /\ ExitIsTheCommands)'
  BY <1>1, <1>2 DEF NothingCutSilently, CapHolds, ExitIsTheCommands
<1> QED BY <1>3, <1>4, CallEnds, Zenon

\* An end with a page or a file: it is what was fetched, cut at the cap.
LEMMA EndsWithPage ==
  ASSUME IInv, NEW u \in URLs \cup {None}, NEW shown \in Nat, NEW cut \in BOOLEAN, NEW size \in Nat,
         NEW from, Finish(from, Page(u, shown, cut), size),
         child' \in Children, IsPrefix(gets, passed),
         call.tool \notin Commands, gets # <<>> => u = Last(gets),
         shown < size => cut,
         call.max >= 0 => shown <= call.max /\ shown <= MaxBytes
  PROVE  IInv'
<1> DEFINE r == Page(u, shown, cut)
<1>1. /\ r \in Results /\ r.error = None /\ r.url = u
      /\ r.shown = shown /\ r.truncated = cut
  <2>1. /\ Page(u, shown, cut) \in Results
        /\ Page(u, shown, cut).error = None /\ Page(u, shown, cut).url = u
        /\ Page(u, shown, cut).shown = shown /\ Page(u, shown, cut).truncated = cut
    BY PagesAreResults, Zenon
  <2> QED BY <2>1, Zenon
<1> HIDE DEF r
<1>2. Finish(from, r, size) BY DEF r
<1>3. result' = r /\ there' = size /\ call' = call /\ gets' = gets BY <1>2 DEF Finish, web
<1>4. RedirectsAreCounted'
  <2>1. None # "TooManyRedirects"
    <3>1. "TooManyRedirects" \in Tags BY DEF Tags
    <3> QED BY <3>1, NoTagIsNone
  <2>2. Len(gets) <= MaxRedirects + 1 BY DEF IInv, Hops
  <2> QED BY <1>1, <1>3, <2>1, <2>2 DEF RedirectsAreCounted
<1>5. NothingCutSilently'
  <2>1. r.shown < size => r.truncated BY <1>1, Zenon
  <2> QED BY <1>3, <2>1 DEF NothingCutSilently
<1>6. CapHolds' BY <1>1, <1>3 DEF CapHolds
<1>7. ExitIsTheCommands' BY <1>3 DEF ExitIsTheCommands
<1> QED BY <1>1, <1>2, <1>4, <1>5, <1>6, <1>7, CallEnds

\* An end with an error before the first request, where the tag alone matters.
LEMMA EndsEarly ==
  ASSUME IInv, NEW r \in Results, r.error \in Tags \ {"TooManyRedirects"},
         NEW bytes \in Nat, NEW from \in {"idle"} \cup FilePoints \cup CommandPoints,
         Finish(from, r, bytes), child' \in Children
  PROVE  IInv'
<1>1. gets = <<>> /\ passed = <<>>
  BY DEF IInv, Hops, Finish, Go, FilePoints, CommandPoints, WebPoints
<1>2. IsPrefix(gets, passed)
  <2>1. <<>> \in Seq(URLs) OBVIOUS
  <2> QED BY <1>1, <2>1 DEF IsPrefix
<1> QED BY <1>1, <1>2, EndsInError

-----------------------------------------------------------------------------
(* Steps of the tools *)

LEMMA NoChildIs == NoChild \in Children /\ NoChild.code = None
<1>1. Silent \in Bytes BY DEF Silent, Bytes
<1>2. /\ NoChild.code = None /\ NoChild.wrote = Silent /\ NoChild.crlf = Silent
  BY DEF NoChild
<1>3. \A s \in Streams : NoChild.crlf[s] <= NoChild.wrote[s]
  BY <1>2 DEF Silent
<1> QED BY <1>1, <1>2, <1>3 DEF NoChild, Children

LEMMA InitIInv == Init => IInv
<1> SUFFICES ASSUME Init PROVE IInv OBVIOUS
<1>1. NoChild \in Children BY NoChildIs
<1>2. Missing \in Files BY ToolsAssumption DEF Missing, Files
<1>3. TypeOK BY <1>1, <1>2, ToolsAssumption DEF Init, TypeOK
<1>4. Called BY DEF Init, Called, WebPoints, FilePoints, CommandPoints
<1>5. Hops BY ToolsAssumption DEF Init, Hops
<1> QED BY <1>3, <1>4, <1>5 DEF Init, IInv, Told

LEMMA ExecuteStep ==
  ASSUME IInv, Execute PROVE IInv'
<1> PICK tool \in DOMAIN Schema : \E args \in ArgumentsOf(tool),
      max \in IF tool \in Commands THEN {None} ELSE Asked,
      u \in IF tool = "web_fetch" THEN URLs ELSE {None} :
        /\ pc' = IF Accepted(tool, args) THEN Entry[tool] ELSE "done"
        /\ result' = IF Accepted(tool, args) THEN None ELSE Error("ArgumentError", None)
        /\ call' = [tool |-> tool, max |-> max, url |-> u]
        /\ next' = u
  BY DEF Execute
<1> PICK args \in ArgumentsOf(tool),
         max \in IF tool \in Commands THEN {None} ELSE Asked,
         u \in IF tool = "web_fetch" THEN URLs ELSE {None} :
        /\ pc' = IF Accepted(tool, args) THEN Entry[tool] ELSE "done"
        /\ result' = IF Accepted(tool, args) THEN None ELSE Error("ArgumentError", None)
        /\ call' = [tool |-> tool, max |-> max, url |-> u]
        /\ next' = u
  OBVIOUS
<1> /\ pc = "idle"
    /\ UNCHANGED <<url, hop, passed, gets, logged, there, disk, child>>
  BY DEF Execute
<1>1. /\ call' \in Calls /\ call'.tool = tool
      /\ tool \notin Commands => call'.max \in Asked
      /\ tool = "web_fetch" => next' \in URLs
      /\ next' \in URLs \cup {None}
  BY DEF Calls
<1>2. /\ pc = "idle" /\ hop = 0 /\ gets = <<>> /\ passed = <<>>
      /\ tool \in {"shell", "python_exec", "file_read", "web_fetch"}
  BY DEF Go, IInv, Hops, WebPoints, Schema
<1>3. /\ pc' \in {"spawn", "path", "url", "done"}
      /\ pc' = "spawn" => tool \in Commands
      /\ pc' = "path" => tool = "file_read"
      /\ pc' = "url" => tool = "web_fetch"
      /\ pc' = "done" => result' = Error("ArgumentError", None)
      /\ result' = None \/ result' = Error("ArgumentError", None)
  BY <1>2 DEF Go, Entry, Commands
<1>4. Error("ArgumentError", None) \in Results /\ Error("ArgumentError", None).error = "ArgumentError"
  BY DEF Error, Results, Tags
<1>5. "ArgumentError" # None
  <2>1. "ArgumentError" \in Tags BY DEF Tags
  <2> QED BY <2>1, NoTagIsNone
<1>6. TypeOK' BY <1>1, <1>3, <1>4 DEF IInv, TypeOK
<1>7. Called' BY <1>1, <1>3 DEF Called, WebPoints, FilePoints, CommandPoints, Commands
<1>8. Hops'
  <2>1. Len(<<>>) = 0 /\ DOMAIN <<>> = {} /\ <<>> \in Seq(URLs) OBVIOUS
  <2>2. IsPrefix(<<>>, <<>>) BY <2>1 DEF IsPrefix
  <2> QED BY <1>1, <1>2, <1>3, <2>1, <2>2, ToolsAssumption DEF Hops, WebPoints
<1>9. Told'
  BY <1>2, <1>3, <1>4, <1>5, <1>8
  DEF Told, Hops, RedirectsAreCounted, NothingCutSilently, CapHolds, ExitIsTheCommands
<1> QED BY <1>6, <1>7, <1>8, <1>9 DEF IInv

\* A step of web_fetch or file_read that goes on.
LEMMA WebGoesOn ==
  ASSUME IInv, GoodURL \/ Get \/ Redirect PROVE IInv'
<1> USE DEF Go, web, WebPoints, FilePoints, CommandPoints
<1>1. Len(gets) \in Nat /\ gets \in Seq(URLs) /\ hop \in Nat /\ MaxRedirects \in Nat
  BY LenProperties, ToolsAssumption DEF IInv, TypeOK
<1>2. CASE GoodURL
  <2>1. Good(next) BY <1>2 DEF GoodURL, IInv, Hops, Good, URLs
  <2>2. TypeOK' BY <1>2 DEF GoodURL, IInv, TypeOK
  <2>3. Called' BY <1>2 DEF GoodURL, IInv, Called
  <2>4. Hops' BY <1>2, <2>1 DEF GoodURL, IInv, Hops
  <2> QED BY <1>2, <2>2, <2>3, <2>4 DEF GoodURL, IInv, Told
<1>3. CASE Get
  <2>1. /\ pc = "get" /\ pc' = "answer" /\ gets' = Append(gets, url) /\ url \in URLs /\ Good(url)
        /\ Len(gets) = hop /\ hop <= MaxRedirects /\ passed = gets'
        /\ UNCHANGED <<call, result, url, next, hop, passed, logged, there, disk, child>>
    BY <1>3 DEF Get, IInv, Hops, Good
  <2>2. /\ gets' \in Seq(URLs) /\ Len(gets') = Len(gets) + 1
        /\ \A i \in 1..Len(gets) : gets'[i] = gets[i]
        /\ gets'[Len(gets) + 1] = url
    BY <1>1, <2>1, AppendProperties
  <2>3. DOMAIN gets = 1..Len(gets) /\ DOMAIN gets' = 1..(Len(gets) + 1)
    BY <1>1, <2>2, LenProperties
  <2>4. \A i \in DOMAIN gets' : Good(gets'[i]) BY <1>1, <2>1, <2>2, <2>3 DEF IInv, Hops
  <2>5. Last(gets') = url BY <2>2 DEF Last
  <2>6. TypeOK' BY <2>1, <2>2 DEF IInv, TypeOK
  <2>7. Called' BY <2>1 DEF IInv, Called
  <2>8. Hops' BY <1>1, <2>1, <2>2, <2>4, <2>5 DEF Hops
  <2> QED BY <2>1, <2>6, <2>7, <2>8 DEF IInv, Told
<1>4. CASE Redirect
  <2>1. /\ pc = "answer" /\ pc' = "url" /\ next' \in URLs /\ hop' = hop + 1 /\ hop <= MaxRedirects
        /\ Len(gets) = hop' /\ passed = gets
        /\ UNCHANGED <<call, result, url, passed, gets, logged, there, disk, child>>
    BY <1>4 DEF Redirect, IInv, Hops
  <2>2. hop' \in 0..(MaxRedirects + 1) BY <1>1, <2>1
  <2>3. TypeOK' BY <2>1, <2>2 DEF IInv, TypeOK
  <2>4. Called' BY <2>1 DEF IInv, Called
  <2>5. Hops' BY <1>1, <2>1 DEF IInv, Hops
  <2> QED BY <2>1, <2>3, <2>4, <2>5 DEF IInv, Told
<1> QED BY <1>2, <1>3, <1>4

LEMMA AllowStep ==
  ASSUME IInv, Allow PROVE IInv'
<1> USE DEF web, WebPoints, FilePoints, CommandPoints
<1>1. /\ pc = "check" /\ passed = gets /\ Len(gets) = hop /\ Good(next) /\ next \in URLs
      /\ gets \in Seq(URLs) /\ hop \in 0..(MaxRedirects + 1) /\ MaxRedirects \in Nat
      /\ call \in Calls /\ call.tool = "web_fetch" /\ next.host \in Hosts
  BY ToolsAssumption DEF Allow, IInv, TypeOK, Hops, Called, Good
<1>2. /\ passed' = Append(gets, next) /\ url' = next
      /\ UNCHANGED <<call, next, hop, gets, there, disk, child>>
      /\ logged' \subseteq Hosts
  BY <1>1 DEF Allow, IInv, TypeOK
<1>3. passed' \in Seq(URLs) BY <1>1, <1>2, AppendProperties
<1>4. IsPrefix(gets, passed') BY <1>1, <1>2, PrefixOfItself
<1>5. Called' BY <1>1, <1>2 DEF Allow, IInv, Called
<1>6. CASE HopsUsed
  <2>1. /\ pc' = "done" /\ result' = Error("TooManyRedirects", next)
        /\ Len(gets) = MaxRedirects + 1
    BY <1>1, <1>6 DEF Allow, HopsUsed
  <2>2. result' \in Results /\ result'.error = "TooManyRedirects" /\ "TooManyRedirects" \in Tags
    BY <1>1, <2>1 DEF Error, Results, Tags
  <2>3. result'.error # None BY <2>2, NoTagIsNone
  <2>4. TypeOK' BY <1>1, <1>2, <1>3, <2>1, <2>2 DEF IInv, TypeOK
  <2>5. Hops' BY <1>2, <1>4, <2>1 DEF IInv, Hops
  <2>6. Told'
    BY <1>2, <2>1, <2>2, <2>3
    DEF IInv, Hops, Told, RedirectsAreCounted, NothingCutSilently, CapHolds, ExitIsTheCommands
  <2> QED BY <1>5, <2>4, <2>5, <2>6 DEF IInv
<1>7. CASE ~HopsUsed
  <2>1. pc' = "get" /\ result' = None /\ hop <= MaxRedirects BY <1>1, <1>7 DEF Allow, HopsUsed
  <2>2. TypeOK' BY <1>1, <1>2, <1>3, <2>1 DEF IInv, TypeOK
  <2>3. Hops' BY <1>1, <1>2, <2>1 DEF IInv, Hops
  <2> QED BY <1>5, <2>1, <2>2, <2>3 DEF IInv, Told
<1> QED BY <1>6, <1>7

\* web_fetch ends with an error, or with a page.
LEMMA WebEnds ==
  ASSUME IInv, BadURL \/ Refuse \/ Deliver \/ FetchFails PROVE IInv'
<1>1. /\ pc \in {"url", "check", "answer"} /\ child' = child /\ passed = gets
      /\ gets \in Seq(URLs) /\ child \in Children
      /\ url \in URLs \cup {None} /\ next \in URLs \cup {None}
      /\ call \in Calls /\ call.tool = "web_fetch" /\ call.max \in Asked
      /\ pc = "answer" => url = Last(gets)
  BY DEF BadURL, Refuse, Deliver, FetchFails, Finish, Go, IInv, TypeOK, Hops, Called, WebPoints
<1>2. IsPrefix(gets, passed)
  <2>1. gets \in Seq(URLs) /\ Len(gets) \in Nat BY <1>1, LenProperties
  <2> QED BY <1>1, <2>1 DEF IsPrefix
<1>3. CASE BadURL
  <2> DEFINE r == CASE Malformed -> Error("InvalidURL", IF hop = 0 THEN next ELSE url)
                    [] next.scheme = "other" -> Error("SchemeNotAllowed", next)
                    [] OTHER -> Error("MissingHost", next)
  <2>1. r \in Results /\ r.error \in {"InvalidURL", "SchemeNotAllowed", "MissingHost"}
    BY <1>1 DEF Error, Results, Tags
  <2>2. r.error \in Tags BY <2>1 DEF Tags
  <2>3. Finish("url", r, 0) BY <1>3 DEF BadURL
  <2> HIDE DEF r
  <2> QED BY <1>1, <1>2, <2>1, <2>2, <2>3, EndsInError
<1>4. CASE Refuse
  <2>1. PICK tag \in {"SSRFBlocked", "DNSFailure", "UnicodeError"}, u \in {next, url} :
          Finish("check", Error(tag, u), 0)
    BY <1>4 DEF Refuse
  <2>2. Error(tag, u) \in Results /\ Error(tag, u).error = tag
    BY <1>1 DEF Error, Results, Tags
  <2>3. tag \in Tags BY DEF Tags
  <2> QED BY <1>1, <1>2, <2>1, <2>2, <2>3, EndsInError
<1>5. CASE FetchFails
  <2>1. PICK tag \in {"Timeout", "HTTPXError"} : Finish("answer", Error(tag, url), 0)
    BY <1>5 DEF FetchFails
  <2>2. Error(tag, url) \in Results /\ Error(tag, url).error = tag /\ Error(tag, url).url = url
    BY <1>1 DEF Error, Results, Tags
  <2>3. tag \in Tags /\ tag # "TooManyRedirects" BY DEF Tags
  <2>4. pc = "answer" BY <2>1 DEF Finish, Go
  <2> QED BY <1>1, <1>2, <2>1, <2>2, <2>3, <2>4, EndsInError
<1>6. CASE Deliver
  <2>1. pc = "answer" BY <1>6 DEF Deliver, Finish, Go
  <2>2. CASE \E tag \in {"BinaryContent", "HTTPError"} : Finish("answer", Error(tag, url), 0)
    <3>1. PICK tag \in {"BinaryContent", "HTTPError"} : Finish("answer", Error(tag, url), 0)
      BY <2>2
    <3>2. Error(tag, url) \in Results /\ Error(tag, url).error = tag /\ Error(tag, url).url = url
      BY <1>1 DEF Error, Results, Tags
    <3>3. tag \in Tags /\ tag # "TooManyRedirects" BY DEF Tags
    <3> QED BY <1>1, <1>2, <2>1, <3>1, <3>2, <3>3, EndsInError
  <2>3. CASE \E size \in Sizes :
               Finish("answer", Page(url, Shown(size, Cap(call.max)), size > Cap(call.max)), size)
    <3>1. PICK size \in Sizes :
            Finish("answer", Page(url, Shown(size, Cap(call.max)), size > Cap(call.max)), size)
      BY <2>3
    <3> DEFINE cap == Cap(call.max)
               cut == size > cap
               shown == Shown(size, cap)
    <3>2. size \in Nat /\ call.max \in Int /\ MaxBytes \in Nat BY <1>1, ToolsAssumption
    <3>3. cap \in Int /\ cap <= call.max /\ cap <= MaxBytes /\ (call.max >= 0 => cap >= 0)
      BY <3>2, CapBounds
    <3>4. Finish("answer", Page(url, shown, cut), size) BY <3>1
    <3> HIDE DEF cap
    <3>5. cut \in BOOLEAN OBVIOUS
    <3>6. /\ shown \in Nat /\ (cap >= 0 => shown <= cap)
          /\ size <= cap => shown = size
      BY <3>2, <3>3, ShownBounds
    <3>7. shown < size => cut BY <3>2, <3>3, <3>6
    <3>8. call.max >= 0 => shown <= call.max /\ shown <= MaxBytes BY <3>2, <3>3, <3>6
    <3>9. call.tool \notin Commands BY <1>1 DEF Commands
    <3> HIDE DEF cut, shown
    <3> QED BY <1>1, <1>2, <2>1, <3>2, <3>4, <3>5, <3>6, <3>7, <3>8, <3>9, EndsWithPage
  <2> QED BY <1>6, <2>2, <2>3 DEF Deliver
<1> QED BY <1>3, <1>4, <1>5, <1>6

\* The same of a point of file_read.
LEMMA FileStep ==
  ASSUME IInv, Resolve \/ Exists \/ IsFile \/ Probe \/ OpenPipe \/ Feed \/ Rewrite, pc' # "done"
  PROVE  IInv'
<1> USE DEF Resolve, Exists, IsFile, Probe, OpenPipe, Feed, Read, Rewrite, Finish, Go, web
<1>1. /\ pc \in FilePoints /\ pc' \in FilePoints /\ disk' \in Files
      /\ UNCHANGED <<call, result, url, next, hop, passed, gets, logged, there, child>>
  BY DEF FilePoints, IInv, TypeOK
<1>2. TypeOK' BY <1>1 DEF IInv, TypeOK, FilePoints
<1>3. Called' BY <1>1 DEF IInv, Called, WebPoints, FilePoints, CommandPoints
<1>4. Hops' BY <1>1 DEF IInv, Hops, WebPoints, FilePoints
<1> QED BY <1>1, <1>2, <1>3, <1>4 DEF IInv, Told, FilePoints

LEMMA FileErrors ==
  ASSUME IInv, Resolve \/ Exists \/ IsFile \/ Probe \/ CannotOpen, pc' = "done" PROVE IInv'
<1>1. child' = child /\ child \in Children
  BY DEF Resolve, Exists, IsFile, Probe, CannotOpen, IInv, TypeOK
<1>2. /\ \E from \in FilePoints, tag \in {"PathNotAllowed", "ValueError", "FileNotFound",
             "PermissionError", "NotRegularFile", "BinaryRefused", "FileNotFoundError",
             "IsADirectoryError", "OSError", "PermissionDenied"} : Finish(from, Error(tag, None), 0)
  <2>1. CASE CannotOpen
    <3>1. PICK from \in {"probe", "read"} : Finish(from, Error(OpenError[disk.kind], None), 0)
      BY <2>1 DEF CannotOpen
    <3>2. disk.kind \in {"none", "hidden", "directory", "socket", "denied"}
      BY <2>1 DEF CannotOpen, IInv, TypeOK, Files
    <3>3. OpenError[disk.kind] \in {"FileNotFoundError", "IsADirectoryError", "OSError", "PermissionDenied"}
      BY <3>2 DEF OpenError
    <3> QED BY <3>1, <3>3 DEF FilePoints
  <2>2. CASE Resolve BY <2>2 DEF Resolve, FilePoints, Go
  <2>3. CASE Exists BY <2>3 DEF Exists, FilePoints, Go
  <2>4. CASE IsFile BY <2>4 DEF IsFile, FilePoints, Go
  <2>5. CASE Probe BY <2>5 DEF Probe, FilePoints, Go
  <2> QED BY <2>1, <2>2, <2>3, <2>4, <2>5
<1>3. PICK from \in FilePoints, tag \in {"PathNotAllowed", "ValueError", "FileNotFound",
             "PermissionError", "NotRegularFile", "BinaryRefused", "FileNotFoundError",
             "IsADirectoryError", "OSError", "PermissionDenied"} : Finish(from, Error(tag, None), 0)
  BY <1>2
<1>4. tag \in Tags \ {"TooManyRedirects"} BY DEF Tags
<1>5. Error(tag, None) \in Results /\ Error(tag, None).error = tag BY <1>4 DEF Error, Results
<1> QED BY <1>1, <1>3, <1>4, <1>5, EndsEarly

LEMMA ReadStep ==
  ASSUME IInv, NEW from \in {"read", "reading"}, NEW size \in Nat, Read(from, size), child' = child
  PROVE  IInv'
<1> DEFINE cap == Cap(call.max)
           raw == ReadMore(size, cap)
           cut == raw > cap
           shown == Shown(raw, cap)
<1>1. /\ pc = from /\ child \in Children /\ gets = <<>> /\ passed = <<>>
      /\ call.tool = "file_read" /\ call.max \in Int
  BY ToolsAssumption
  DEF Read, Finish, Go, IInv, TypeOK, Called, Hops, FilePoints, WebPoints
<1>2. cap \in Int /\ cap <= call.max /\ cap <= MaxBytes /\ (call.max >= 0 => cap >= 0)
  BY <1>1, CapBounds
<1>3. MaxBytes \in Nat /\ from \in FilePoints BY ToolsAssumption DEF FilePoints
<1>4. ASSUME NEW tag \in {"OverflowError", "ValueError"}, Finish(from, Error(tag, None), 0) \/ Finish(from, Error(tag, None), size)
      PROVE  IInv'
  <2>1. PICK bytes \in {0, size} : Finish(from, Error(tag, None), bytes) BY <1>4
  <2>2. tag \in Tags /\ tag # "TooManyRedirects" BY DEF Tags
  <2>3. Error(tag, None) \in Results /\ Error(tag, None).error = tag BY <2>2 DEF Error, Results
  <2> QED BY <1>1, <1>3, <2>1, <2>2, <2>3, EndsEarly
<1>5. CASE cap >= -2 /\ Finish(from, Page(None, shown, cut), size)
  <2>1. Finish(from, Page(None, shown, cut), size) BY <1>5
  <2> HIDE DEF cap
  <2>2. /\ raw \in Nat /\ raw <= size /\ (raw <= cap => raw = size)
    BY <1>2, <1>5, ReadBounds
  <2> HIDE DEF raw
  <2>3. /\ shown \in Nat /\ (cap >= 0 => shown <= cap)
        /\ raw <= cap => shown = raw
    BY <1>2, <2>2, ShownBounds
  <2>4. cut \in BOOLEAN OBVIOUS
  <2>5. shown < size => cut BY <1>2, <2>2, <2>3
  <2>6. call.max >= 0 => shown <= call.max /\ shown <= MaxBytes BY <1>1, <1>2, <1>3, <2>3
  <2>7. call.tool \notin Commands BY <1>1 DEF Commands
  <2>8. IsPrefix(gets, passed)
    <3>1. <<>> \in Seq(URLs) OBVIOUS
    <3> QED BY <1>1, <3>1 DEF IsPrefix
  <2> HIDE DEF cut, shown
  <2> QED BY <1>1, <2>1, <2>3, <2>4, <2>5, <2>6, <2>7, <2>8, EndsWithPage
<1>6. Ssize \in Nat BY ToolsAssumption
<1>7. CASE cap + 1 < -Ssize
  <2>1. Finish(from, Error("OverflowError", None), size) BY <1>7 DEF Read
  <2> QED BY <2>1, <1>4
<1>8. CASE cap + 1 >= -Ssize /\ cap < -2
  <2>1. ~(cap + 1 < -Ssize) BY <1>2, <1>6, <1>8
  <2>2. Finish(from, Error("ValueError", None), size) BY <1>8, <2>1 DEF Read
  <2> QED BY <2>2, <1>4
<1>9. CASE ~(cap + 1 < -Ssize) /\ cap >= -2
  <2>1. ~(cap < -2) BY <1>2, <1>9
  <2>2. Finish(from, Page(None, shown, cut), size) BY <1>9, <2>1 DEF Read
  <2> QED BY <1>5, <1>9, <2>2
<1> QED BY <1>2, <1>6, <1>7, <1>8, <1>9

LEMMA ReadEnds ==
  ASSUME IInv, ReadFile \/ (Feed /\ pc' = "done") PROVE IInv'
<1>1. child' = child /\ child \in Children BY DEF ReadFile, Feed, IInv, TypeOK
<1>2. CASE ReadFile
  <2>1. Read("read", disk.size) /\ disk.size \in Nat
    BY <1>2, ToolsAssumption DEF ReadFile, IInv, TypeOK, Files
  <2> QED BY <1>1, <2>1, ReadStep
<1>3. CASE Finish("probing", Error("BinaryRefused", None), 0)
  <2>1. "BinaryRefused" \in Tags /\ "BinaryRefused" # "TooManyRedirects" BY DEF Tags
  <2>2. Error("BinaryRefused", None) \in Results
        /\ Error("BinaryRefused", None).error = "BinaryRefused"
    BY <2>1 DEF Error, Results
  <2> QED BY <1>1, <1>3, <2>1, <2>2, EndsEarly DEF FilePoints
<1>4. CASE \E size \in Sizes : Read("reading", size)
  <2>1. PICK size \in Sizes : Read("reading", size) BY <1>4
  <2>2. size \in Nat BY ToolsAssumption
  <2> QED BY <1>1, <2>1, <2>2, ReadStep
<1> QED BY <1>2, <1>3, <1>4 DEF Feed, Go

\* What the command does, and what is read of it.
LEMMA CommandStep ==
  ASSUME IInv, Spawn \/ Say \/ LeaveBehind \/ CloseOutput \/ LetGo \/ Exit \/ ReadPipe PROVE IInv'
<1>1. child \in Children /\ child.wrote \in Bytes /\ child.crlf \in Bytes /\ child.read \in Bytes
  BY DEF IInv, TypeOK, Children
<1>2. /\ pc \in CommandPoints /\ pc' = "run"
      /\ UNCHANGED <<call, result, url, next, hop, passed, gets, logged, there, disk>>
  BY DEF Spawn, Say, LeaveBehind, CloseOutput, LetGo, Exit, ReadPipe, Command, Go, web, CommandPoints
<1>3. child' \in Children
  <2>1. CASE Spawn
    <3>1. NoChild \in Children BY NoChildIs
    <3> QED BY <2>1, <3>1 DEF Spawn, Children
  <2>2. CASE Say
    <3>1. PICK s \in Streams, size \in Sizes, utf8 \in BOOLEAN :
            \E ends \in child.crlf[s] .. size \div 2 :
              Command([child EXCEPT !.wrote[s] = size, !.crlf[s] = ends, !.text = @ /\ utf8])
      BY <2>2, Zenon DEF Say
    <3> PICK ends \in child.crlf[s] .. size \div 2 :
            Command([child EXCEPT !.wrote[s] = size, !.crlf[s] = ends, !.text = @ /\ utf8])
      BY <3>1
    <3>2. child' = [child EXCEPT !.wrote[s] = size, !.crlf[s] = ends, !.text = @ /\ utf8]
      BY DEF Command
    <3> DEFINE wrote == [child.wrote EXCEPT ![s] = size]
               crlf == [child.crlf EXCEPT ![s] = ends]
    <3>3. size \in Nat /\ child.crlf[s] \in Nat BY <1>1, ToolsAssumption DEF Bytes, Children
    <3>4. ends \in Nat /\ ends <= size BY <3>3
    <3>5. wrote \in Bytes /\ crlf \in Bytes BY <1>1, <3>3, <3>4 DEF Bytes
    <3>6. \A t \in Streams : crlf[t] <= wrote[t] BY <1>1, <3>4 DEF Bytes, Children
    <3>7. (child.text /\ utf8) \in BOOLEAN OBVIOUS
    <3>8. child' = [child EXCEPT !.wrote = wrote, !.crlf = crlf, !.text = child.text /\ utf8]
      BY <1>1, <3>2 DEF Children
    <3> HIDE DEF wrote, crlf
    <3> QED BY <1>1, <3>5, <3>6, <3>7, <3>8 DEF Children
  <2>3. CASE LeaveBehind BY <1>1, <2>3 DEF LeaveBehind, Command, Children
  <2>4. CASE CloseOutput BY <1>1, <2>4 DEF CloseOutput, Command, Children
  <2>5. CASE LetGo BY <1>1, <2>5 DEF LetGo, Command, Children
  <2>6. CASE Exit BY <1>1, <2>6 DEF Exit, Command, Children
  <2>7. CASE ReadPipe
    <3>1. PICK s \in Streams : child' = [child EXCEPT !.read[s] = child.wrote[s]]
      BY <2>7 DEF ReadPipe, Command
    <3>2. [child.read EXCEPT ![s] = child.wrote[s]] \in Bytes BY <1>1 DEF Bytes
    <3>3. child' = [child EXCEPT !.read = [child.read EXCEPT ![s] = child.wrote[s]]]
      BY <1>1, <3>1 DEF Children
    <3> QED BY <1>1, <3>2, <3>3 DEF Children
  <2> QED BY <2>1, <2>2, <2>3, <2>4, <2>5, <2>6, <2>7
<1>4. TypeOK' BY <1>2, <1>3 DEF IInv, TypeOK
<1>5. Called'
  <2>1. child'.code # Killed
    <3>1. CASE Spawn
      <4>1. child'.code = None BY <3>1, NoChildIs DEF Spawn, Children
      <4> QED BY <4>1, ToolsAssumption DEF Killed
    <3>2. CASE Exit
      <4>1. PICK code \in {0, 1, -1} : child' = [child EXCEPT !.code = code, !.own = FALSE]
        BY <3>2 DEF Exit, Command
      <4> QED BY <1>1, <4>1 DEF Children, Killed
    <3>3. CASE Say \/ LeaveBehind \/ CloseOutput \/ LetGo \/ ReadPipe
      <4>1. child'.code = child.code /\ pc = "run"
        BY <1>1, <3>3 DEF Say, LeaveBehind, CloseOutput, LetGo, ReadPipe, Command, Children
      <4> QED BY <4>1 DEF IInv, Called
    <3> QED BY <3>1, <3>2, <3>3
  <2> QED BY <1>2, <2>1 DEF IInv, Called, WebPoints, FilePoints, CommandPoints
<1>6. Hops' BY <1>2 DEF IInv, Hops, WebPoints, CommandPoints
<1> QED BY <1>2, <1>4, <1>5, <1>6 DEF IInv, Told

\* What shell and python_exec report of an end that is an error.
LEMMA CommandErrors ==
  ASSUME NEW tag \in Tags, NEW code \in {None, -1}
  PROVE  /\ [Error(tag, None) EXCEPT !.code = code] \in Results
         /\ [Error(tag, None) EXCEPT !.code = code].error = tag
  BY DEF Error, Results

LEMMA OutputsAreResults ==
  ASSUME NEW tag \in Tags \cup {None}, NEW code \in {None, 0, 1, -1}, NEW f \in Bytes
  PROVE  /\ Output(tag, code, f) \in Results
         /\ Output(tag, code, f).error = tag /\ Output(tag, code, f).code = code
         /\ Output(tag, code, f).shown = Total(Clipped(f))
         /\ Clipped(f) # f => Output(tag, code, f).truncated
<1> DEFINE cut == Clipped(f) # f
           shown == Total(Clipped(f))
<1>1. cut \in BOOLEAN OBVIOUS
<1>2. shown \in Nat BY OutputBounds
<1>3. Output(tag, code, f) =
        [error |-> tag, code |-> code, shown |-> shown, truncated |-> cut, url |-> None]
  BY DEF Output
<1> HIDE DEF cut, shown
<1>4. Output(tag, code, f) \in Results BY <1>1, <1>2, <1>3 DEF Results
<1>5. /\ Output(tag, code, f).error = tag /\ Output(tag, code, f).code = code
      /\ Output(tag, code, f).shown = shown
  BY <1>3
<1>6. Output(tag, code, f).truncated = cut BY <1>3
<1>7. cut => Output(tag, code, f).truncated BY <1>6, Zenon
<1> QED BY <1>4, <1>5, <1>7 DEF cut, shown

LEMMA CommandEnds ==
  ASSUME IInv, CannotSpawn \/ Collect \/ Deadline PROVE IInv'
<1>1. /\ pc \in CommandPoints /\ child \in Children /\ child.wrote \in Bytes
      /\ child.read \in Bytes /\ Text(child) \in Bytes /\ call \in Calls /\ call.tool \in Commands /\ gets = <<>> /\ passed = <<>>
  <2>1. pc \in CommandPoints BY DEF CannotSpawn, Collect, Deadline, Finish, Go, CommandPoints
  <2>2. /\ child \in Children /\ call \in Calls /\ call.tool \in Commands
        /\ gets = <<>> /\ passed = <<>>
    BY <2>1 DEF IInv, TypeOK, Called, Hops, CommandPoints, WebPoints
  <2>3. /\ child.wrote \in Bytes /\ child.crlf \in Bytes /\ child.read \in Bytes
        /\ \A s \in Streams : child.crlf[s] <= child.wrote[s]
    BY <2>2 DEF Children
  <2>4. Text(child) \in Bytes BY <2>3 DEF Text, Bytes
  <2> QED BY <2>1, <2>2, <2>3, <2>4
<1>2. Total(child.wrote) \in Nat /\ Total(Text(child)) \in Nat BY <1>1, OutputBounds
<1>3. IsPrefix(gets, passed)
  <2>1. <<>> \in Seq(URLs) OBVIOUS
  <2> QED BY <1>1, <2>1 DEF IsPrefix
<1>4. CASE CannotSpawn
  <2> SUFFICES ASSUME ~Finish("spawn", Error("OverflowError", None), 0) PROVE IInv'
    <3>1. "OverflowError" \in Tags /\ "OverflowError" # "TooManyRedirects" BY DEF Tags
    <3>2. /\ Error("OverflowError", None) \in Results
          /\ Error("OverflowError", None).error = "OverflowError"
      BY <3>1 DEF Error, Results
    <3>3. child' \in Children /\ "spawn" \in CommandPoints /\ 0 \in Nat
      BY <1>1, <1>4 DEF CannotSpawn, CommandPoints
    <3>4. Finish("spawn", Error("OverflowError", None), 0) => IInv'
      BY <3>1, <3>2, <3>3, EndsEarly
    <3> QED BY <3>4
  <2>1. PICK tag \in {"OSError", "ValueError"}, code \in {None, -1} :
          Finish("spawn", [Error(tag, None) EXCEPT !.code = code], 0) /\ child' = child
    BY <1>4 DEF CannotSpawn
  <2> DEFINE r == [Error(tag, None) EXCEPT !.code = code]
  <2>2. tag \in Tags BY DEF Tags
  <2>3. r \in Results /\ r.error = tag BY <2>2, CommandErrors
  <2>4. "spawn" \in CommandPoints /\ tag # "TooManyRedirects" BY DEF CommandPoints
  <2>5. Finish("spawn", r, 0) /\ child' \in Children BY <1>1, <2>1
  <2> HIDE DEF r
  <2> QED BY <2>2, <2>3, <2>4, <2>5, EndsEarly
<1>5. CASE Deadline
  <2>1. PICK partial \in Replaced(child.read) \cup {Silent} :
          Finish("run", IF call.tool = "shell"
                        THEN Output("Timeout", -1, [partial EXCEPT !["err"] = @ + Notice])
                        ELSE [Error("Timeout", None) EXCEPT !.code = -1],
                 Total(child.wrote))
    BY <1>5 DEF Deadline
  <2> DEFINE f == [partial EXCEPT !["err"] = @ + Notice]
             r == IF call.tool = "shell" THEN Output("Timeout", -1, f)
                  ELSE [Error("Timeout", None) EXCEPT !.code = -1]
  <2>2. "Timeout" \in Tags /\ "Timeout" # "TooManyRedirects" /\ "run" \in CommandPoints
    BY DEF Tags, CommandPoints
  <2>3. f \in Bytes
    <3>1. partial \in Bytes
      <4>1. Silent \in Bytes BY DEF Silent, Bytes
      <4>2. ASSUME NEW bytes \in [Streams -> {1, 3}]
            PROVE  [s \in Streams |-> child.read[s] * bytes[s]] \in Bytes
        <5>1. \A s \in Streams : child.read[s] \in Nat /\ (bytes[s] = 1 \/ bytes[s] = 3)
          BY <1>1 DEF Bytes
        <5>2. \A n \in Nat : n * 1 \in Nat /\ n * 3 \in Nat
          OBVIOUS
        <5>3. \A s \in Streams : child.read[s] * bytes[s] \in Nat BY <5>1, <5>2
        <5> QED BY <5>3 DEF Bytes
      <4> QED BY <2>1, <4>1, <4>2 DEF Replaced
    <3> QED BY <3>1 DEF Bytes, Streams, Notice
  <2>4. /\ Output("Timeout", -1, f) \in Results /\ Output("Timeout", -1, f).error = "Timeout"
    BY <2>2, <2>3, OutputsAreResults
  <2>5. r \in Results /\ r.error = "Timeout" BY <2>2, <2>4, CommandErrors
  <2>6. child' \in Children
    BY <1>1, <1>5 DEF Deadline, Children, Killed
  <2>7. Finish("run", r, Total(child.wrote)) BY <2>1
  <2> HIDE DEF r
  <2> QED BY <1>2, <2>2, <2>5, <2>6, <2>7, EndsEarly
<1>6. CASE Collect /\ ~child.text
  <2>1. PICK code \in {None, -1} :
          Finish("run", [Error("UnicodeDecodeError", None) EXCEPT !.code = code],
                 Total(Text(child)))
    BY <1>6 DEF Collect
  <2> DEFINE r == [Error("UnicodeDecodeError", None) EXCEPT !.code = code]
  <2>2. /\ "UnicodeDecodeError" \in Tags /\ "UnicodeDecodeError" # "TooManyRedirects"
        /\ "run" \in CommandPoints
    BY DEF Tags, CommandPoints
  <2>3. r \in Results /\ r.error = "UnicodeDecodeError" BY <2>2, CommandErrors
  <2>4. Finish("run", r, Total(Text(child))) /\ child' \in Children BY <1>1, <1>6, <2>1 DEF Collect
  <2> HIDE DEF r
  <2> QED BY <1>2, <2>2, <2>3, <2>4, EndsEarly
<1>7. CASE Collect /\ child.text
  <2> DEFINE r == Output(None, child.code, Text(child))
  <2>1. /\ Finish("run", r, Total(Text(child))) /\ child' = child /\ Eof /\ pc = "run"
    BY <1>7 DEF Collect, Finish, Go
  <2>2. child.code \in {None, 0, 1, -1}
    <3>1. child.code \in {None, 0, 1, -1, Killed} BY <1>1 DEF Children
    <3> QED BY <2>1, <3>1 DEF IInv, Called
  <2>3. /\ r \in Results /\ r.error = None /\ r.code = child.code
        /\ r.shown = Total(Clipped(Text(child)))
        /\ Clipped(Text(child)) # Text(child) => r.truncated
    BY <1>1, <2>2, OutputsAreResults
  <2> HIDE DEF r
  <2>4. result' = r /\ there' = Total(Text(child)) /\ call' = call /\ gets' = gets
    BY <2>1 DEF Finish, web
  <2>5. Text(child') = Text(child) /\ ~child.own /\ ~child.held BY <2>1 DEF Eof
  <2>6. RedirectsAreCounted'
    <3>1. None # "TooManyRedirects"
      <4>1. "TooManyRedirects" \in Tags BY DEF Tags
      <4> QED BY <4>1, NoTagIsNone
    <3>2. Len(gets) <= MaxRedirects + 1 BY DEF IInv, Hops
    <3> QED BY <1>1, <2>3, <2>4, <3>1, <3>2 DEF RedirectsAreCounted
  <2>7. NothingCutSilently'
    <3>1. Total(Clipped(Text(child))) < Total(Text(child)) => Clipped(Text(child)) # Text(child)
      BY <1>1, OutputBounds
    <3> QED BY <2>3, <2>4, <2>5, <3>1 DEF NothingCutSilently
  <2>8. CapHolds' BY <1>1, <2>4 DEF CapHolds
  <2>9. ExitIsTheCommands' BY <2>1, <2>3, <2>4, <2>5 DEF ExitIsTheCommands
  <2> QED BY <1>1, <1>2, <1>3, <2>1, <2>3, <2>6, <2>7, <2>8, <2>9, CallEnds
<1> QED BY <1>4, <1>5, <1>6, <1>7

LEMMA UnknownToolStep ==
  ASSUME IInv, UnknownTool PROVE IInv'
<1>1. "UnknownTool" \in Tags /\ "UnknownTool" # "TooManyRedirects" /\ 0 \in Nat BY DEF Tags
<1>2. Error("UnknownTool", None) \in Results /\ Error("UnknownTool", None).error = "UnknownTool"
  BY <1>1 DEF Error, Results
<1>3. Finish("idle", Error("UnknownTool", None), 0) /\ child' \in Children
  BY DEF UnknownTool, IInv, TypeOK
<1> QED BY <1>1, <1>2, <1>3, EndsEarly

LEMMA NoObjectStep ==
  ASSUME IInv, NoObject PROVE IInv'
<1>1. CASE Finish("idle", Error("ArgumentError", None), 0) /\ UNCHANGED child
  <2>1. "ArgumentError" \in Tags /\ "ArgumentError" # "TooManyRedirects" /\ 0 \in Nat BY DEF Tags
  <2>2. /\ Error("ArgumentError", None) \in Results
        /\ Error("ArgumentError", None).error = "ArgumentError"
    BY <2>1 DEF Error, Results
  <2>3. Finish("idle", Error("ArgumentError", None), 0) /\ child' \in Children
    BY <1>1 DEF IInv, TypeOK
  <2> QED BY <2>1, <2>2, <2>3, EndsEarly
<1>2. CASE Go("idle", "raised") /\ UNCHANGED <<call, result, web, there, disk, child>>
  <2> USE <1>2 DEF Go, web
  <2>1. TypeOK' BY DEF IInv, TypeOK
  <2>2. Called' BY DEF IInv, Called, WebPoints, FilePoints, CommandPoints
  <2>3. Hops' BY DEF IInv, Hops, WebPoints
  <2>4. Told' BY DEF Told
  <2> QED BY <2>1, <2>2, <2>3, <2>4 DEF IInv
<1> QED BY <1>1, <1>2 DEF NoObject

LEMMA StutterStep ==
  ASSUME IInv, UNCHANGED vars PROVE IInv'
<1> USE DEF vars, web
<1>1. TypeOK' BY DEF IInv, TypeOK
<1>2. Called' BY DEF IInv, Called
<1>3. Hops' BY DEF IInv, Hops
<1>4. Told'
  BY DEF IInv, Told, RedirectsAreCounted, NothingCutSilently, CapHolds, ExitIsTheCommands
<1> QED BY <1>1, <1>2, <1>3, <1>4 DEF IInv

LEMMA NextIInv == IInv /\ [Next]_vars => IInv'
<1> SUFFICES ASSUME IInv, [Next]_vars PROVE IInv' OBVIOUS
<1>1. CASE Execute BY <1>1, ExecuteStep
<1>2. CASE UnknownTool \/ NoObject BY <1>2, UnknownToolStep, NoObjectStep
<1>3. CASE GoodURL \/ Get \/ Redirect BY <1>3, WebGoesOn
<1>4. CASE Allow BY <1>4, AllowStep
<1>5. CASE BadURL \/ Refuse \/ Deliver \/ FetchFails BY <1>5, WebEnds
<1>6. CASE Resolve \/ Exists \/ IsFile \/ Probe \/ CannotOpen \/ OpenPipe \/ Rewrite
  <2>1. CannotOpen => pc' = "done" BY DEF CannotOpen, Finish, Go
  <2>2. OpenPipe \/ Rewrite => pc' # "done" BY DEF OpenPipe, Go, Rewrite
  <2> QED BY <1>6, <2>1, <2>2, FileStep, FileErrors
<1>7. CASE ReadFile \/ Feed BY <1>7, FileStep, ReadEnds
<1>8. CASE Spawn \/ Say \/ LeaveBehind \/ CloseOutput \/ LetGo \/ Exit \/ ReadPipe
  BY <1>8, CommandStep
<1>9. CASE CannotSpawn \/ Collect \/ Deadline BY <1>9, CommandEnds
<1>10. CASE UNCHANGED vars BY <1>10, StutterStep
<1> QED BY <1>1, <1>2, <1>3, <1>4, <1>5, <1>6, <1>7, <1>8, <1>9, <1>10 DEF Next, Proceed

LEMMA AlwaysIInv == Spec => []IInv
<1> QED BY InitIInv, NextIInv, PTL DEF Spec

-----------------------------------------------------------------------------
(* Theorems *)

\* The variables keep their types, for any hosts, limits and sizes.
THEOREM ToolTypes == Spec => []TypeOK
<1>1. IInv => TypeOK BY DEF IInv
<1> QED BY <1>1, AlwaysIInv, PTL

\* Every request of web_fetch goes to a URL that was checked for it, after any
\* number of redirects.
THEOREM RequestsAreChecked == Spec => []EveryHopIsChecked
<1>1. IInv => EveryHopIsChecked
  <2> SUFFICES ASSUME IInv PROVE EveryHopIsChecked OBVIOUS
  <2>1. \A i \in DOMAIN gets : gets[i].scheme = "http" /\ gets[i].host \in Hosts
    BY DEF IInv, Hops, Good
  <2>2. gets \in Seq(URLs) BY DEF IInv, TypeOK
  <2>3. pc = "get" => url \in URLs BY DEF IInv, Hops, Good
  <2>4. IsPrefix(gets, gets) /\ \A u \in URLs : IsPrefix(gets, Append(gets, u))
    <3>1. \A u \in URLs : IsPrefix(gets, gets) /\ IsPrefix(gets, Append(gets, u))
      BY <2>2, PrefixOfItself
    <3>2. Len(gets) \in Nat BY <2>2, LenProperties
    <3> QED BY <3>1, <3>2, <2>2 DEF IsPrefix
  <2>5. pc \in {"idle"} \cup WebPoints \cup FilePoints \cup CommandPoints \cup {"done", "raised"}
    BY DEF IInv, TypeOK, WebPoints, FilePoints, CommandPoints
  <2>6. pc = "done" \/ passed = gets \/ (pc = "get" /\ passed = Append(gets, url))
    BY <2>5 DEF IInv, Hops, WebPoints
  <2>7. pc = "done" => IsPrefix(gets, passed) BY DEF IInv, Hops
  <2>8. IsPrefix(gets, passed) BY <2>3, <2>4, <2>6, <2>7
  <2> QED BY <2>1, <2>8 DEF EveryHopIsChecked
<1> QED BY <1>1, AlwaysIInv, PTL

\* MaxRedirects redirects are followed and no more, whatever servers answer.
THEOREM RedirectsEndInTime == Spec => []RedirectsAreCounted
<1>1. IInv => RedirectsAreCounted
  <2> SUFFICES ASSUME IInv PROVE RedirectsAreCounted OBVIOUS
  <2>1. CASE pc = "done" BY <2>1 DEF IInv, Told
  <2>2. CASE pc # "done" BY <2>2 DEF IInv, Hops, RedirectsAreCounted
  <2> QED BY <2>1, <2>2
<1> QED BY <1>1, AlwaysIInv, PTL

\* No result hides that something was cut off, for every max_bytes.
THEOREM CutsAreTold == Spec => []NothingCutSilently
<1>1. IInv => NothingCutSilently BY DEF IInv, Told, NothingCutSilently
<1> QED BY <1>1, AlwaysIInv, PTL

\* No page or file is longer than its cap, for every max_bytes that is not
\* negative.
THEOREM CapsAreKept == Spec => []CapHolds
<1>1. IInv => CapHolds BY DEF IInv, Told, CapHolds
<1> QED BY <1>1, AlwaysIInv, PTL

\* An exit code without an error comes with the whole output, whatever is left
\* in the background.
THEOREM ExitCodesAreTrue == Spec => []ExitIsTheCommands
<1>1. IInv => ExitIsTheCommands BY DEF IInv, Told, ExitIsTheCommands
<1> QED BY <1>1, AlwaysIInv, PTL
=============================================================================
