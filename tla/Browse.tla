------------------------------- MODULE Browse -------------------------------
(***************************************************************************)
(* A client finds its way through the served directory: it follows the     *)
(* links of listings (file_list_to_html, http.c:373), is redirected when   *)
(* it leaves out a directory's last slash, and the server finds the file   *)
(* for each path requested (make_http_response, http.c:488).               *)
(*                                                                         *)
(* Each directory has an entry of every name, which is a file or again     *)
(* such a directory.  The client resolves "." and ".." itself, so that no  *)
(* request has them, and it sends what the links and redirects say.        *)
(***************************************************************************)
EXTENDS UrlPaths

CONSTANTS Names,      \* the names that files and directories have
          ServePaths, \* what conf.serve_path may be
          Index,      \* conf.index
          MaxDepth,   \* how far down the client goes
          MaxSlashes  \* how many slashes too many it writes

Plain(name) == \A i \in DOMAIN name : ~needs_encoding(name[i])

Bytes == 0 .. 255

(* A name is what a directory may hold, other than "." and "..", which the *)
(* client resolves.  A doubled slash in serve_path is a hazard of its own: *)
(* see Gap.                                                               *)
ASSUME NameAssumption ==
    Names \union {Index} \subseteq
        Seq(Bytes \ {0, SLASH}) \ {<<>>, <<DOT>>, <<DOT, DOT>>}
ASSUME ServePathAssumption ==
    \A path \in ServePaths :
        path \in Seq(Bytes) \ {<<>>} /\ cleanup_path(path) = path
ASSUME BoundAssumption == {MaxDepth, MaxSlashes} \subseteq Nat

VARIABLES serve_path, \* conf.serve_path
          at,         \* the names that lead to where the client means to be
          is_dir,     \* whether that is a directory
          url,        \* the path it requests
          slashes,    \* how many slashes it wrote too many
          redirected  \* whether the path is, or is based on, a Location

vars == <<serve_path, at, is_dir, url, slashes, redirected>>

Init == /\ serve_path \in ServePaths
        /\ at = <<>>
        /\ is_dir = TRUE
        /\ url = <<SLASH>>
        /\ slashes = 0
        /\ redirected = FALSE

-----------------------------------------------------------------------------
(* make_http_response: the path is cleaned up before it is decoded. *)
decoded_http_path(path) == decode_url(cleanup_path(path))
real_path(path) == resolve_path(serve_path, decoded_http_path(path))
index_real_path(path) == resolve_path(real_path(path), Index)

(* parse_http_request takes as much as it can for the path, and a space    *)
(* has to follow. Any other path makes it an invalid request.             *)
Accepted(path) == /\ path # <<>>
                  /\ \A i \in DOMAIN path : is_valid_http_path_char(path[i])

Link(name, dir) == buf_encode_url(name) \o IF dir THEN <<SLASH>> ELSE <<>>

(* A link in the listing of the directory the client is in. *)
Follow(name, dir) == /\ is_dir
                     /\ EndsInSlash(url)
                     /\ Accepted(url)
                     /\ Len(at) < MaxDepth
                     /\ at' = Append(at, name)
                     /\ is_dir' = dir
                     /\ url' = url \o Link(name, dir)
                     /\ UNCHANGED <<serve_path, slashes, redirected>>

(* The client writes a slash twice. *)
WriteSlash(i) == /\ url[i] = SLASH
                 /\ slashes < MaxSlashes
                 /\ slashes' = slashes + 1
                 /\ url' = InsertAt(url, i, SLASH)
                 /\ UNCHANGED <<serve_path, at, is_dir, redirected>>

(* Mutants of the next definition: no slash is added, or the base name     *)
(* that file.name holds takes the path's place.                           *)
LocationWithoutSlash(path) == decoded_http_path(path)
LocationOfName(path) ==
    LET decoded == decoded_http_path(path)
        IsSlash(c) == c = SLASH
        i == SelectLastInSeq(decoded, IsSlash)
    IN  <<SLASH>> \o SubSeq(decoded, i + 1, Len(decoded)) \o <<SLASH>>

Location(path) == Append(decoded_http_path(path), SLASH)

(* The client leaves out the slashes at the end of a directory's path, and *)
(* requests what the answer's Location says instead.                      *)
WithoutSlash(path) == LET i == SelectLastInSeq(path, NotSlash)
                      IN  SubSeq(path, 1, i)
Redirect == /\ is_dir
            /\ at # <<>>
            /\ Accepted(url)
            /\ EndsInSlash(url)
            /\ ~EndsInSlash(decoded_http_path(WithoutSlash(url)))
            /\ url' = Location(WithoutSlash(url))
            /\ redirected' = TRUE
            /\ UNCHANGED <<serve_path, at, is_dir, slashes>>

Next == \/ \E name \in Names, dir \in BOOLEAN : Follow(name, dir)
        \/ \E i \in DOMAIN url : WriteSlash(i)
        \/ Redirect

Spec == Init /\ [][Next]_vars

-----------------------------------------------------------------------------
(* The names a path is made of: where it leads, however it is written.    *)
(* Read so far are whole names, and the beginning of one.                 *)
NothingRead == [names |-> <<>>, name |-> <<>>]
WithByte(read, c) ==
    IF c # SLASH THEN [read EXCEPT !.name = Append(@, c)]
    ELSE IF read.name = <<>> THEN read
    ELSE [names |-> Append(read.names, read.name), name |-> <<>>]
Reading(path) ==
    LET upto[i \in 0 .. Len(path)] ==
            IF i = 0 THEN NothingRead ELSE WithByte(upto[i - 1], path[i])
    IN  upto[Len(path)]
Components(path) == WithByte(Reading(path), SLASH).names

LeadsTo(path, place) == Components(path) = Components(serve_path) \o place

(* A link leads to the entry it was made for: what buf_encode_url writes   *)
(* is a path that parse_http_request takes, and decode_url and            *)
(* resolve_path give that entry's path back, whatever bytes its name has. *)
LinksLead == ~redirected => /\ Accepted(url)
                            /\ LeadsTo(real_path(url), at)

(* A redirect leads there too, if the names on the way have only           *)
(* characters that need no encoding: Location is not encoded.             *)
RedirectsLead == (\A i \in DOMAIN at : Plain(at[i])) =>
                    /\ Accepted(url)
                    /\ LeadsTo(real_path(url), at)

(* A directory's path is redirected at most once, whatever its name has:  *)
(* the path in Location still ends in a slash when it is decoded, unless  *)
(* a name in it reads as an encoded null, which is where decoding stops.  *)
CutShort(path) == Contains(Unescaped(cleanup_path(path)), 0)
RedirectedOnce == is_dir /\ ~CutShort(url) => EndsInSlash(decoded_http_path(url))

(* The index file that is looked for is in the directory requested, also   *)
(* where the two paths meet in slashes of both, of one or of neither.     *)
Reached == Accepted(url) /\ LeadsTo(real_path(url), at)
IndexIsInside == is_dir /\ Reached =>
                    LeadsTo(index_real_path(url), Append(at, Index))

(* The path of a request, which begins with a slash, fits into the memory  *)
(* that resolve_path allocates for it, with the null at its end.          *)
Fits(path, p1, p2) == Len(path) + 1 <= Allocated(p1, p2)
PathFits == Fits(real_path(url), serve_path, decoded_http_path(url))

-----------------------------------------------------------------------------
(* "Allocate enough size" (dir.c:55), for an index file as well: nothing   *)
(* is written after the end of the memory allocated for its path.         *)
IndexFits == is_dir => Fits(index_real_path(url), real_path(url), Index)
=============================================================================
