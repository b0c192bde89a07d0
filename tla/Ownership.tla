----------------------------- MODULE Ownership -----------------------------
(***************************************************************************)
(* Who frees what of a connection's requests and responses: the memory     *)
(* behind Exchange, from do_conn_state's allocation of a request to        *)
(* recycle_connection or free_connection_parts, on a connection that may   *)
(* be reused, refused or timed out at any point in between.  Files that    *)
(* are opened while they are sent belong to FileTransfer.                  *)
(***************************************************************************)
EXTENDS Exchange, Memory

CONSTANTS MaxRequests, \* how many requests a connection makes
          HeaderLists  \* the headers, in order, that requests may have

(* The pointers of an Http_Request, of an Http_Response, and the variables *)
(* of make_http_response, write_dirlisting_http and ls; one entry stands   *)
(* for all that a directory has.                                           *)
HeaderFields == {"host", "user_agent", "accept", "connection"}
RequestPointers == {"req", "buf", "buf.data", "method", "path",
                    "version_number"} \union HeaderFields
ResponsePointers == {"res", "head.data", "body.data", "file.name", "file_path"}
Variables == {"clean_http_path", "decoded_http_path", "real_path",
              "index_real_path", "dir", "namelist", "dirent", "full_path",
              "file_list", "files", "dir_info", "dir_info.name", "entry"}
Pointers == RequestPointers \union ResponsePointers \union Variables

ASSUME OwnershipAssumption ==
    /\ MaxRequests \in Nat \ {0}
    /\ HeaderLists \subseteq Seq(HeaderFields)

VARIABLES mem,       \* the memory: see Memory
          n_requests,
          causes     \* what has happened that is known to leave blocks behind

allVars == <<vars, mem, n_requests, causes>>

NoMemory == [heap |-> {}, ptr |-> [p \in Pointers |-> NoBlock], bad |-> FALSE]

-----------------------------------------------------------------------------
(* CONN_STATE_READING: the request is allocated when its first part comes. *)
WithRequest(m) == IF m.ptr["req"] # NoBlock THEN m
                  ELSE AllocAll(m, <<"req", "buf", "buf.data">>)

(* parse_http_request allocates a copy of each field. *)
Parsed(m, headers) ==
    AllocAll(WithRequest(m), <<"method", "path", "version_number">> \o headers)

(* Mutant of the next definition: a field is forgotten. *)
FreeRequestButAgent(m) ==
    IF m.ptr["req"] = NoBlock THEN m
    ELSE FreeAll(m, <<"method", "path", "version_number", "host",
                      "accept", "buf.data", "buf", "req">>)

free_http_request(m) ==
    IF m.ptr["req"] = NoBlock THEN m
    ELSE FreeAll(m, <<"method", "path", "version_number", "host", "user_agent",
                      "accept", "buf.data", "buf", "req">>)

(* is_null is set with the name "???", which is not allocated. *)
free_file_parts(m, name) == IF m.ptr[name] = Static THEN m ELSE Free(m, name)

free_http_response(m) ==
    IF m.ptr["res"] = NoBlock THEN m
    ELSE Free(free_file_parts(FreeAll(m, <<"file_path", "head.data", "body.data">>),
                              "file.name"),
              "res")

(* recycle_connection sets both pointers to NULL; after                   *)
(* free_connection_parts the connection is removed from the queue.        *)
Freed(m) == Forget(free_http_response(free_http_request(m)), Pointers)

-----------------------------------------------------------------------------
(* read_file_info: without the file, *f becomes NULL_FILE, name included. *)
read_file_info(m, name, there) == IF there THEN m ELSE Literal(m, name)

(* ls, if scandir() works, and free_file_list. `there` tells whether the  *)
(* entry and the directory itself are still there when they are looked at. *)
ls(m, entry_there, dir_there) ==
    LET listed == AllocAll(m, <<"dir", "dirent", "namelist", "file_list", "files",
                                "dir_info", "dir_info.name">>)
        looked == AllocAll(read_file_info(listed, "dir_info.name", dir_there),
                           <<"full_path", "entry">>)
    IN  FreeAll(read_file_info(looked, "entry", entry_there),
                <<"dirent", "namelist", "full_path">>)

free_file_list(m) ==
    FreeAll(free_file_parts(m, "entry"), <<"files", "dir_info", "file_list">>)

(* make_http_response up to the first look at the target. *)
Resolved(m) ==
    LET paths == Free(AllocAll(m, <<"res", "head.data", "clean_http_path",
                                    "decoded_http_path">>), "clean_http_path")
    IN  Alloc(Assign(Alloc(paths, "real_path"), "file_path", "real_path"), "file.name")

(* The name of the index file takes the place of the directory's. *)
WithIndex(m) ==
    AllocAll(Free(Alloc(m, "index_real_path"), "file.name"), <<"file.name">>)

(* Mutant of the next definition: res->file_path keeps the freed path. *)
ServedFromOldPath(m) == Assign(Free(m, "real_path"), "real_path", "index_real_path")

IndexFound(m) ==
    LET moved == Assign(Free(m, "real_path"), "real_path", "index_real_path")
    IN  Assign(moved, "file_path", "index_real_path")

(* The directory is listed, if it can be read. *)
Listed(m, entry_there, dir_there) ==
    Free(free_file_list(ls(Alloc(m, "body.data"), entry_there, dir_there)),
         "index_real_path")

ListedNothing(m) == Free(AllocAll(m, <<"body.data", "dir">>), "index_real_path")

(* What each response may do to the memory, and the causes of leaks in it. *)
Outcome(m, why) == [mem |-> m, causes |-> why]
If(happened, cause) == IF happened THEN {cause} ELSE {}

(* No index is configured, or it is a broken link, or there is none.      *)
WithoutIndex(m) ==
    {Outcome(m, {}), Outcome(WithIndex(m), {}),
     Outcome(read_file_info(WithIndex(m), "file.name", FALSE), {"no_file"})}

Outcomes(m, r) ==
    LET start == Resolved(m) IN
    CASE r.target \in {"missing", "unreadable"} ->
           LET failed == read_file_info(start, "file.name", FALSE)
           IN  {Outcome(IF r.target = "missing" /\ r.method # "HEAD"
                        THEN Alloc(failed, "body.data") ELSE failed, {"no_file"})}
      [] r.target = "dir_bare" -> {Outcome(start, {})}
      [] r.target = "file" -> {Outcome(start, {}),
                               Outcome(IndexFound(WithIndex(start)), {})}
      [] r.target = "dir" ->
           {Outcome(Listed(o.mem, entry, dir),
                    o.causes \union {"listing"} \union If(~entry, "vanished")) :
              o \in WithoutIndex(start), entry \in BOOLEAN, dir \in BOOLEAN}
      [] r.target = "dir_gone" ->
           {Outcome(ListedNothing(o.mem), o.causes \union {"listing"}) :
              o \in WithoutIndex(start)}

(* fulfill frees what was deferred, and the variables go out of scope. *)
Returned(m) == Forget(Free(m, "decoded_http_path"), Variables)

-----------------------------------------------------------------------------
HeaderCauses(headers) ==
    {h \in Range(headers) : h = "connection"
                               \/ Cardinality({i \in DOMAIN headers : headers[i] = h}) > 1}

(* Only a request with that header asks for the connection to be closed. *)
Asks(r, headers) == /\ ~r.keep_alive => "connection" \in Range(headers)
                    /\ mem' = Parsed(mem, headers)
                    /\ causes' = causes \union HeaderCauses(headers)
                    /\ n_requests' = n_requests + 1

OwnInit == /\ Init
           /\ \E headers \in HeaderLists :
                 /\ ~req.keep_alive => "connection" \in Range(headers)
                 /\ mem = Parsed(NoMemory, headers)
                 /\ causes = HeaderCauses(headers)
           /\ n_requests = 1

(* A part of the next request arrives. *)
OwnReceivePart == /\ state = "READING"
                  /\ n_requests < MaxRequests
                  /\ mem.ptr["req"] = NoBlock
                  /\ mem' = WithRequest(mem)
                  /\ UNCHANGED <<vars, n_requests, causes>>

OwnReceive == /\ n_requests < MaxRequests
              /\ Receive
              /\ \E headers \in HeaderLists : Asks(req', headers)

(* What may have been copied of a request line, and of a request whose    *)
(* parser stopped at an error before it came to the host.                 *)
LineParts == {<<>>, <<"method">>, <<"method", "path">>,
              <<"method", "path", "version_number">>}

Unparsed(m) ==
    {Outcome(AllocAll(WithRequest(m), parts), {}) : parts \in LineParts}
    \union {Outcome(Parsed(m, headers), HeaderCauses(headers)) :
               headers \in {list \in HeaderLists : "host" \notin Range(list)}}

(* The next request is too big, or its method, path or host is missing.   *)
OwnRefuse == /\ state = "READING"
             /\ n_requests < MaxRequests
             /\ \E out \in Unparsed(mem) :
                   /\ mem' = Freed(out.mem)
                   /\ causes' = causes \union out.causes
             /\ Ends("CLOSING")
             /\ UNCHANGED <<req, res, head_wire, body_wire, n_requests>>

OwnTimeOut == /\ state # "CLOSING"
              /\ mem' = Freed(mem)
              /\ Ends("CLOSING")
              /\ UNCHANGED <<req, res, head_wire, body_wire, n_requests, causes>>

(* A connection that is recycled or closed gives its memory back. *)
Kept(m) == IF state' \in {"READING", "CLOSING"} THEN Freed(m) ELSE m

OwnWriteHeaders ==
    /\ WriteHeaders
    /\ IF res = NULL
       THEN \E out \in Outcomes(mem, req) :
               /\ mem' = Kept(Returned(out.mem))
               /\ causes' = causes \union out.causes
       ELSE mem' = Kept(mem) /\ UNCHANGED causes
    /\ UNCHANGED n_requests

OwnWriteBody == WriteBody /\ mem' = Kept(mem) /\ UNCHANGED <<n_requests, causes>>

OwnDone == /\ \/ state = "CLOSING"
              \/ state = "READING" /\ n_requests = MaxRequests
           /\ UNCHANGED allVars

OwnNext == \/ OwnReceivePart
           \/ OwnReceive
           \/ OwnRefuse
           \/ OwnTimeOut
           \/ OwnWriteHeaders
           \/ OwnWriteBody
           \/ OwnDone

OwnSpec == OwnInit /\ [][OwnNext]_allVars

-----------------------------------------------------------------------------
(* Wherever a connection is recycled, refused, closed or timed out, no     *)
(* block is freed twice and none is kept hold of after it was freed: not   *)
(* the path that the index file's takes the place of, and not the name     *)
(* that is no block once a file is missing.                                *)
PointersAreAlive == Sound(mem)

CauseOf(block) == CASE block = "file.name"                -> "no_file"
                    [] block \in {"dir", "dir_info.name"} -> "listing"
                    [] block = "entry"                    -> "vanished"
                    [] OTHER                              -> block

(* All that a connection leaves behind is what these causes account for:   *)
(* the value of a Connection header or of a header given twice, the name   *)
(* of a file or index that is missing, and what ls() keeps of each listing. *)
(* A file that is there costs nothing, however its connection ends.        *)
LeaksHaveCauses == {CauseOf(block) : block \in Leaked(mem)} \subseteq causes
=============================================================================
