------------------------------ MODULE Listing ------------------------------
(***************************************************************************)
(* A directory's listing: ls and sort_file_list (dir.c), and               *)
(* write_dirlisting_http (http.c:429), which writes the page into the      *)
(* growing buffer of Buffer, call by call.                                 *)
(*                                                                         *)
(* scandir() and each lstat() are calls of their own: other processes      *)
(* change the directory between them.  Names are compared and copied, not  *)
(* spelled; a piece of the page is one item of the buffer.                 *)
(***************************************************************************)
EXTENDS Buffer, FiniteSets, SequencesExt

CONSTANTS Collation,  \* the names, in the order strcoll() has them in
          DotNames,   \* those that start with a dot
          AlnumNames, \* those that start with a letter or a digit
          Inodes,     \* what a name may stand for: see InodeType
          MaxEntries, \* bound: how many entries the directory has at first
          MaxDoubtful \* bound: how many names other processes change, or
                      \* lstat() fails on

Dot == "."
DotDot == ".."
NullName == "???" \* the name that NULL_FILE has
Names == Range(Collation)

(* What lstat() and stat() say: `to` is the type of a link's target.       *)
Inode(is_link, to, size) == [is_link |-> is_link, to |-> to, size |-> size]
InodeType == [is_link : BOOLEAN, to : {"file", "dir", "broken"},
              size : {"", "K", "M", "G", "T"}]
Directory == Inode(FALSE, "dir", "")
Gone == Inode(FALSE, "broken", "")

(* What a page is made of. *)
Items == Names \union {"<html>", "<h1>", "endpoint", "</html>", "<a", "</tr>", "/",
                       "quote", "red", ">", "/ ->", " ->", "", "K", "M", "G"}

ASSUME ListingAssumption ==
    /\ Items \subseteq Byte
    /\ Collation \in Seq(Range(Collation))
    /\ {Dot, DotDot, NullName} \subseteq Names
    /\ {Dot, DotDot} \subseteq DotNames /\ DotNames \cup AlnumNames \subseteq Names
    /\ DotNames \cap AlnumNames = {}
    /\ Inodes \subseteq InodeType /\ Gone \notin Inodes
    /\ {MaxEntries, MaxDoubtful} \subseteq Nat

VARIABLES dir,     \* the directory: what each name stands for, or Gone
          entries, \* namelist, what scandir() returned and is yet to be freed
          files,   \* file_list->files
          calls,   \* the writes to the page that are still to come
          head,    \* the status and Content-Length of the head
          changed, \* the names that other processes have changed since then
          unseen,  \* and those that lstat() failed on, although they were there
          pc       \* "scan", "look" at the files, "write" the page, "done"

listVars == <<vars, dir, entries, files, calls, head, changed, unseen,
              pc>>
Doubtful == changed \union unseen
NoHead == [status |-> 0, length |-> 0]

(* "." and ".." are in every directory; the others that are directories at *)
(* first are links to one.                                                 *)
ListInit ==
    /\ Init
    /\ dir \in [Names -> Inodes \union {Directory, Gone}]
    /\ \A n \in Names : n \in {Dot, DotDot} <=> dir[n] = Directory
    /\ dir[NullName] = Gone
    /\ Cardinality({n \in Names : dir[n] # Gone}) <= MaxEntries
    /\ entries = <<>> /\ files = <<>> /\ calls = <<>>
    /\ head = NoHead
    /\ changed = {} /\ unseen = {}
    /\ pc = "scan"

(* Others remove, make or replace a file while it is being listed. *)
Change(n, inode) ==
    /\ pc = "look"
    /\ Cardinality(Doubtful) < MaxDoubtful
    /\ inode # dir[n]
    /\ dir' = [dir EXCEPT ![n] = inode]
    /\ changed' = changed \union {n}
    /\ UNCHANGED <<vars, entries, files, calls, head, unseen, pc>>

-----------------------------------------------------------------------------
(* The order of the files (dir.c:192): positive if the first one comes     *)
(* first.                                                                  *)
Place(name) == CHOOSE i \in DOMAIN Collation : Collation[i] = name
strcoll(a, b) == Place(a) - Place(b)

compare_file_names(a, b) ==
    IF a = Dot THEN 1 ELSE IF b = Dot THEN -1
    ELSE IF a = DotDot THEN 1 ELSE IF b = DotDot THEN -1
    ELSE IF {a, b} \subseteq DotNames THEN -strcoll(a, b)
    ELSE IF a \in DotNames THEN 1 ELSE IF b \in DotNames THEN -1
    ELSE IF {a, b} \cap AlnumNames = {} THEN -strcoll(a, b)
    ELSE IF a \notin AlnumNames THEN 1 ELSE IF b \notin AlnumNames THEN -1
    ELSE -strcoll(a, b)

compare_files(a, b) ==
    IF a.is_dir = b.is_dir THEN compare_file_names(a.name, b.name)
    ELSE IF a.is_dir THEN 1 ELSE -1

(* Mutant of the next definition: the first file is not kept. *)
overwrite_in_file_list(list, a, b) == [list EXCEPT ![b] = list[a]]

swap_in_file_list(list, a, b) == [list EXCEPT ![a] = list[b], ![b] = list[a]]

(* Mutant of the next definition: the search goes on from the slot itself. *)
SmallestOfNeighbours(list, i) ==
    IF i < Len(list) /\ compare_files(list[i], list[i + 1]) < 0 THEN i + 1 ELSE i

(* sort_file_list: the first of the rest is swapped to the front of it. *)
Smallest(list, i) ==
    LET smallest[j \in i .. Len(list)] ==
          IF j = i THEN i
          ELSE LET s == smallest[j - 1]
               IN  IF compare_files(list[s], list[j]) < 0 THEN j ELSE s
    IN  smallest[Len(list)]

sort_file_list(list) ==
    LET sorted[i \in 0 .. Len(list)] ==
          IF i = 0 THEN list
          ELSE LET l == sorted[i - 1] IN swap_in_file_list(l, Smallest(l, i), i)
    IN  sorted[Len(list)]

-----------------------------------------------------------------------------
File(name, is_dir, is_link, is_broken_link, size) ==
    [name |-> name, is_dir |-> is_dir, is_link |-> is_link,
     is_broken_link |-> is_broken_link, size |-> size]
NULL_FILE == File(NullName, FALSE, FALSE, FALSE, "")

(* lstat(), which fails if nothing is there, and may fail if something is  *)
(* (EACCES, ENOMEM), and stat() for a link, which may fail by then.        *)
read_file_info(name, inode) ==
    {NULL_FILE}
    \union (IF inode = Gone THEN {}
            ELSE {File(name, inode.to = "dir", inode.is_link, inode.to = "broken",
                       inode.size)})
    \union (IF ~inode.is_link THEN {}
            ELSE {File(name, FALSE, TRUE, broken, "") : broken \in BOOLEAN})

Present == {n \in Names : dir[n] # Gone}

(* scandir() has no filter and no order. *)
ScanDir == /\ pc = "scan"
           /\ entries' \in SetToSeqs(Present)
           /\ pc' = "look"
           /\ UNCHANGED <<vars, dir, files, calls, head, changed, unseen>>

(* ls returns NULL: the head is one line, and the page stays empty. *)
ScanDirFails == /\ pc = "scan"
                /\ head' = [status |-> 500, length |-> 0]
                /\ pc' = "done"
                /\ UNCHANGED <<vars, dir, entries, files, calls, changed, unseen>>

-----------------------------------------------------------------------------
(* The page (http.c:374), as the calls that write it. *)
Push(item) == [op |-> "push", text |-> <<item>>]
Add(item) == [op |-> "append", text |-> <<item>>]
Format(text) == [op |-> "sprintf", text |-> text]
When(condition, call) == IF condition THEN <<call>> ELSE <<>>

(* No branch of get_human_file_size is for sizes from TB_SIZE on: what it  *)
(* returns was never written.                                              *)
get_human_file_size(size) == IF size = "T" THEN Junk ELSE size

get_file_type_suffix(f) == IF f.is_dir THEN IF f.is_link THEN "/ ->" ELSE "/"
                           ELSE IF f.is_link THEN " ->" ELSE ""

Row(f) == <<Add("<a"), Push(f.name)>>
            \o When(f.is_dir, Push("/")) \o <<Push("quote")>>
            \o When(f.is_link /\ f.is_broken_link, Add("red"))
            \o <<Push(">"), Add(f.name)>>
            \o When(get_file_type_suffix(f) # "", Add(get_file_type_suffix(f)))
            \o When(~f.is_dir, Add(get_human_file_size(f.size)))
            \o <<Add("</tr>")>>

file_list_to_html(list) ==
    <<Add("<html>"), Format(<<"<h1>", "endpoint">>)>>
      \o FlattenSeq([i \in DOMAIN list |-> Row(list[i])]) \o <<Add("</html>")>>

(* What lstat() failed on if it was there and f is what was made of it.    *)
FailedOn(f) == IF f = NULL_FILE THEN Present ELSE {}

(* One more entry is looked at; after the last one they are sorted. *)
Look == /\ pc = "look"
        /\ entries' = Tail(entries)
        /\ \E f \in read_file_info(Head(entries), dir[Head(entries)]) :
              /\ unseen' = unseen \union ({Head(entries)} \intersect FailedOn(f))
              /\ Cardinality(changed \union unseen') <= MaxDoubtful
              /\ IF entries' # <<>>
                 THEN files' = Append(files, f) /\ UNCHANGED <<calls, pc>>
                 ELSE /\ files' = sort_file_list(Append(files, f))
                      /\ calls' = file_list_to_html(files')
                      /\ pc' = "write"
        /\ UNCHANGED <<vars, dir, head, changed>>

Write == /\ pc = "write" /\ calls # <<>>
         /\ LET call == Head(calls) IN
              \/ call.op = "push" /\ buf_push(call.text[1])
              \/ call.op = "append" /\ buf_append(call.text)
              \/ call.op = "sprintf" /\ buf_sprintf(call.text)
         /\ calls' = Tail(calls)
         /\ UNCHANGED <<dir, entries, files, head, changed, unseen, pc>>

(* The head is made when the page is complete. *)
WriteHead == /\ pc = "write" /\ calls = <<>>
             /\ head' = [status |-> 200, length |-> n_items]
             /\ pc' = "done"
             /\ UNCHANGED <<vars, dir, entries, files, calls, changed, unseen>>

ListDone == pc = "done" /\ UNCHANGED listVars

ListNext == \/ \E n \in Names \ {Dot, DotDot, NullName}, inode \in Inodes \union {Gone} :
                  Change(n, inode)
            \/ ScanDir
            \/ ScanDirFails
            \/ Look
            \/ Write
            \/ WriteHead
            \/ ListDone

ListSpec == ListInit /\ [][ListNext]_listVars

-----------------------------------------------------------------------------
Listed == pc \in {"write", "done"} /\ head.status # 500
Occurrences(name) == {i \in DOMAIN files : files[i].name = name}

(* Whatever others do to the directory meanwhile, every file that they     *)
(* left alone is listed, once and as what it is, unless lstat() fails on   *)
(* it; there are no more nameless files than names that were changed or    *)
(* failed on, and nothing that was not there is listed.                    *)
ListedOnce == Listed =>
    /\ \A n \in Present \ Doubtful : \E i \in DOMAIN files :
          /\ Occurrences(n) = {i}
          /\ files[i].is_link = dir[n].is_link
          /\ ~dir[n].is_link => files[i].is_dir = (dir[n].to = "dir")
    /\ Cardinality(Occurrences(NullName)) <= Cardinality(Doubtful)
    /\ \A i \in DOMAIN files : files[i].name \in Present \union Doubtful \union {NullName}

(* What compare_files is meant to put the files in (dir.c:228): first     *)
(* directories; then ".", "..", other names with a dot, with another sign, *)
(* and with a letter or digit in front; then the order of strcoll().      *)
Rank(f) == <<IF f.is_dir THEN 0 ELSE 1,
             IF f.name = Dot THEN 0 ELSE IF f.name = DotDot THEN 1
             ELSE IF f.name \in DotNames THEN 2
             ELSE IF f.name \notin AlnumNames THEN 3 ELSE 4,
             Place(f.name)>>
NotAfter(r, s) == \/ r = s
                  \/ \E k \in 1 .. 3 : r[k] < s[k] /\ \A j \in 1 .. k - 1 : r[j] = s[j]

(* The listing is in that order from one end to the other, although the   *)
(* sort only ever compares two files, by a chain of special cases.        *)
InOrder == Listed => \A i, j \in DOMAIN files :
    i < j => NotAfter(Rank(files[i]), Rank(files[j]))

(* The page that the head announces is the page that was written, whole,   *)
(* in order and as long as it says, over all the times the buffer grew.    *)
PageIsWhole == pc = "done" =>
    /\ head.length = n_items
    /\ head.status = 200 =>
          Contents = FlattenSeq([i \in DOMAIN file_list_to_html(files) |->
                                   file_list_to_html(files)[i].text])
=============================================================================
