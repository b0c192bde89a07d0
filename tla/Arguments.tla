----------------------------- MODULE Arguments -----------------------------
(***************************************************************************)
(* The command line: parse_args (arg.c:47) and the configuration that main *)
(* makes of what it finds (mimino.c:780).                                  *)
(*                                                                         *)
(* An argument is the sequence of its characters, a long flag's name being *)
(* one of them: "-vp80" is <<"-", "v", "p", "80">> and "--port=80" is      *)
(* <<"-", "-", "port", "=", "80">>.                                        *)
(***************************************************************************)
EXTENDS Integers, FiniteSets, SequencesExt

CONSTANTS Texts,  \* what the arguments are chosen from
          MaxArgs \* bound: the most arguments that are given

VARIABLES argv,     \* the arguments, from argv[1] on
          i,        \* the argument that is next
          argdefs,  \* what is found of each: see Found
          raw_escape,
          ret,      \* what parse_args will return
          conf      \* Server_Config, as far as the command line makes it

argVars == <<argv, i, argdefs, raw_escape, ret, conf>>

NULL == <<"NULL">> \* a null pointer
Argdef(short, long, type) == [short_arg |-> short, long_arg |-> long, type |-> type]
Argdefs == <<Argdef("v", "verbose", "b"), Argdef("q", "quiet", "b"),
             Argdef("u", "unsafe", "b"), Argdef("r", "chroot", "s"),
             Argdef("e", "error-files", "b"), Argdef("s", "suffix", "s"),
             Argdef("p", "port", "s"), Argdef("i", "index", "s"),
             Argdef("no short", "no long", "r")>>
Raw == 9

(* The bound keeps argdefs[i], which the code writes to in the place of    *)
(* argdefs[j], inside the array.  No argument, which may be empty, has a   *)
(* null pointer in it, or one of the names that the raw argdef lacks.      *)
ASSUME ArgumentsAssumption ==
    /\ MaxArgs \in 0 .. Len(Argdefs) - 1
    /\ \A text \in Texts : /\ text \in Seq(STRING)
                           /\ {"no short", "no long", "NULL"} \cap Range(text) = {}

(* main's serv is all zeros at first. *)
NotConfigured ==
    [verbose |-> FALSE, quiet |-> FALSE, unsafe |-> FALSE, chroot |-> FALSE,
     chroot_dir |-> NULL, serve_error_files |-> FALSE, suffix |-> NULL,
     port |-> NULL, index |-> NULL, serve_path |-> NULL]

ArgInit ==
    /\ argv \in BoundedSeq(Texts, MaxArgs)
    /\ i = 1
    /\ argdefs = [j \in DOMAIN Argdefs |-> [bvalue |-> FALSE, value |-> NULL, err |-> FALSE]]
    /\ raw_escape = FALSE
    /\ ret = TRUE
    /\ conf = NotConfigured

-----------------------------------------------------------------------------
OfType(type) == {j \in DOMAIN Argdefs : Argdefs[j].type = type}
IsFlag(text) == text # <<>> /\ text[1] = "-"
IsLong(text) == IsFlag(text) /\ Len(text) >= 2 /\ text[2] = "-"
IsShort(text) == IsFlag(text) /\ ~IsLong(text)

long_arg_match(text, j) ==
    Len(text) >= 3 /\ text[3] = Argdefs[j].long_arg /\ (Len(text) > 3 => text[4] = "=")
short_arg_match(text, k, j) == text[k] = Argdefs[j].short_arg

HasEquals(text) == Len(text) > 3
AfterEquals(text) == SubSeq(text, 5, Len(text))

(* Mutant of the next definition: the value is read as an argument, too. *)
NextIsReadAgain(defs, j) ==
    IF i < Len(argv)
    THEN /\ argdefs' = [defs EXCEPT ![j].value = argv[i + 1]]
         /\ i' = i + 1
         /\ UNCHANGED ret
    ELSE /\ argdefs' = defs
         /\ i' = i + 1
         /\ ret' = FALSE

(* A string's value is the next argument, if there is one. *)
TakeNext(defs, j) ==
    IF i < Len(argv)
    THEN /\ argdefs' = [defs EXCEPT ![j].value = argv[i + 1]]
         /\ i' = i + 2
         /\ UNCHANGED ret
    ELSE /\ argdefs' = defs
         /\ i' = i + 1
         /\ ret' = FALSE

(* Long-form, and "--" itself. *)
ParseLong(text) ==
    /\ raw_escape' = (Len(text) = 2)
    /\ \/ /\ ~\E j \in DOMAIN Argdefs : long_arg_match(text, j)
          /\ i' = i + 1
          /\ UNCHANGED <<argdefs, ret>>
       \/ \E j \in OfType("b") :
             /\ long_arg_match(text, j)
             /\ argdefs' = [argdefs EXCEPT ![j].bvalue =
                   HasEquals(text) => AfterEquals(text) # <<>> /\ AfterEquals(text)[1] # "0"]
             /\ i' = i + 1
             /\ UNCHANGED ret
       \/ \E j \in OfType("s") :
             /\ long_arg_match(text, j)
             /\ ~HasEquals(text)
             (* Without a next one, err is set in argdefs[i], which is not  *)
             (* this flag's (arg.c:104).                                   *)
             /\ LET defs == [argdefs EXCEPT ![j].bvalue = TRUE]
                IN  TakeNext(IF i < Len(argv) THEN defs
                             ELSE [defs EXCEPT ![i + 1].err = TRUE], j)
       \/ \E j \in OfType("s") :
             /\ long_arg_match(text, j)
             /\ HasEquals(text)
             /\ LET empty == AfterEquals(text) = <<>> IN
                  /\ argdefs' = [argdefs EXCEPT
                        ![j] = [bvalue |-> TRUE,
                                value |-> IF empty THEN NULL ELSE AfterEquals(text),
                                err |-> empty \/ argdefs[j].err]]
                  /\ ret' = (ret /\ ~empty)
             /\ i' = i + 1

(* Short-form: each character is a flag, up to the first that is a         *)
(* string's; what follows that one is its value.                           *)
Strings(text) == {k \in 2 .. Len(text) : \E j \in OfType("s") : short_arg_match(text, k, j)}
FirstString(text) == IF Strings(text) = {} THEN Len(text) + 1 ELSE Min(Strings(text))

ParseShort(text) ==
    LET first == FirstString(text)
        defs  == [j \in DOMAIN Argdefs |->
                    IF \E k \in 2 .. Len(text) : k <= first /\ short_arg_match(text, k, j)
                    THEN [argdefs[j] EXCEPT !.bvalue = TRUE] ELSE argdefs[j]]
    IN  /\ \/ /\ first > Len(text)
              /\ argdefs' = defs
              /\ i' = i + 1
              /\ UNCHANGED ret
           \/ \E j \in OfType("s") :
                 /\ first < Len(text) /\ short_arg_match(text, first, j)
                 /\ argdefs' = [defs EXCEPT ![j].value = SubSeq(text, first + 1, Len(text))]
                 /\ i' = i + 1
                 /\ UNCHANGED ret
           \/ \E j \in OfType("s") :
                 /\ first = Len(text) /\ short_arg_match(text, first, j)
                 /\ TakeNext(IF i < Len(argv) THEN defs
                             ELSE [defs EXCEPT ![j].err = TRUE], j)
        /\ UNCHANGED raw_escape

(* The only raw argdef takes the first raw argument. *)
ParseRaw(text) ==
    /\ argdefs' = IF argdefs[Raw].bvalue THEN argdefs
                  ELSE [argdefs EXCEPT ![Raw].bvalue = TRUE, ![Raw].value = text]
    /\ i' = i + 1
    /\ UNCHANGED <<raw_escape, ret>>

(* parse_args: one argument, or a flag and its value. *)
ParseArg == /\ i <= Len(argv)
            /\ \/ ~raw_escape /\ IsLong(argv[i]) /\ ParseLong(argv[i])
               \/ ~raw_escape /\ IsShort(argv[i]) /\ ParseShort(argv[i])
               \/ (raw_escape \/ ~IsFlag(argv[i])) /\ ParseRaw(argv[i])
            /\ UNCHANGED <<argv, conf>>

-----------------------------------------------------------------------------
(* Server_Config. Each default is a text of its own, which is no argument. *)
Default(text) == <<"default", text>>
ValueOr(j, default) == IF argdefs[j].value # NULL THEN argdefs[j].value ELSE Default(default)
IfGiven(j, default) == IF argdefs[j].bvalue THEN ValueOr(j, default) ELSE NULL

Configuration ==
    [verbose |-> argdefs[1].bvalue, quiet |-> argdefs[2].bvalue,
     unsafe |-> argdefs[3].bvalue /\ ~argdefs[4].bvalue,
     chroot |-> argdefs[4].bvalue,
     chroot_dir |-> IF argdefs[4].bvalue /\ argdefs[4].value = NULL
                    THEN ValueOr(9, "./") ELSE argdefs[4].value,
     serve_error_files |-> argdefs[5].bvalue,
     suffix |-> IfGiven(6, ".html"), port |-> ValueOr(7, "8080"),
     index |-> IfGiven(8, "index.html"), serve_path |-> ValueOr(9, "./")]

-----------------------------------------------------------------------------
(* What a command line asks for, said of all of it at once: a flag that    *)
(* needs a value and does not contain it takes the next argument, whatever *)
(* that looks like, and behind a "--" that is no value nothing is a flag.  *)
TakesNext(text) == \/ IsLong(text) /\ \E j \in OfType("s") :
                         long_arg_match(text, j) /\ ~HasEquals(text)
                   \/ IsShort(text) /\ FirstString(text) = Len(text)

Escaped(values, k) == \E e \in 1 .. k - 1 : e \notin values /\ argv[e] = <<"-", "-">>
Values == CHOOSE values \in SUBSET DOMAIN argv :
    \A k \in DOMAIN argv : k \in values <=>
        k > 1 /\ k - 1 \notin values /\ TakesNext(argv[k - 1]) /\ ~Escaped(values, k - 1)

(* Where the argdef j is given, and what is said there. *)
Gives(text, j) == \/ IsLong(text) /\ long_arg_match(text, j)
                  \/ IsShort(text) /\ \E k \in 2 .. Len(text) :
                        k <= FirstString(text) /\ short_arg_match(text, k, j)
Says(text) == IsLong(text) /\ HasEquals(text) =>
                 AfterEquals(text) # <<>> /\ AfterEquals(text)[1] # "0"
ValueAt(k) == IF TakesNext(argv[k]) THEN IF k < Len(argv) THEN argv[k + 1] ELSE NULL
              ELSE IF IsLong(argv[k])
              THEN IF AfterEquals(argv[k]) = <<>> THEN NULL ELSE AfterEquals(argv[k])
              ELSE SubSeq(argv[k], FirstString(argv[k]) + 1, Len(argv[k]))

(* parse_args succeeds if and only if every flag that needs a value has    *)
(* one, and then the configuration is what the last mention of each flag   *)
(* and the first word say.  ("Arguments after double dash "--" should be   *)
(* taken as raw", tests/test_parse_args.c:310.)                            *)
AsAsked ==
    LET values == Values
        free == {k \in DOMAIN argv \ values : Escaped(values, k)}
        words == free \union {k \in DOMAIN argv \ values : ~IsFlag(argv[k])}
        given == [j \in DOMAIN Argdefs |->
                    {k \in DOMAIN argv \ (values \union words) : Gives(argv[k], j)}]
        complete == \A j \in OfType("s") : \A k \in given[j] : ValueAt(k) # NULL
        Asked(j) == given[j] # {} /\ Says(argv[Max(given[j])])
        LastValue(j, default) == IF given[j] = {} THEN default ELSE ValueAt(Max(given[j]))
    IN  /\ i > Len(argv) => (ret <=> complete)
        /\ conf # NotConfigured =>
              /\ conf.verbose = Asked(1) /\ conf.quiet = Asked(2)
              /\ conf.serve_error_files = Asked(5)
              /\ conf.chroot = (given[4] # {})
              /\ conf.unsafe = (Asked(3) /\ ~conf.chroot)
              /\ conf.chroot_dir = LastValue(4, NULL)
              /\ conf.suffix = LastValue(6, NULL) /\ conf.index = LastValue(8, NULL)
              /\ conf.port = LastValue(7, Default("8080"))
              /\ conf.serve_path = IF words = {} THEN Default("./") ELSE argv[Min(words)]

(* The flag j, which may have a default, stands without a value of its     *)
(* own: nothing follows it, or another flag.  The man page's -r takes no   *)
(* value at all.                                                           *)
Mentions(j) == LET values == Values IN
    {k \in DOMAIN argv \ values : ~Escaped(values, k) /\ Gives(argv[k], j)}
Bare(j) == {k \in Mentions(j) : \/ ValueAt(k) = NULL
                                \/ TakesNext(argv[k]) /\ (j = 4 \/ IsFlag(argv[k + 1]))}
NoneIsBare == \A j \in {4, 6, 8} : Bare(j) = {}
=============================================================================
