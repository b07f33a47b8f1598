-------------------------------- MODULE Cli --------------------------------
(***************************************************************************)
(* The command line of atpd: parse_arguments and validate_options of       *)
(* cli.c.  A command line grows word by word; an option and its argument   *)
(* are one word, and getopt_long permutes, so that commands may stand      *)
(* before or between options ("--" is left out).                           *)
(***************************************************************************)
EXTENDS Integers, Sequences, SequencesExt

CONSTANTS
    Paths,         \* arguments of -c and -p that fit their buffers
    Commands,      \* command words of command_from_string
    MaxWords       \* bound: words of a command line

VARIABLE argv      \* the words after the program name

Opt(o) == [opt |-> o, arg |-> "none"]
With(o, a) == [opt |-> o, arg |-> a]
Word(w) == [opt |-> "word", arg |-> w]
Long == "long"     \* a path that does not fit PATH_MAX

Flags == {"f", "d", "V", "q", "n", "h", "v"}
Options ==
    {Opt(o) : o \in Flags \cup {"c", "p", "?"}}         \* -c without its argument, -x
    \cup {With(o, a) : o \in {"c", "p"}, a \in Paths \cup {Long}}
Words == {Word(w) : w \in Commands \cup {"bogus"}}

Bare == {Opt("c"), Opt("p")}

Refused == [ok |-> FALSE]
Fresh == [ok |-> TRUE, command |-> "none", config |-> "", pid |-> "", mode |-> "default",
          verbosity |-> "default", no_color |-> FALSE, seen |-> {}, explicit |-> "none"]

\* One turn of the getopt_long loop.
Seen_last(st, o) == [st EXCEPT !.seen = {o}]
Seen(st, o) == [st EXCEPT !.seen = @ \cup {o}]
parse_option(st, w) ==
    LET s == Seen(st, w.opt) IN
    CASE w.opt = "c" /\ w.arg \in Paths -> [s EXCEPT !.config = w.arg]
      [] w.opt = "p" /\ w.arg \in Paths -> [s EXCEPT !.pid = w.arg]
      [] w.opt = "f" -> [s EXCEPT !.mode = "foreground"]
      [] w.opt = "d" -> [s EXCEPT !.mode = "daemon"]
      [] w.opt = "V" -> [s EXCEPT !.verbosity = "verbose"]
      [] w.opt = "q" -> [s EXCEPT !.verbosity = "quiet"]
      [] w.opt = "n" -> [s EXCEPT !.no_color = TRUE]
      [] w.opt = "h" -> [s EXCEPT !.explicit = "help"]
      [] w.opt = "v" -> [s EXCEPT !.explicit = "version"]
      [] OTHER -> Refused          \* a path too long, no argument, unknown

validate_options(command, seen) ==
    /\ ~({"f", "d"} \subseteq seen)
    /\ ~({"V", "q"} \subseteq seen)
    /\ (seen \cap {"f", "d"} # {}) => command \in {"start", "restart"}
    /\ command \in {"version", "help"} => seen \cap {"c", "p", "V", "q", "n"} = {}
    /\ command = "check" => "p" \notin seen
    /\ (seen \cap {"h", "v"} # {}) => command = (IF "h" \in seen THEN "help" ELSE "version")

command_from_string(w) == IF w \in Commands THEN w ELSE "none"

parse_arguments(words) ==
    LET options == SelectSeq(words, LAMBDA w : w.opt # "word")
        rest == SelectSeq(words, LAMBDA w : w.opt = "word")
        st == FoldLeft(LAMBDA s, w : IF s.ok THEN parse_option(s, w) ELSE s, Fresh, options)
    IN IF ~st.ok \/ Len(rest) > 1 THEN Refused
       ELSE LET command == IF rest # <<>> THEN command_from_string(rest[1].arg)
                           ELSE IF st.explicit # "none" THEN st.explicit ELSE "help"
            IN IF command = "none" \/ (st.explicit # "none" /\ st.explicit # command)
                  \/ ~validate_options(command, st.seen)
               THEN Refused
               ELSE [st EXCEPT !.command = command]

Init == argv = <<>>

\* A missing argument is noticed at the end of the line only: before the
\* end the next word is the argument.
Next ==
    /\ Len(argv) < MaxWords
    /\ argv # <<>> => Last(argv) \notin Bare
    /\ \E w \in Options \cup Words : argv' = Append(argv, w)

----------------------------------------------------------------------------
Swapped(words, i) == [words EXCEPT ![i] = words[i + 1], ![i + 1] = words[i]]
Given(o) == \E i \in DOMAIN argv : argv[i].opt = o

\* The order of the words does not matter: exchanging two neighbours changes
\* the outcome only for a repeated option, and for -h with -v (the last of
\* which names the command).  And a command line that is accepted means one
\* thing: no two commands, modes or verbosities were asked for, a run mode
\* only for start and restart, and what is recorded is what was given.
CliExact ==
    LET r == parse_arguments(argv) IN
    /\ \A i \in 1 .. Len(argv) - 1 :
          LET pair == {argv[i].opt, argv[i + 1].opt} IN
          (argv[i].opt # argv[i + 1].opt /\ pair # {"h", "v"} /\ Last(argv) \notin Bare)
             => parse_arguments(Swapped(argv, i)) = r
    /\ r.ok =>
          /\ r.mode = (IF Given("f") THEN "foreground" ELSE IF Given("d") THEN "daemon" ELSE "default")
          /\ r.mode # "default" => r.command \in {"start", "restart"}
          /\ ~(Given("V") /\ Given("q"))
          /\ Given("h") => r.command = "help"
          /\ \A i, j \in DOMAIN argv : (argv[i].opt = "word" /\ argv[j].opt = "word") => i = j
          /\ r.config # "" <=> Given("c")
============================================================================
