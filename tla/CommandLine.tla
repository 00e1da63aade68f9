----------------------------- MODULE CommandLine -----------------------------
(***************************************************************************)
(* The arguments of the programs that have options: sort.cpp, and the      *)
(* echo server and client of tls.  One argument is a round.                *)
(***************************************************************************)
EXTENDS Loops, Integers, SequencesExt, FiniteSetsExt

CONSTANT MostArguments   \* bound of the model: how many follow the name

Lines(words) == SeqOf(words, MostArguments)

HelpOptions == {"-h", "--help"}

(* The options that take a value, by what they set, and the defaults.      *)
ServerOptions == [port |-> {"-p", "--port"}, crt |-> {"--crt"}, pkey |-> {"--pkey"}]
ServerDefaults == [port |-> "3333", crt |-> ".crtkey/server.crt", pkey |-> ".crtkey/server.key"]

ClientOptions == [hostport |-> {"-s", "--service"}, root_ca_crt |-> {"--root-ca-crt"}]
ClientDefaults == [hostport |-> "localhost:3333", root_ca_crt |-> ".crtkey/root_ca.crt"]

Options == IF algorithm = "server" THEN ServerOptions ELSE ClientOptions

tls_starts == \/ /\ Given("server", Lines({"-p", "--port", "--crt", "--pkey", "-h", "x"}))
                 /\ local = [arg |-> 1, set |-> ServerDefaults]
              \/ /\ Given("client", Lines({"-s", "--root-ca-crt", "--help", "x"}))
                 /\ local = [arg |-> 1, set |-> ClientDefaults]

Arg == input[local.arg]

(* What the argument sets, if it is an option that another one follows.    *)
Sets(args, i) == {field \in DOMAIN Options : args[i] \in Options[field] /\ i < Len(args)}

(* Mutant: the value of an option is looked at as an option as well.       *)
tls_argument_kept ==
    \/ local.arg > Len(input) /\ Return(local.set)
    \/ /\ local.arg <= Len(input)
       /\ \/ \E field \in Sets(input, local.arg) :
                Continue([arg |-> local.arg + 1,
                          set |-> [local.set EXCEPT ![field] = input[local.arg + 1]]])
          \/ Sets(input, local.arg) = {} /\ Arg \in HelpOptions /\ Return(Nothing)
          \/ /\ Sets(input, local.arg) = {} /\ Arg \notin HelpOptions
             /\ Continue([local EXCEPT !.arg = @ + 1])

(* An option at the end lacks its value and, like a word that is not an    *)
(* option, is passed over.  Help ends the program: it returns nothing.     *)
tls_argument ==
    \/ local.arg > Len(input) /\ Return(local.set)
    \/ /\ local.arg <= Len(input)
       /\ \/ \E field \in Sets(input, local.arg) :
                Continue([arg |-> local.arg + 2,
                          set |-> [local.set EXCEPT ![field] = input[local.arg + 1]]])
          \/ Sets(input, local.arg) = {} /\ Arg \in HelpOptions /\ Return(Nothing)
          \/ /\ Sets(input, local.arg) = {} /\ Arg \notin HelpOptions
             /\ Continue([local EXCEPT !.arg = @ + 1])

tls_round == (Runs("server") \/ Runs("client")) /\ tls_argument

(* The name of the program is looked at like the others.                   *)
sort_starts == /\ Given("sort", {<<"./sort">> \o line :
                                   line \in Lines({"--algo", "--argo", "heap", "--help"})})
               /\ local = [arg |-> 1, algo |-> "bubble"]

(* After --argo comes a name.  It is taken, but what is compared with the  *)
(* names of the algorithms is still --argo itself.  The name that is       *)
(* returned says which of a library's functions sorts the input.           *)
sort_round ==
    /\ Runs("sort")
    /\ \/ local.arg > Len(input) /\ Return(local.algo)
       \/ /\ local.arg <= Len(input)
          /\ \/ /\ Arg = "--argo" /\ local.arg < Len(input)
                /\ Continue([arg  |-> local.arg + 2,
                             algo |-> IF Arg \in {"heap", "insertion", "quick", "quick_r",
                                                  "selection", "counting"}
                                      THEN Arg ELSE local.algo])
             \/ Arg \in HelpOptions /\ Return(Nothing)
             \/ /\ Arg = "--argo" => local.arg = Len(input)
                /\ Arg \notin HelpOptions
                /\ Continue([local EXCEPT !.arg = @ + 1])
-----------------------------------------------------------------------------
(* The arguments of a line that are not values of the options before them. *)
Read(args) ==
    CHOOSE R \in SUBSET DOMAIN args :
        \A i \in DOMAIN args : i \in R <=> ~(i - 1 \in R /\ Sets(args, i - 1) # {})

(* Help is shown exactly if one asks for it where an option may be.  If    *)
(* not, everything has the value given last, or its default.               *)
ArgumentsRight ==
    returned /\ algorithm \in {"server", "client"} =>
        LET R       == Read(input)
            helped  == \E i \in R : input[i] \in HelpOptions
            Default == IF algorithm = "server" THEN ServerDefaults ELSE ClientDefaults
            Given_(field) == {i \in R : field \in Sets(input, i)}
        IN  IF helped THEN result = Nothing
            ELSE result = [field \in DOMAIN Options |->
                             IF Given_(field) = {} THEN Default[field]
                             ELSE input[Max(Given_(field)) + 1]]

(* The algorithm named after --algo is the one that sorts: what the help   *)
(* page and the example at the top of sort.cpp say.                        *)
AlgorithmAsTold ==
    Returned("sort") /\ result # Nothing =>
        \A i \in 1 .. Len(input) - 1 :
            input[i] = "--algo" /\ input[i + 1] = "heap" => result = "heap"
=============================================================================
