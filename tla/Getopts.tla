------------------------------ MODULE Getopts ------------------------------
(***************************************************************************)
(* getopts (options.c): one option at a time from the positional           *)
(* parameters.  Where it goes on is kept with the parameters, as optind    *)
(* and optoff of struct shparam: ind is the place of the next word, off    *)
(* where in the word before it the next option is, or -1.                  *)
(* A word is a sequence of characters.                                     *)
(***************************************************************************)
EXTENDS Integers, Sequences, SequencesExt

CONSTANT Options   \* what optstring says: whether an option takes an argument

First == [ind |-> 1, off |-> -1]
NoArg == <<>>
Got(opt, arg, ind, off) == [opt |-> opt, arg |-> arg, at |-> [ind |-> ind, off |-> off]]
IsOption(word) == Len(word) > 1 /\ word[1] = "-"

\* The characters of a word behind the first n.
Behind(word, n) == SubSeq(word, n + 1, Len(word))

\* getoptscmd starts over when there are fewer parameters than there were.
getopts(words, pos) ==
    LET at == IF pos.ind > Len(words) + 1 THEN First ELSE pos
        inside == at.ind > 1 /\ at.off >= 0 /\ at.off < Len(words[at.ind - 1])
        over == ~inside /\ (at.ind > Len(words) \/ ~IsOption(words[at.ind]))
        word == IF inside THEN words[at.ind - 1] ELSE words[at.ind]
        next == IF inside THEN at.ind ELSE at.ind + 1
        p == IF inside THEN at.off + 1 ELSE 2   \* of the option, from 1
        opt == word[p]
    IN  IF over THEN Got("end", NoArg, at.ind, -1)
        ELSE IF ~inside /\ word = <<"-", "-">> THEN Got("end", NoArg, next, -1)
        ELSE IF opt \notin DOMAIN Options THEN Got("?", NoArg, next, p)
        ELSE IF ~Options[opt] THEN Got(opt, NoArg, next, p)
        ELSE IF p < Len(word) THEN Got(opt, Behind(word, p), next, -1)
        ELSE IF next > Len(words) THEN Got("?", NoArg, next, -1)
        ELSE Got(opt, words[next], next + 1, -1)

-----------------------------------------------------------------------------
(***************************************************************************)
(* What the parameters say, from left to right: the options with their     *)
(* arguments, and last where the operands begin.                           *)
(***************************************************************************)
Read(opt, arg) == <<[opt |-> opt, arg |-> arg]>>
Known(c) == IF c \in DOMAIN Options THEN c ELSE "?"
Takes(c) == c \in DOMAIN Options /\ Options[c]

Said(words) ==
    LET from[i \in 1..Len(words) + 2] ==
            LET word == words[i]
                taking == SelectInSeq(word, Takes)
                plain == IF taking = 0 THEN Tail(word) ELSE SubSeq(word, 2, taking - 1)
                alone == [k \in DOMAIN plain |-> [opt |-> Known(plain[k]), arg |-> NoArg]]
            IN  IF i > Len(words) \/ ~IsOption(word) THEN Read("end", i)
                ELSE IF word = <<"-", "-">> THEN Read("end", i + 1)
                ELSE IF taking = 0 THEN alone \o from[i + 1]
                ELSE IF taking < Len(word)
                THEN alone \o Read(word[taking], Behind(word, taking)) \o from[i + 1]
                ELSE IF i = Len(words) THEN alone \o Read("?", NoArg) \o from[i + 1]
                ELSE alone \o Read(word[taking], words[i + 1]) \o from[i + 2]
    IN  from[1]
=============================================================================
