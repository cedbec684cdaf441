------------------------------- MODULE Redir -------------------------------
(***************************************************************************)
(* Redirections (redir.c) as operators on the descriptors of the shell, a  *)
(* record [open, list]: open tells what each descriptor refers to, list is *)
(* redirlist, the stack of what commands that still run have saved.        *)
(*                                                                         *)
(* A redirection is [type, fd, from]: a file that opens or does not, a     *)
(* copy of a descriptor (n>&m), or a closing (n>&-).                       *)
(***************************************************************************)
EXTENDS Integers, Sequences, SequencesExt, FiniteSetsExt

CONSTANTS
    UserFds,   \* descriptors scripts name: some of 0..9
    LowFds,    \* all descriptors open() may return: those and more below 10
    SaveFds,   \* descriptors from 10 on, where the shell keeps copies
    Closed, File

EMPTY == -2         \* not touched by the command
CLOSED == -1        \* was closed before
REALLY_CLOSED == -3 \* was closed, and is again
NoFd == -2          \* openredirect: nothing to do

\* The kernel gives the lowest number that is free.
Fresh(open, fds) == Min({n \in fds : open[n] = Closed})

\* dup2(from, to), close(from)
Dup2(open, from, to) == [open EXCEPT ![to] = open[from]]
Close(open, n) == [open EXCEPT ![n] = Closed]

\* The descriptor a redirection opens, and open after that.
openredirect(open, r) ==
    CASE r.type = "file"  -> LET f == Fresh(open, LowFds) IN
                             [fd |-> f, open |-> [open EXCEPT ![f] = File]]
      [] r.type = "dup"   -> [fd |-> IF r.from = r.fd THEN NoFd ELSE r.from, open |-> open]
      [] r.type = "close" -> [fd |-> CLOSED, open |-> open]

\* fcntl(F_DUPFD, 10) and close; a closed descriptor has no copy.
savefd(open, fd) ==
    IF open[fd] = Closed THEN [fd |-> CLOSED, open |-> open]
    ELSE LET new == Fresh(open, SaveFds)
         IN  [fd |-> new, open |-> Close(Dup2(open, fd, new), fd)]

pushredir(rd) == [rd EXCEPT !.list = <<[n \in UserFds |-> EMPTY]>> \o @]

\* The descriptor number is made to refer to newfd.
dupredirect(open, r, newfd) ==
    IF r.type = "dup" THEN Dup2(open, newfd, r.fd)
    ELSE IF r.type = "close" THEN Close(open, r.fd)
    ELSE Close(Dup2(open, newfd, r.fd), newfd)
Bad(open, r, newfd) == r.type = "dup" /\ open[newfd] = Closed

\* One redirection: done is [rd, err].
Redirected(done, r) ==
    LET o == openredirect(done.rd.open, r)
        old == Head(done.rd.list)[r.fd]
        saves == old = EMPTY /\ o.fd # r.fd
        s == IF saves THEN savefd(o.open, r.fd)
             ELSE [fd |-> IF old = EMPTY THEN CLOSED ELSE old, open |-> o.open]
        kept == [done.rd EXCEPT !.open = s.open,
                     !.list[1][r.fd] = IF s.fd = o.fd THEN REALLY_CLOSED ELSE s.fd]
    IN  IF done.err \/ (r.type # "fail" /\ o.fd = NoFd) THEN done
        ELSE IF r.type = "fail" THEN [done EXCEPT !.err = TRUE]
        ELSE IF o.fd = r.fd /\ ~saves THEN [done EXCEPT !.rd = kept]
        ELSE IF Bad(s.open, r, o.fd) THEN [rd |-> kept, err |-> TRUE]
        ELSE [done EXCEPT !.rd = [kept EXCEPT !.open = dupredirect(s.open, r, o.fd)]]

\* The redirections of a command, the first that fails ends them.
redirect(rd, redirs) ==
    LET done[k \in 0..Len(redirs)] == IF k = 0 THEN [rd |-> rd, err |-> FALSE]
                                      ELSE Redirected(done[k - 1], redirs[k])
    IN  done[Len(redirs)]

\* Mutants of popredir: a descriptor that was closed is not closed again; a
\* dropped copy is left open.
popredirLeaves(rd, drop) ==
    LET tab == Head(rd.list)
        copies == {tab[n] : n \in UserFds} \cap SaveFds
        back == {n \in UserFds : drop = 0 /\ tab[n] >= 0}
    IN  [open |-> [n \in DOMAIN rd.open |-> IF n \in copies THEN Closed
                                           ELSE IF n \in back THEN rd.open[tab[n]] ELSE rd.open[n]],
         list |-> Tail(rd.list)]
popredirKeeps(rd, drop) ==
    LET tab == Head(rd.list)
        copies == IF drop = 1 THEN {} ELSE {tab[n] : n \in UserFds} \cap SaveFds
        back == {n \in UserFds : drop = 0 /\ tab[n] >= 0}
    IN  [open |-> [n \in DOMAIN rd.open |->
             CASE n \in copies \/ (n \in UserFds /\ drop = 0 /\ tab[n] = CLOSED) -> Closed
               [] n \in back -> rd.open[tab[n]]
               [] OTHER -> rd.open[n]],
         list |-> Tail(rd.list)]

\* Undo the last command's redirections; exec drops the copies only.
popredir(rd, drop) ==
    LET tab == Head(rd.list)
        copies == {tab[n] : n \in UserFds} \cap SaveFds
        left == {n \in UserFds : drop = 1 \/ tab[n] \in {EMPTY, REALLY_CLOSED}}
    IN  [open |-> [n \in DOMAIN rd.open |->
             CASE n \in copies \/ (n \in UserFds \ left /\ tab[n] = CLOSED) -> Closed
               [] n \in UserFds \ left /\ tab[n] # CLOSED -> rd.open[tab[n]]
               [] OTHER -> rd.open[n]],
         list |-> Tail(rd.list)]

\* Undo redirections until stop of them are left.
unwindredir(rd, stop) ==
    LET pops == Len(rd.list) - stop
        left[k \in 0..pops] == IF k = 0 THEN rd ELSE popredir(left[k - 1], 0)
    IN  IF pops =< 0 THEN rd ELSE left[pops]

=============================================================================
