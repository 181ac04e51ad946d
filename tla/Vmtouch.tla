------------------------------ MODULE Vmtouch ------------------------------
(***************************************************************************)
(* vmtouch/vmtouch.c: a crawl over files and directories that touches,     *)
(* evicts or locks their pages, alone or as a daemon whose parent waits    *)
(* for it.  Any system call may fail; a visit of the crawl is one step.    *)
(* Names are nodes of a small file system:                                 *)
(*   fs[n] = [type, pages] with entries and its number ino, for a directory, *)
(*   or to, for a link                                                     *)
(***************************************************************************)
EXTENDS Integers, Sequences, SequencesExt, FiniteSets, FiniteSetsExt, Functions

CONSTANTS FileSystems,      \* what the crawl may find; argv is node 1
          OptionSets,       \* sets of options on the command line
          MAX_CRAWL_DEPTH,
          MaxPages,         \* o_max_file_size, in pages
          RLimit            \* open files the process starts with

\* Nodes are numbered from 1; entries and links lead to nodes.
ASSUME TouchAssumption ==
  /\ MaxPages \in Nat
  /\ \A f \in FileSystems :
       /\ DOMAIN f = 1 .. Len(f) /\ Len(f) \in Nat \ {0}
       /\ \A n \in DOMAIN f :
            /\ f[n].pages \in Nat
            /\ f[n].type = "dir" => f[n].entries \in Seq(DOMAIN f) /\ f[n].ino \in Nat
            /\ f[n].type = "link" => f[n].to \in DOMAIN f

VARIABLES opts, fs, root,   \* the command line, the files, geteuid() = 0
          at,               \* "main", "crawl", "dying", "gone" or "locked" in memory for ever
          code,             \* the exit code
          argv,             \* names of the command line that are left
          stack,            \* directories being read: [dir, rest]
          total_pages, total_pages_in_core, total_files, total_dirs,
          resident,         \* pages in memory, <<file, page>>
          mapped,           \* the files kept mapped, and open
          locked,           \* pages locked
          open, limit,      \* file descriptors
          faulty,           \* a system call has failed
          bailed,           \* a directory was left where a path was too long
          parent, pcode, ready, pipe,  \* wait_for_child() and the exit pipe
          late              \* the child ended after the parent's last waitpid()

child == <<at, code, argv, stack, total_pages, total_pages_in_core, total_files, total_dirs,
           resident, mapped, locked, open, limit, faulty, bailed>>
touchVars == <<opts, fs, root, child, parent, pcode, ready, pipe, late>>

----------------------------------------------------------------------------
(* Functions of numbers                                                    *)

RESIDENCY_CHART_WIDTH == 3
bytes2pages(bytes, pagesize) == (bytes + pagesize - 1) \div pagesize
\* A number and its unit; K bytes are a kilobyte.
pretty_print_size(n, K) ==
  LET k == n \div K  m == k \div K IN
  IF n < K THEN <<n, "">> ELSE IF k < K THEN <<k, "k">> ELSE IF m < K THEN <<m, "m">> ELSE <<m \div K, "g">>
\* val is what strtod finds; -1 is the end of the program.
parse_size(val, unit, K) ==
  IF unit \notin {"", "k", "m", "g"} \/ val <= 0 THEN -1
  ELSE val * [u \in {"", "k", "m", "g"} |-> IF u = "" THEN 1 ELSE IF u = "k" THEN K ELSE IF u = "m" THEN K * K ELSE K * K * K][unit]
\* One character for as many pages as it takes to fit the width.
print_page_residency_chart(core) ==
  LET n == Len(core)
      per == IF n <= RESIDENCY_CHART_WIDTH THEN 1 ELSE (n \div RESIDENCY_CHART_WIDTH) + 1
      Char(j, curr) == IF curr = j THEN "O" ELSE IF curr = 0 THEN " " ELSE "o"
      step(s, p) == LET curr == s.curr + p IN
        IF s.j + 1 = per THEN [j |-> 0, curr |-> 0, out |-> Append(s.out, Char(per, curr)), sum |-> s.sum + p]
        ELSE [j |-> s.j + 1, curr |-> curr, out |-> s.out, sum |-> s.sum + p]
      last == FoldLeft(step, [j |-> 0, curr |-> 0, out |-> <<>>, sum |-> 0], core)
  IN  <<IF last.j = 0 THEN last.out ELSE Append(last.out, Char(last.j, last.curr)), last.sum>>

NumberInputs == ({"size"} \X (0 .. 70)) \cup ({"chart"} \X UNION {[1 .. n -> 0 .. 1] : n \in 1 .. 7})
RunNumber(q) ==
  IF q[1] = "chart" THEN print_page_residency_chart(q[2])
  ELSE [pages |-> bytes2pages(q[2], 4), size |-> pretty_print_size(q[2], 4),
        back |-> parse_size(pretty_print_size(q[2], 4)[1], pretty_print_size(q[2], 4)[2], 4)]
\* Pages hold all the bytes and no page more; a size is printed rounded down
\* to its unit, and -m reads it as that; no chart is wider than it may be, and
\* the characters stand for the pages in order.
CorrectNumber(q, out) ==
  IF q[1] = "chart"
  THEN LET n == Len(q[2])  per == IF n <= RESIDENCY_CHART_WIDTH THEN 1 ELSE (n \div RESIDENCY_CHART_WIDTH) + 1
           Part(i) == {k \in 1 .. n : (k - 1) \div per = i - 1}
       IN  /\ Len(out[1]) <= RESIDENCY_CHART_WIDTH /\ out[2] = Cardinality({k \in 1 .. n : q[2][k] = 1})
           /\ UNION {Part(i) : i \in DOMAIN out[1]} = 1 .. n
           /\ \A i \in DOMAIN out[1] : /\ out[1][i] = "O" <=> \A k \in Part(i) : q[2][k] = 1
                                       /\ out[1][i] = " " <=> \A k \in Part(i) : q[2][k] = 0
  ELSE /\ 4 * out.pages >= q[2] /\ 4 * out.pages < q[2] + 4
       /\ q[2] > 0 => out.back <= q[2] /\ out.size[1] * (q[2] - out.back) < q[2]

----------------------------------------------------------------------------
(* main: the command line                                                  *)

o(x) == x \in opts
o_lock == o("l")
o_lockall == o("L")
o_touch == \E x \in {"t", "l", "L"} : o(x)
o_daemon == o("d")
o_wait == o("w")
o_quiet == o("q") \/ (o_daemon /\ ~o_wait)
o_verbose == o("v") /\ ~(o_daemon /\ ~o_wait)
BadOptions ==
  \/ o_touch /\ o("e")
  \/ o("e") /\ o_lock
  \/ o_lock /\ o_lockall
  \/ o_daemon /\ ~o_lock /\ ~o_lockall
  \/ o_wait /\ ~o_daemon
  \/ o_quiet /\ o_verbose

Files == {n \in DOMAIN fs : fs[n].type = "file"}
PagesOf(n) == {n} \X (1 .. fs[n].pages)
TouchInit ==
  /\ opts \in OptionSets /\ fs \in FileSystems /\ root \in BOOLEAN
  /\ at = "main" /\ code = 0 /\ argv = <<1>> /\ stack = <<>>
  /\ total_pages = 0 /\ total_pages_in_core = 0 /\ total_files = 0 /\ total_dirs = 0
  /\ resident \in {{}, {n \in Files \X (1 .. MaxPages) : n[2] = 1 /\ fs[n[1]].pages > 0}}
  /\ mapped = <<>> /\ locked = {} /\ open = 0 /\ limit = RLimit
  /\ faulty = FALSE /\ bailed = FALSE
  /\ parent = "none" /\ pcode = 0 /\ ready = FALSE /\ pipe = <<>> /\ late = FALSE

\* A child of go_daemon, or a process that has none, tells what comes of it.
send_exit_signal(c) == pipe' = IF o_wait THEN Append(pipe, c) ELSE pipe
\* The process is about to end; fatal() is everywhere.
fatal == at' = "dying" /\ code' = 1 /\ send_exit_signal(1) /\ UNCHANGED argv

\* go_daemon(): without -w the parent leaves at once.
Main ==
  /\ at = "main"
  /\ IF BadOptions THEN fatal /\ UNCHANGED <<parent, pcode>>
     ELSE /\ at' = "crawl" /\ parent' = IF ~o_daemon THEN "none" ELSE IF o_wait THEN "select" ELSE "gone"
          /\ UNCHANGED <<code, argv, pcode, pipe>>
  /\ UNCHANGED <<opts, fs, root, stack, total_pages, total_pages_in_core, total_files, total_dirs,
                 resident, mapped, locked, open, limit, faulty, bailed, ready, late>>

----------------------------------------------------------------------------
(* The crawl                                                               *)

\* The next name to visit: of argv, or of the directory read last.
Pending == at = "crawl" /\ (IF stack = <<>> THEN argv # <<>> ELSE Head(stack).rest # <<>>)
Name == IF stack = <<>> THEN Head(argv) ELSE Head(Head(stack).rest)
\* What stat(), or lstat(), says of a name.
Node(n) == IF o("f") /\ fs[n].type = "link" THEN fs[n].to ELSE n
\* readdir(), or main, goes on to the next name.
Rest == IF stack = <<>> THEN <<>> ELSE [stack EXCEPT ![1] = [dir |-> @.dir, rest |-> Tail(@.rest)]]
Visited == argv' = (IF stack = <<>> THEN Tail(argv) ELSE argv) /\ UNCHANGED code
KeepCounts == UNCHANGED <<total_pages, total_pages_in_core, total_files, total_dirs>>
KeepFiles == UNCHANGED <<resident, mapped, locked>>
Others == UNCHANGED <<opts, fs, root, parent, pcode, ready, late>>

\* A warning, and the name is left out: it cannot be read, is a link that is
\* not followed or goes nowhere, or is no file.
Skip(failed) ==
  /\ Pending
  /\ failed \/ fs[Node(Name)].type \in {"link", "other"}
  /\ stack' = Rest /\ Visited /\ faulty' = (faulty \/ failed)
  /\ KeepCounts /\ KeepFiles /\ UNCHANGED <<at, open, limit, bailed, pipe>> /\ Others

\* increment_nofile_rlimit() and another try, until a descriptor is free.
Opens == open < limit \/ root
OpenFile == limit' = IF open < limit THEN limit ELSE open + 1

\* A directory on the way has the same st_ino; st_dev is not looked at.
Loop(n) == \E i \in DOMAIN stack : fs[stack[i].dir].ino = fs[n].ino
\* A directory on the way to itself is left out.
SkipLoop ==
  /\ Pending /\ fs[Node(Name)].type = "dir" /\ Loop(Node(Name))
  /\ stack' = Rest /\ Visited
  /\ KeepCounts /\ KeepFiles /\ UNCHANGED <<at, open, limit, faulty, bailed, pipe>> /\ Others
\* total_dirs counts a directory that cannot be opened.
EnterDirectory(failed) ==
  /\ Pending /\ fs[Node(Name)].type = "dir" /\ ~Loop(Node(Name))
  /\ faulty' = (faulty \/ failed)
  /\ IF Len(stack) = MAX_CRAWL_DEPTH
     THEN fatal /\ UNCHANGED <<stack, total_dirs, open, limit>>
     ELSE /\ total_dirs' = total_dirs + 1
          /\ IF failed THEN stack' = Rest /\ Visited /\ UNCHANGED <<at, open, limit, pipe>>
             ELSE IF ~Opens THEN fatal /\ UNCHANGED <<stack, open, limit>>
             ELSE /\ OpenFile /\ open' = open + 1 /\ Visited
                  /\ stack' = <<[dir |-> Node(Name), rest |-> fs[Node(Name)].entries]>> \o Rest
                  /\ UNCHANGED <<at, pipe>>
  /\ KeepFiles /\ UNCHANGED <<total_pages, total_pages_in_core, total_files, bailed>> /\ Others
\* After its last name, or at the first whose path is too long (which one that
\* is depends on the names, any may be): "goto bail", and the rest is not read.
LeaveDirectory(long) ==
  /\ at = "crawl" /\ stack # <<>> /\ (Head(stack).rest # <<>> <=> long)
  /\ stack' = Tail(stack) /\ open' = open - 1
  /\ bailed' = (bailed \/ long)
  /\ KeepCounts /\ KeepFiles /\ UNCHANGED <<at, code, argv, limit, faulty, pipe>> /\ Others

\* vmtouch_file, with the first system call that fails in it.  An empty file
\* and one that is too large are only counted.
VisitFile(failed) ==
  /\ Pending /\ fs[Node(Name)].type = "file"
  /\ total_files' = total_files + 1
  /\ faulty' = (faulty \/ failed # "none")
  /\ LET n == Node(Name)
         pages == PagesOf(n)
         keep == o_lock \/ o_lockall
     IN  IF fs[n].pages = 0 \/ fs[n].pages > MaxPages \/ failed = "open"
         THEN /\ failed \in {"none", "open"} /\ stack' = Rest /\ Visited
              /\ UNCHANGED <<at, open, limit, pipe, total_pages, total_pages_in_core>> /\ KeepFiles
         ELSE IF ~Opens
         THEN fatal /\ UNCHANGED <<stack, open, limit, total_pages, total_pages_in_core>> /\ KeepFiles
         ELSE IF failed = "mmap"
         THEN /\ OpenFile /\ stack' = Rest /\ Visited
              /\ UNCHANGED <<at, open, pipe, total_pages, total_pages_in_core>> /\ KeepFiles
         ELSE /\ OpenFile /\ total_pages' = total_pages + fs[n].pages
              /\ failed = "mincore" => ~o("e")
              /\ failed = "mlock" => o_lock
              /\ IF failed \in {"mincore", "mlock"}
                 THEN fatal /\ UNCHANGED <<stack, open, total_pages_in_core>> /\ KeepFiles
                 ELSE /\ stack' = Rest /\ Visited /\ UNCHANGED <<at, pipe>>
                      /\ total_pages_in_core' =
                           IF o("e") THEN total_pages_in_core ELSE total_pages_in_core + Cardinality(pages \cap resident)
                      /\ resident' = IF o("e") /\ failed # "fadvise" THEN resident \ pages
                                     ELSE IF o_touch THEN resident \cup pages ELSE resident
                      /\ locked' = IF o_lock THEN locked \cup pages ELSE locked
                      /\ mapped' = IF keep THEN Append(mapped, n) ELSE mapped
                      /\ open' = IF keep THEN open + 1 ELSE open
  /\ UNCHANGED <<total_dirs, bailed>> /\ Others

\* After the last name: mlockall() for what is mapped, a report, and a daemon
\* tells its parent and stays.
Finish(failed) ==
  /\ at = "crawl" /\ stack = <<>> /\ argv = <<>>
  /\ failed => o_lockall
  /\ faulty' = (faulty \/ failed)
  /\ IF failed THEN fatal /\ UNCHANGED locked
     ELSE /\ UNCHANGED <<code, argv>>
          /\ locked' = IF o_lockall THEN locked \cup UNION {PagesOf(n) : n \in Range(mapped)} ELSE locked
          /\ IF o_lock \/ o_lockall THEN at' = "locked" /\ send_exit_signal(0) ELSE at' = "gone" /\ UNCHANGED pipe
  /\ UNCHANGED <<stack, open, limit, resident, mapped, bailed>> /\ KeepCounts /\ Others

\* With the process go its descriptors, its mappings and its locks.
Ends ==
  /\ at' = "gone" /\ stack' = <<>> /\ mapped' = <<>> /\ locked' = {} /\ open' = 0
  /\ late' = (parent \in {"read", "gone"})
  /\ UNCHANGED <<opts, fs, root, argv, resident, limit, faulty, bailed, pipe, parent, pcode, ready>>
  /\ KeepCounts
\* exit(1), after the parent has been told; and a daemon that is killed.
Exit == at = "dying" /\ Ends /\ UNCHANGED code
Kill == at \in {"crawl", "locked"} /\ parent # "none" /\ Ends /\ code' = 9

----------------------------------------------------------------------------
(* wait_for_child()                                                        *)

\* select(), for a second: is there something to read?
ParentSelect ==
  /\ parent = "select" /\ parent' = "waitpid" /\ ready' = (pipe # <<>>)
  /\ UNCHANGED <<opts, fs, root, child, pcode, pipe, late>>
\* Mutated form: what was said counts, and only silence makes it look further.
ParentWaitpidLast ==
  /\ parent = "waitpid"
  /\ IF ready THEN parent' = "read" /\ UNCHANGED pcode
     ELSE IF at = "gone" THEN parent' = "gone" /\ pcode' = 1 ELSE parent' = "select" /\ UNCHANGED pcode
  /\ UNCHANGED <<opts, fs, root, child, ready, pipe, late>>
ParentWaitpid ==
  /\ parent = "waitpid"
  /\ IF at = "gone" THEN parent' = "gone" /\ pcode' = 1
     ELSE parent' = (IF ready THEN "read" ELSE "select") /\ UNCHANGED pcode
  /\ UNCHANGED <<opts, fs, root, child, ready, pipe, late>>
ParentRead ==
  /\ parent = "read"
  /\ parent' = "gone" /\ pcode' = Head(pipe) /\ pipe' = Tail(pipe)
  /\ UNCHANGED <<opts, fs, root, child, ready, late>>

TouchNext ==
  \/ Main \/ SkipLoop \/ Exit \/ Kill \/ ParentSelect \/ ParentWaitpid \/ ParentRead
  \/ \E long \in BOOLEAN : LeaveDirectory(long)
  \/ \E failed \in BOOLEAN : Skip(failed) \/ EnterDirectory(failed) \/ Finish(failed)
  \/ \E failed \in {"none", "open", "mmap", "fadvise", "mincore", "mlock"} : VisitFile(failed)

TouchSpec == TouchInit /\ [][TouchNext]_touchVars

----------------------------------------------------------------------------
(* Properties                                                              *)

\* The nodes some path of names leads to: the least set that holds the name
\* given and, of every directory in it, all entries.
Closed(S) ==
  /\ Node(1) \in S
  /\ \A d \in S : fs[d].type = "dir" => \A k \in DOMAIN fs[d].entries : Node(fs[d].entries[k]) \in S
Found == {n \in DOMAIN fs : \A S \in SUBSET DOMAIN fs : Closed(S) => n \in S}
\* The pages of the files that are not too large.
Wanted == UNION {PagesOf(n) : n \in {n \in Found : fs[n].type = "file" /\ fs[n].pages <= MaxPages}}

\* Every directory has an st_ino of its own, as on a single device.
OwnNumbers ==
  \A m, n \in DOMAIN fs : fs[m].type = "dir" /\ fs[n].type = "dir" /\ fs[m].ino = fs[n].ino => m = n
\* Nothing has kept the crawl from what there is.
Undisturbed == ~faulty /\ ~bailed /\ OwnNumbers

\* A parent that waited and exits with 0 leaves a process behind that got to
\* the end of the crawl and has locked whatever it mapped, unless that process
\* was killed after the parent had looked for it for the last time.  That is
\* all that is there, through links and loops, if no call failed, no path was
\* too long and no two directories share a number.  No descriptor is lost on
\* the way, whichever call fails, and no more pages are in memory than there are.
LockedWhenToldSo ==
  LET told == parent = "gone" /\ o_wait /\ pcode = 0
      done == at \in {"gone", "locked"} /\ code = 0
  IN  /\ told => at = "locked" \/ late
      /\ at = "locked" => stack = <<>> /\ argv = <<>> /\ \A n \in Range(mapped) : PagesOf(n) \subseteq locked
      /\ at = "locked" /\ Undisturbed => Wanted \subseteq locked
      /\ open = Len(stack) + Len(mapped)
      /\ total_pages_in_core <= total_pages
      /\ done /\ Undisturbed /\ o_touch => Wanted \subseteq resident
      /\ done /\ Undisturbed /\ o("e") => Wanted \cap resident = {}
=============================================================================
