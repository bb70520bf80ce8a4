------------------------------- MODULE Startup -------------------------------
(***************************************************************************)
(* Starting a bytecode program (startup.c, fix_code.c, dynlink.c): finding   *)
(* the file among the arguments, reading its sections, binding its           *)
(* primitives, threading its code, and the parameters of OCAMLRUNPARAM.      *)
(* A file is a sequence of cells <<kind, number>>; TocEntry cells make a     *)
(* section descriptor and TrailerSize the trailer.                          *)
(***************************************************************************)
EXTENDS Integers, Sequences, FiniteSets, TLC, Jobs

CONSTANTS
  StartFiles,     \* records of a head, a sequence of sections and a number of cells cut from the end
  StartOptions,   \* sequences of options of ocamlrun
  StartArgs,      \* sequences of arguments of the program
  Builtin,        \* primitives of the runtime system
  Dlls,           \* <<directory, library>> -> the primitives it exports
  LdLibraryPath,  \* directories of CAML_LD_LIBRARY_PATH, a sequence
  LdConf,         \* directories listed in ld.conf, a sequence
  CodeBlocks,     \* sequences of instructions
  SizeBase,       \* 2^16, the factor of the number of block cases of a SWITCH
  RunParams,      \* sequences of <<letter, digits, multiplier>>
  Kilo            \* 1024

LOCAL US == INSTANCE SequencesExt

(***************************************************************************)
(* Files.                                                                  *)
(***************************************************************************)
TocEntry == 2
TrailerSize == 3
Terminator == <<"nul", 0>>
FileHead(head) ==
  CASE head = "#!" -> <<<<"#", 0>>, <<"!", 0>>, <<"junk", 1>>>> [] head = "elf" -> <<<<"junk", 1>>, <<"junk", 2>>, <<"junk", 3>>>> [] OTHER -> <<>>
\* What the linker writes: the sections, the table of contents, the trailer.
FileCells(f) ==
  LET whole == FileHead(f.head) \o US!FlattenSeq([i \in DOMAIN f.sections |-> f.sections[i].data])
                 \o US!FlattenSeq([i \in DOMAIN f.sections |-> <<<<f.sections[i].name, 0>>, <<"len", Len(f.sections[i].data)>>>>])
                 \o <<<<"num", Len(f.sections)>>, <<"magic", 1>>, <<"magic", 2>>>>
  IN SubSeq(whole, 1, Len(whole) - f.cut)

\* lseek(fd, - n, SEEK_END): no effect if the file is shorter.
SeekEnd(cells, n, pos) == IF n > Len(cells) THEN pos ELSE Len(cells) - n
ReadAt(cells, pos, n) == SubSeq(cells, pos + 1, IF pos + n > Len(cells) THEN Len(cells) ELSE pos + n)

BAD_BYTECODE == -2
\* The number of sections, or an error.
read_trailer(cells, pos) ==
  LET t == ReadAt(cells, SeekEnd(cells, TrailerSize, pos), TrailerSize) IN
  IF Len(t) < TrailerSize \/ Tail(t) # <<<<"magic", 1>>, <<"magic", 2>>>> THEN BAD_BYTECODE ELSE t[1][2]
caml_attempt_open(cells, do_open_script) ==
  LET buf == ReadAt(cells, 0, 2) IN
  IF ~ do_open_script /\ (Len(buf) < 2 \/ buf = <<<<"#", 0>>, <<"!", 0>>>>) THEN BAD_BYTECODE
  ELSE read_trailer(cells, IF do_open_script THEN 0 ELSE 2)

\* The descriptors, or none if the table cannot be read.
caml_read_section_descriptors(cells, num) ==
  LET toc == ReadAt(cells, SeekEnd(cells, TrailerSize + num * TocEntry, Len(cells)), num * TocEntry) IN
  IF Len(toc) # num * TocEntry THEN <<>> ELSE [i \in 1 .. num |-> [name |-> toc[2 * i - 1][1], len |-> toc[2 * i][2]]]

\* From the last section back, adding up lengths.
caml_seek_optional_section(cells, toc, name) ==
  LET I == {i \in DOMAIN toc : toc[i].name = name}
      ofs(i) == TrailerSize + Len(toc) * TocEntry + US!FoldLeft(LAMBDA a, s : a + s.len, 0, SubSeq(toc, i, Len(toc)))
  IN IF I = {} THEN [len |-> -1, pos |-> 0]
     ELSE LET i == CHOOSE j \in I : \A k \in I : j >= k IN [len |-> toc[i].len, pos |-> SeekEnd(cells, ofs(i), 0)]
\* NULL is <<>>; the data ends with a Terminator of the reader.
read_section(cells, toc, name) ==
  LET s == caml_seek_optional_section(cells, toc, name) IN
  IF s.len = -1 THEN <<>> ELSE Append(ReadAt(cells, s.pos, s.len), Terminator)

\* for (p = list; *p != 0; p += strlen(p) + 1): names, each followed by a Terminator, up to an empty one.
RECURSIVE ListedNames(_)
ListedNames(list) ==
  IF list = <<>> \/ Head(list) = Terminator THEN <<>>
  ELSE LET end == CHOOSE k \in DOMAIN list : list[k] = Terminator /\ \A j \in 1 .. k - 1 : list[j] # Terminator
       IN <<list[1][2]>> \o ListedNames(SubSeq(list, end + 1, Len(list)))

(***************************************************************************)
(* Primitives.                                                             *)
(***************************************************************************)
\* The first directory of the path that has the library; 0, the system's own search, finds none.
caml_search_dll_in_path(path, lib) ==
  LET D == {i \in DOMAIN path : <<path[i], lib>> \in DOMAIN Dlls} IN IF D = {} THEN 0 ELSE path[CHOOSE i \in D : \A j \in D : i <= j]
lookup_primitive(libs, prim) ==
  LET L == {i \in DOMAIN libs : prim \in Dlls[libs[i]]} IN
  CASE prim \in Builtin -> <<0, 0>> [] prim \notin Builtin /\ L # {} -> libs[CHOOSE i \in L : \A j \in L : i <= j] [] OTHER -> <<>>
caml_build_primitive_table(options, lib_path, libs, req_prims) ==
  LET path == options \o LdLibraryPath \o ListedNames(lib_path) \o LdConf
      opened == [i \in DOMAIN ListedNames(libs) |-> <<caml_search_dll_in_path(path, ListedNames(libs)[i]), ListedNames(libs)[i]>>]
      table == [i \in DOMAIN ListedNames(req_prims) |-> lookup_primitive(opened, ListedNames(req_prims)[i])]
  IN IF \E i \in DOMAIN opened : opened[i][1] = 0 THEN [fatal |-> TRUE, prims |-> <<>>, libs |-> <<>>]
     ELSE [fatal |-> \E i \in DOMAIN table : table[i] = <<>>, prims |-> table, libs |-> opened]

(***************************************************************************)
(* The command line.  -I is followed by a directory <<"dir", k>>; options   *)
(* are <<letter, 0>>, other arguments <<"arg", k>>, the program <<"prog", 0>>.*)
(***************************************************************************)
OptionLetters == {"-v", "-version", "-p", "-b", "-I", "-z"}
\* The position of the bytecode file, the directories of -I, and whether an option stopped the runtime.
RECURSIVE parse_command_line(_, _, _)
parse_command_line(argv, i, dirs) ==
  IF i > Len(argv) \/ argv[i][1] \notin OptionLetters THEN [pos |-> i, dirs |-> dirs, stop |-> ""]
  ELSE CASE argv[i][1] \in {"-version", "-p"} -> [pos |-> i, dirs |-> dirs, stop |-> "exit"]
         [] argv[i][1] = "-z" -> [pos |-> i, dirs |-> dirs, stop |-> "fatal"]
         [] argv[i][1] = "-I" /\ i < Len(argv) -> parse_command_line(argv, i + 2, Append(dirs, argv[i + 1][2]))
         [] OTHER -> parse_command_line(argv, i + 1, dirs)

Outcome(end, argv, code, data, prims) == [end |-> end, argv |-> argv, code |-> code, data |-> data, prims |-> prims]
Stopped(end) == Outcome(end, <<>>, <<>>, <<>>, <<>>)
RuntimeFile == FileHead("elf")          \* ocamlrun itself, no bytecode
NamedFile(name, cells) == IF name[1] = "prog" THEN cells ELSE IF name[1] = "ocamlrun" THEN RuntimeFile ELSE <<>>

\* From an open file with num sections to the program's start.
LoadProgram(cells, num, dirs, argv) ==
  LET toc == caml_read_section_descriptors(cells, num)
      code == caml_seek_optional_section(cells, toc, "CODE")
      data == caml_seek_optional_section(cells, toc, "DATA")
      codecells == ReadAt(cells, code.pos, code.len)
      prims == caml_build_primitive_table(dirs, read_section(cells, toc, "DLPT"), read_section(cells, toc, "DLLS"), read_section(cells, toc, "PRIM"))
  IN IF code.len = -1 \/ Len(codecells) # code.len \/ read_section(cells, toc, "PRIM") = <<>> \/ prims.fatal \/ data.len = -1 THEN Stopped("fatal")
     ELSE Outcome("run", argv, codecells, ReadAt(cells, data.pos, data.len), prims.prims)

\* The executable first, then the file named on the command line.
caml_main(argv, self, cells) ==
  LET first == caml_attempt_open(NamedFile(self, cells), FALSE)
      cl == parse_command_line(argv, 2, <<>>)
      second == caml_attempt_open(NamedFile(argv[cl.pos], cells), TRUE)
  IN IF first >= 0 THEN LoadProgram(NamedFile(self, cells), first, <<>>, argv)
     ELSE CASE cl.stop # "" -> Stopped(cl.stop)
            [] cl.stop = "" /\ cl.pos > Len(argv) -> Stopped("fatal")
            [] OTHER -> IF second < 0 THEN Stopped("fatal")
                        ELSE LoadProgram(NamedFile(argv[cl.pos], cells), second, cl.dirs, SubSeq(argv, cl.pos, Len(argv)))

(***************************************************************************)
(* Threaded code: each opcode is replaced, no operand is.                   *)
(***************************************************************************)
SWITCH == 3
CLOSUREREC == 4
STOP == 5
Operands == 0 :> 0 @@ 1 :> 1 @@ 2 :> 2 @@ STOP :> 0
Threaded(op) == -1 - op
RECURSIVE ThreadFrom(_, _)
ThreadFrom(code, p) ==
  IF p > Len(code) THEN [code |-> code, p |-> p]
  ELSE LET instr == IF code[p] < 0 \/ code[p] > STOP THEN STOP ELSE code[p]
           skip == CASE instr = SWITCH -> 1 + (code[p + 1] % SizeBase) + (code[p + 1] \div SizeBase)
                     [] instr = CLOSUREREC -> 2 + code[p + 1]
                     [] OTHER -> Operands[instr]
       IN ThreadFrom([code EXCEPT ![p] = Threaded(instr)], p + 1 + skip)
caml_thread_code(code) == ThreadFrom(code, 1)

(***************************************************************************)
(* OCAMLRUNPARAM, a sequence of characters; only decimal numbers here.      *)
(***************************************************************************)
Decimals == "0" :> 0 @@ "1" :> 1 @@ "2" :> 2 @@ "3" :> 3
Multiplier(c) == CASE c = "k" -> Kilo [] c = "M" -> Kilo * Kilo [] OTHER -> 1
Unset == -1
\* The number after an = sign and its multiplier.
RECURSIVE ScanNumber(_, _, _)
ScanNumber(s, i, val) ==
  IF i <= Len(s) /\ s[i] \in DOMAIN Decimals THEN ScanNumber(s, i + 1, val * 10 + Decimals[s[i]])
  ELSE val * Multiplier(IF i <= Len(s) THEN s[i] ELSE " ")
scanmult(s, i) == IF i < Len(s) /\ s[i] = "=" /\ s[i + 1] \in DOMAIN Decimals THEN ScanNumber(s, i + 1, 0) ELSE Unset
NumberOptions == {"s", "i", "h", "l", "o", "O", "v", "a"}
\* Every character is looked at, those of the numbers too.
parse_camlrunparam(s) ==
  US!FoldLeft(LAMBDA p, i : CASE s[i] \in NumberOptions -> [p EXCEPT ![s[i]] = scanmult(s, i + 1)]
                              [] s[i] \in {"b", "p"} -> [p EXCEPT ![s[i]] = 1]
                              [] OTHER -> p,
              [c \in NumberOptions \cup {"b", "p"} |-> Unset], [i \in 1 .. Len(s) |-> i])

(***************************************************************************)
(* Jobs.                                                                   *)
(***************************************************************************)
Prog == <<"prog", 0>>
\* The four ways of the comment in startup.c, with and without a system that names the executable.
Argv(launch, options, args) ==
  CASE launch = "runtime" -> <<<<"ocamlrun", 0>>>> \o options \o <<Prog>> \o args
    [] launch = "script 1" -> <<<<"ocamlrun", 0>>, Prog>> \o args
    [] launch = "script 2" -> <<Prog, Prog>> \o args
    [] OTHER -> <<Prog>> \o args
Self(launch, known) ==
  IF known THEN IF launch = "composite" THEN Prog ELSE <<"ocamlrun", 0>>
  ELSE Argv(launch, <<>>, <<>>)[1]
Flat(is) == US!FlattenSeq(is)
Chars3(o) == <<o[1], "=">> \o o[2] \o (IF o[3] = "" THEN <<>> ELSE <<o[3]>>) \o <<",">>
StartupInit ==
  /\ \/ \E f \in StartFiles, launch \in {"runtime", "script 1", "script 2", "composite"}, known \in BOOLEAN, options \in StartOptions, args \in StartArgs :
          /\ launch \in {"script 1", "script 2"} => f.head = "#!" /\ options = <<>>
          /\ launch = "composite" => f.head = "elf" /\ options = <<>>
          /\ job = [part |-> "start", file |-> f, launch |-> launch, known |-> known, options |-> options, args |-> args]
     \/ \E c \in CodeBlocks : job = [part |-> "thread", code |-> c]
     \/ \E p \in RunParams : job = [part |-> "runparam", params |-> p]
  /\ res = [pc |-> "call"]
StartupNext ==
  /\ job.part \in {"start", "thread", "runparam"} /\ res.pc = "call" /\ UNCHANGED job
  /\ res' = [pc |-> "done",
             out |-> CASE job.part = "start" -> caml_main(Argv(job.launch, job.options, job.args), Self(job.launch, job.known), FileCells(job.file))
                       [] job.part = "thread" -> caml_thread_code(Flat(job.code))
                       [] OTHER -> parse_camlrunparam(Flat([i \in DOMAIN job.params |-> Chars3(job.params[i])]))]

(***************************************************************************)
(* Properties.                                                             *)
(***************************************************************************)
SectionData(f, name) ==
  LET I == {i \in DOMAIN f.sections : f.sections[i].name = name} IN
  IF I = {} THEN <<>> ELSE f.sections[CHOOSE i \in I : \A j \in I : j <= i].data
HasSection(f, name) == \E i \in DOMAIN f.sections : f.sections[i].name = name
NamesIn(data) == LET names == SelectSeq(data, LAMBDA c : c # Terminator) IN [i \in DOMAIN names |-> names[i][2]]
\* The primitives a program asks for that neither the runtime nor its libraries, where the path finds them, provide.
SearchPath(f, options) ==
  LET given == SelectSeq(options, LAMBDA o : o[1] = "dir") IN [i \in DOMAIN given |-> given[i][2]] \o LdLibraryPath \o NamesIn(SectionData(f, "DLPT")) \o LdConf
Provides(f, options, place, prim) ==
  \/ place = <<0, 0>> /\ prim \in Builtin
  \/ /\ prim \notin Builtin /\ place \in DOMAIN Dlls /\ prim \in Dlls[place]
     /\ place[2] \in US!ToSet(NamesIn(SectionData(f, "DLLS")))
     /\ \E i \in DOMAIN SearchPath(f, options) :
          /\ SearchPath(f, options)[i] = place[1]
          /\ \A j \in 1 .. i - 1 : <<SearchPath(f, options)[j], place[2]>> \notin DOMAIN Dlls

Lacks(f) == \E n \in {"CODE", "DATA", "PRIM"} : ~ HasSection(f, n)
StopsRuntime(options) == \E o \in US!ToSet(options) : o[1] \in {"-version", "-p", "-z"}
Unfound(f, options) ==
  \E l \in US!ToSet(NamesIn(SectionData(f, "DLLS"))) : \A d \in US!ToSet(SearchPath(f, options)) : <<d, l>> \notin DOMAIN Dlls
Unbound(f, options) ==
  \E p \in US!ToSet(NamesIn(SectionData(f, "PRIM"))) : \A place \in {<<0, 0>>} \cup DOMAIN Dlls : ~ Provides(f, options, place, p)

\* startup.c, dynlink.c, fix_code.c: in each of the four ways to start a program it sees the same
\* arguments, its code and globals are exactly the sections of those names in its file, and each primitive it names, in
\* order, is bound to the runtime or to the first place of the search path that has the library; a
\* file that was cut short or lacks a section is never run. Threading replaces every opcode, no
\* operand, and ends at the end of the code. Each parameter of OCAMLRUNPARAM has its last value.
ProgramsLoaded ==
  job.part \in {"start", "thread", "runparam"} /\ res.pc = "done" =>
    /\ job.part = "start" =>
         LET f == job.file
             o == res.out
         IN /\ o.end = "run" =>
                 /\ f.cut = 0
                 /\ o.argv = <<Prog>> \o job.args
                 /\ HasSection(f, "CODE") /\ HasSection(f, "DATA") /\ HasSection(f, "PRIM")
                 /\ o.code = SectionData(f, "CODE") /\ o.data = SectionData(f, "DATA")
                 /\ Len(o.prims) = Len(NamesIn(SectionData(f, "PRIM")))
                 /\ \A i \in DOMAIN o.prims : Provides(f, job.options, o.prims[i], NamesIn(SectionData(f, "PRIM"))[i])
            /\ o.end # "run" => f.cut > 0 \/ Lacks(f) \/ StopsRuntime(job.options) \/ Unfound(f, job.options) \/ Unbound(f, job.options)
    /\ job.part = "thread" =>
         /\ res.out.p = Len(Flat(job.code)) + 1
         /\ res.out.code = Flat([i \in DOMAIN job.code |-> [job.code[i] EXCEPT ![1] = Threaded(@)]])
    /\ job.part = "runparam" =>
         \A i \in DOMAIN job.params :
           LET p == job.params[i] IN
           (\A j \in i + 1 .. Len(job.params) : job.params[j][1] # p[1]) =>
             res.out[p[1]] = US!FoldLeft(LAMBDA n, d : 10 * n + Decimals[d], 0, p[2]) * Multiplier(p[3])
=============================================================================
