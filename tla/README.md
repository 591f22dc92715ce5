# A verification project for ubutils

ubutils holds two command-line tools for the UB bus of a Linux machine: **lsub**
shows the entities of the bus, how they are cabled and what their configuration
spaces hold, and **setub** reads and writes registers and asks the kernel to
create, destroy, bind and unbind bus instances. Both talk to the ubus driver
through files under `/sys/bus/ub` and an ioctl on `/dev/unified_bus`.

This directory models the tools in TLA+, checks the models with TLC on small
instances and proves the main theorems with TLAPS for all sizes. `PROJECT.json`
lists components, runs, findings, hazards, theorems, and for every definition the
lines of the source it stands for.

    tlc -workers 2 -config MCTopologyChurn.cfg MCTopology
    tlc -workers 2 -config MCLsub.cfg MCLsub
    tlapm LsubProofs.tla

## 1. Inventory

Each tool is one sequential process: no threads, no callbacks, no signals. What
makes it hard is the other side. The driver may add or remove an entity, a cable or
a bus instance between any two reads, other processes use the same sysfs files, and
each call that allocates, opens or reads can fail.

| component | state | operations | what must hold |
|---|---|---|---|
| **Entity scan** (`common.c`, `sysfs.c`) | `uacc->uents`, `g_first_dev` | `sysfs_ub_scan`, `ub_scan_devices`, attribute readers | an entity is listed once; one that vanishes half way does no harm |
| **Access methods** (`sysfs.c`) | `uacc->fd`, the open config file | `sysfs_setup`, `sysfs_ub_read`, `sysfs_ub_write` | an access is to the entity named, inside its space |
| **Topology**, `lsub -t` (`topo.c`) | ports and `link_port` pointers, `par_uent_num`, `scaned`, `printed`, the chain of controllers | `grow_topo`, `ub_alloc_port`, `preset_all_uent_par`, `show_topo_ubc`, `ub_free_ubc` | parents form a forest; every entity connected to a controller of its domain is drawn once; the passes and the recursion end; cleanup is safe |
| **setub** (`setub.c`) | `bi_para`, the status | `get_setub_opt`, `parse_op`, `execute`, `check_bi_ops_para`, `ub_opt_bi` | what is sent is what the command line says; nothing is sent after a refusal |
| **Bus instances**, `lsub -b` (`businstance.c`, `sysfs.c`) | `uacc->bi`, the start the driver keeps for the file | `sysfs_get_bi`, `ub_parse_instance_sys`, `show_bi_info` | the pages fit together; the answer is exact |
| **Slices**, `lsub -s -v -x` (`lsub.c`, `cap.c`) | `ls_cmd`: slices selected and counted, port; `cfg_info`: capability bitmaps | `parse_slice`, `check_ls_cmd`, `show_slice`, `show_hex`, `*_check_capid` | what is selected and supported is shown, and nothing else |
| **Simple list** (`lsub.c`) | the options given, the entities still to list | `main`, `cmd_option_further_proc`, `show_list` | each entity selected is listed once, with its own name; a run that fails shows nothing |
| **ID database** (`ids.c`) | the hash of entries, the path and whether it is to be freed, the numbers of the last line | `ub_set_ids_file_path`, `ub_load_name_list`, `ids_parse_*`, `ub_id_insert`, `ub_id_lookup`, `ub_lookup_name`, `ub_free_ids_hash` | a name is the one the file gives; a name found stays; the path is freed once |
| **Routing table**, `lsub -r` (`ls-route-tbl.c`) | none beyond a run | `show_route_tbl`, `show_default_route_tbl`, `show_exact_route_tbl` | what is read is inside the slice and belongs to the cna asked for |
| **Management lists**, `lsub -l` (`lsub.c`, `sysfs.c`) | the lines left of two files, one read within the other | `show_mue_ue_list`, `sysfs_get_mue_list`, `sysfs_get_ue_list` | each list is shown whole, in order, under its owner |
| **Capability printers** (`cfg0/`, `cfg1/`, `port/`, `ls-slice.c`) | `data_buf`, shared by all slices | `slice_read`, the tables of the basic slices, one printer per capability | no printer leaves the buffer or shows another slice's bytes |
| **Life cycle** (`common.c`) | `ub_access`, entities, devices, parameters | `ub_alloc_acc`, `ub_init`, `ub_scan_devices`, `ub_cleanup` | everything allocated is freed once, whatever fails |

How they interact. `main` of either tool allocates a `ub_access`, takes the options
and scans (setub scans first, lsub after its options); the scan fills the list of
entities, with numbers read from attribute files. Topology, bus instances and
slices work from that list and read further files later, by which time the list may
be stale. Slices and setub reach configuration spaces through the same access
methods, with one descriptor for the whole run. The ID database is asked for a name
while an entity is printed, and loads its file in the first such call. lsub runs one
command, the first in the order `-v`, `-x`, `-t`, `-r`, `-l`, `-b` that was given, and
lists the entities if none was.

Hard behaviours: the two ends of a cable are read at different times; an entity
vanishes between two reads; a list fetched in pages changes between them; the first
line of a file and its start are shared with other readers; one descriptor is kept
for several entities; one buffer serves all slices; a failed step leaves earlier ones
done; a load is tried again on a file that was replaced; numbers that one line of a
file leaves to the next; counters of one byte and products that wrap; options in any
order and repeatedly; passes that must reach a fixpoint. The list
under `hazards` in `PROJECT.json` gives each one's line.

## 2. Plan

Done, in the order of importance:

1. `Topology`, and `ParentMarking` which its passes implement; both proved.
2. `Setub`; proved.
3. `BusInstances` and `Slices`; proved.
4. `Ids`, and `NameMap` which it implements; `Routes`; all proved.
5. `MueLists`; proved as part of `Lsub`.
6. `Lsub`, which composes `Ids`, `Routes` and `MueLists` with the options, the scan and
   the cleanup; it is proved to use the first two as their specifications allow, and all
   its safety properties are.
7. `Printers`; proved.

Left, in this order:

1. `RegisterFile`, an abstract memory of bytes addressed by entity, and `Setub` shown to
   implement it for command lines that name one entity; it would say of all accesses
   what `ReadBack` says of two.
2. An abstract `lsub -b`: the list as one snapshot, implemented by the pages of
   `BusInstances` while nothing is destroyed and no other reader moves the start.

## 3. The modules

| module | models | extended by |
|---|---|---|
| `Topology` | one run of `lsub -t` and the fabric beside it | `MCTopology`, `TopologyProofs` |
| `ParentMarking` | abstract: what the passes of `preset_all_uent_par` promise | instantiated in `Topology` |
| `Setub` | one run of `setub` and the driver beside it | `MCSetub`, `SetubProofs` |
| `BusInstances` | one run of `lsub -b` and the driver's list beside it | `MCBusInstances`, `BusInstancesProofs` |
| `Slices` | one run of `lsub -e -p -s -v -x`: which slices are shown | `MCSlices`, `SlicesProofs` |
| `Printers` | how a slice is read and what is printed of it | `MCPrinters`, `PrintersProofs` |
| `Ids` | the ID database and its file | `Lsub`, `IdsProofs` |
| `NameMap` | abstract: what the ID database promises | instantiated in `Ids` |
| `Routes` | `lsub -r` on one entity | `Lsub`, `RoutesProofs` |
| `MueLists` | `lsub -l` and the files beside it | `Lsub` |
| `Lsub` | one run of lsub: composes the three above | `MCLsub`, `LsubProofs` |

All have the same shape. `phase`, or `db`, `rt`, `mueAt` and `step` in the modules that
are composed, is the place in the program; an action is a handler, or one turn of a
loop when something else may act between two turns. `Tool` is the disjunction of the
program's steps, the driver's are apart from it, and `Exited` is the finished process.
In front of a definition that a bug could break there is, under the same name with a
suffix (`Adopted_Reparent`), the form it would have with a plausible mistake; `mutants`
in `PROJECT.json` says which property notices it.

### Topology

`cable` and `present` are the fabric, external. Entities are numbered `1..N` and
`readdir` returns them in that order. `ScanUent` is one turn of `sysfs_ub_scan`;
`ScanVanishing` the one in which the entity goes between `readdir` and the reading
of its attributes, so that all of them read as `~0`. `LinkUent` is a turn of
`grow_topo`'s loop with the whole `direct_link` file; `AllocPorts` is
`ub_alloc_port` over its lines, which makes the peer point back whatever the peer
pointed to before. `UbcAllocFails` and `LinkFails` are the ways out, `tail` says
whether the chain's last pointer is null or uninitialised (`"garbage"`).
`PresetUent` is a turn of one pass, `PresetPassDone` decides on another. `ShowUbc`,
`ShowPort` and `ShowReturn` run the recursion with an explicit `stack`; `printed`
is the flag in the entity, `bracket` counts how often it was expanded, `drawn` the
ports for which a line was drawn. The text of the diagram and the order of an
entity's ports are left out: ports are taken in any order.

`ParentMarking` has a graph, a set of marked nodes and three stages; a marked node
marks any of its neighbours at once, and marking is over when none is left. `Passes` in
`Topology` maps the links within a domain to the graph, the entities with a parent to
the marked nodes, and `phase` to the stage; `MarkingSpec` says that no order of the
list, no pass and no flag makes a difference to that.

### Setub

A command line is a sequence of option records, a number already parsed or
`Invalid`. A configuration space is an array of bytes with `Base` values each (256
in the code), low byte first; `Store` and `Load` are `pwrite` and `pread` on the
little-endian `op->value`. `Setup` is `sysfs_setup` when it succeeds, `Write`,
`Read` and `AccessFails` the system call that follows, and each of these ends
`execute` and the turn of `get_setub_opt`. Between `Setup` and the access the driver
may unplug the entity. `accesses` is a history variable: what each `-s` named, what
it was made to, and what it showed. `Request` builds what `ub_*_bi_init` puts into
the ioctl. `sysfs_ub_read` asks for twice the bytes of the register (`Transferred`): the
second half flags those that the driver could not read. `Read` shows the register, or
`Flagged` if a byte of it is flagged, which the code warns of and counts as a success. A
read or write that fails or is short is `AccessFails`; so is a read of the very last
register if the driver has nothing to say beyond the end. `CheckCluster` is
`ub_check_cluster` and what `check_bi_ops_para` makes of it: a cluster file that cannot be
opened or read counts as no cluster mode (`mode = "unreadable"`). `ChangeMode` is the driver
changing the mode after the tool has looked at it. The file is taken to hold a number with
something behind it that ends it, as `strtol` needs.

### BusInstances

`table` is the driver's list, `start` the number last written to the file.
`ReadCount` is the first line, `WriteStart` and `ReadPage` the two halves of
`ub_parse_instance_sys`, between which other readers and the driver act. `Page` is
`MAX_CNT_PER_READ`. How the driver answers is external and taken from the way the
code uses it: the first line holds the count, a number written sets the first line
listed, one read is a snapshot. An instance is a number; instances in `Malformed`
have a line that `sscanf` refuses; two may share an EID.

### Slices

`sel` is the three arrays, `cnt` the counts of one byte (`CountRange`), `caps` what
the entity supports, any member of `Bitmaps`, and `bits` what `cfg_info` keeps of it. A
basic slice may end before the bitmap, which is then read for the first capability, or
within it (`FirstBits`): the code then keeps the beginning with zeros for the rest, and
`cut` is the history of the spaces this happened in. A byte of a bitmap that the driver
flags is part of what `caps` holds. `queue` holds the slices
that the loops of `show_slice` or `show_hex` have not come to. What is printed of a
slice is left out, and every read may fail. `RefuseNumber` stands for any argument of
`-e` and `-p` that does not parse. `Decoded`, the capabilities with a printer, is a
constant. The entity's answer to its port number is `PortNum`, or the read fails.

### Printers

One slice after the other is read and printed. `ReadHeader` and `ReadBody` are the two
reads of `slice_read`, between which the entity may change its header: `asked` is the
size of the first, from which `data_len` comes, `size` that of the second, at which
some printers look. `data_buf` records for each double-word the slice it was read from.
A printer is a record: the least `data_len` and `slice_size` it asks for, who it prints
for, and the registers it reads. `Cfg0Basic`, `Cfg1Basic` and `PortBasic` are the
tables of the basic slices, each row where its register begins and what its function
looks at, which is sometimes elsewhere. The eye monitor prints a lane for every word that
its header counts, also beyond the buffer if these are more than 256 (`EyeTooLong`). The
bits of a register and their wording are
left out. For `cfg1_ers` the entity is one that supports system page size and UBA.

### Ids

A line of the file is a record with its nesting, what it starts with, a number and a
name; each kind of line is an action, with its effect on `ids`, the variable `ids_id`
that the next line finds. `table` holds the entries of all buckets, the latest first,
`Hash` is a constant and in `MCLsub` the code's own function. `Duplicate` is the test
of `ub_id_insert` as it is, with `id56` compared to 0. A load ends with the file, a
line that is refused, an entry that is refused or cannot be allocated, or an I/O error,
and keeps what it has. `MustLoad` is what makes `ub_lookup_name` try again; `Open`
takes any content in `Files`, so the file may be replaced in between. `heap` and
`freeName` follow the memory that `realpath` returns. `source` and `shown` are history:
the lines read, and the answers.

`NameMap` is a function from keys to names with `Enter`, `Answer` and `Forget`. `Names`
maps each key in the table to what `Lookup` finds for it.

### Routes

The registers' widths and the addresses are constants: `Word` is the range of
`unsigned int`, `RegLimit` that of a 16-bit register. `EBW` and `EntryAt` are the two
macros with their wrap. `tables` is history: the stretches of the slice that were read,
counted in double-words from its start.

### MueLists

`found` is the list of the scan, latest first as the code keeps it. `mueLines` and
`ueLines` are what is left of the two files; `level` says whether a `ue_list` is read
within a `mue_list`. A file that is opened holds any list of `ListFiles`. `files` and
`rows` are history. `Shows` is what a list should show, by a filter (`Picked`) that is a
recursive function, as the theorems reason about it.

### Lsub

`main` from the allocation of `uacc` to the cleanup. A command line is a sequence of
option records, one of which may be refused. `ScanUent` adds an entity, in any order;
`AddDevice` is a turn of `ub_scan_devices`. `StartRoutes` and `InRoutes`, `StartMueLists`
and `InMueLists`, `AskName` and `ListNamed` run the steps of the modules composed, whose
variables no other step touches; `OtherCommand` stands for `-v`, `-x`, `-t` and `-b`,
which have modules of their own. `CleanUp` is `ub_cleanup` with `FreeIds`.

## 4. What is checked

| run | states | bounds | shows |
|---|---|---|---|
| `topology_churn` | 633 907 | 3 entities, 2 ports each, cablings with at most 2 free ports, 1 change | `TypeOK`, `Forest`, `MarkedIsReachable`, `DiagramComplete`, `RecursionFollowsParents`, `ChainTerminated`, `LinksAreSymmetric`, `ParentDecidedOnce`, `MarkingSpec`, `RunEnds` |
| `topology_all_shown` | violation | 2 entities, 1 port | `AllEntitiesShown`, the manual's claim |
| `setub` | 4 418 818 | 2 entities, 8 bytes of 2 values, 1 unplugging, 1 change of the mode; up to 3 register options or 4 bus-instance options | `TypeOK`, `WithinConfigSpace`, `SingleEntityExact`, `ReadBack`, `ExitStatus`, `RequestMatchesCommandLine`, `ClusterBindsIDEV`, `NoRequestAfterFailure` |
| `setub_named_entity`, `setub_shown_value` | violation | up to 3 register options; for one entity only | two claims of the manual |
| `instances` | 803 302 | 4 instances, pages of 2, 2 entities, 2 changes, 1 other reader | `TypeOK`, `ListComplete`, `NoDuplicates`, `AnswerExact`, `EntityInstanceFound` |
| `slices` | 1 518 118 | 6 slices a space, counts modulo 6, limit 2, 1 or 2 `-s`, 4 sets of bitmaps | `TypeOK`, `ShownExactly`, `HexSole`, `PortSlicesNeedPort` |
| `slices_refused` | violation | as `slices` | the claim of a message |
| `lsub` | 101 592 | 3 entities of 2 kinds, 19 command lines, ID files of up to 5 lines, routing registers below 8, lists of up to 3 lines | `LsubTypeOK`, `NamesFollowFile`, `AnswersStable`, `MapSpec`, `RouteReadsExact`, `ListsShownExactly`, `EachListedOnce`, `ErrorMeansSilence`, `NothingLeaked`, `LsubEnds` |
| `ids_refused` | violation | as `lsub` | the claim of a message |
| `printers` | 44 140 | slices of all spaces, 14 sizes, 5 numbers of slots | `TypeOK`, `OwnWords`, `WholeOrNothing` |
| `printers_tables` | violation | as `printers` | the claim of three comments |

**Why the bounds are enough.** Three entities with two ports make cycles, double
cables, a chain whose last entity needs two passes because it comes first in the
list, several domains and no domain; one change at any moment gives every stale pair
of `direct_link` files, and what is proved covers any size. Three register
options are the least for a write, something in between and a read; the widths 1, 2
and 4 overlap at the last byte, and with two values a byte the value 10 does not fit
where 8 does. Four options hold a complete bind with one repetition. Four instances
in pages of two pass a full last page, a short one and an empty one. Two `-s` options
are the least for one to be counted after another, and a space of six slices with
counts modulo six wraps as 256 slices do in a byte. The bitmaps are empty, full, and two
that differ from space to space and hold capabilities with and without a printer; what is
proved covers any set of them. In `lsub` two entities are of one
kind, so a name is asked for again after the file may have changed; the ID files are
all of up to two lines over an alphabet with every kind of line, and fourteen longer
ones in which a line uses what those before have left. Registers below 8 with two ports
to a double-word give entries of one to four double-words, and the slice ends where the
widest table does. The lists have syntax errors, unknown numbers before and behind
known ones, and the same entity in both levels. `printers` takes sizes on both sides of
every length a printer asks for, in bytes and in double-words, and one above 1 KB.

**Bounds by name**: `N`, `PortNum`, `MaxChurn` and the set `Cablings` (Topology);
`MaxPosition`, `Base`, `MaxUnplug` and `CommandLines` (Setub); `Page`, `MaxChurn`,
`MaxOthers` (BusInstances); `MaxSlice`, `CountRange`, `LsMaxSlice`,
`Bitmaps`, `CommandLines` (Slices); `Selected`, `Sizes`, `Slots` (Printers); `Files`, `Query` (Ids); `RegLimit`,
`Word`, `PortsPerWord`, `DefaultAt`, `SliceLen` (Routes); `ListFiles` (MueLists);
`CommandLines` (Lsub). `bracket` saturates at 2. What a run covers is restricted by these
sets, so only the members of `Cablings`, `CommandLines`, `Bitmaps`, `Files`, `ListFiles`,
`Sizes` and `Slots` occur in it, and by the number of changes of the system (`ChangeMode`
happens once); no bound is in a guard of the tools. The theorems hold for all sets.

**Preconditions.** Each says where the code gives no guarantee.

- `SingleEntityExact` is about command lines that name one entity. `ReadBack` and
  `ReadsShowRegister` leave out reads with flagged bytes. `WithinConfigSpace` excepts the
  flags of a read of the very last register.
- `ClusterBindsIDEV` is about a mode that could be read and did not change after that. If
  it cannot be read, any entity is bound.
- `LinksAreSymmetric` is about a fabric at rest, `ListComplete` and `EntityInstanceFound`
  about runs in which nothing is destroyed and no other reader interferes, `NoDuplicates`
  about runs without another reader, `AnswerExact` about a list that does not change. An
  instance that is destroyed does not come back with its number (`Create`).
- `ShownExactly` asks for the slices of a space only if no read failed and the basic slice
  of the space did not end within its bitmap; nothing else is ever shown, though.
- `HexSole` and `PortSlicesNeedPort` are about selections that are not nearly a whole
  space (`NoWrap`).
- `NamesFollowFile` is about files whose subclasses come before the programming interfaces
  of their class and are not numbered ff (`Regular`), as far as the load got; the code
  confuses the others (hazards, `ids.c:326`). `AnswersStable` is about queries that found a
  name: one that found nothing may be answered later, by a load that is tried again.
- `RouteReadsExact` is about entities with ports, as the width of an entry wraps on the
  others.
- `ErrorMeansSilence` does not count the help text that `-h` prints before a later option is
  refused.
- `WholeOrNothing` is about a header that does not change and the capabilities whose printer
  asks for all that it reads, in the right unit (`Guarded`). It and `TypeOK` of `Printers`
  except the eye monitor of a slice longer than 1 KB (`EyeTooLong`): `lsub.h:170` says that
  there is none, and the printer does not check.

The runs leave each of these on both sides.

**Fairness.** Weak fairness of the program's own steps (`WF_vars(Tool)`, in `Lsub`
`WF_lsubVars(LsubTool)`) and nothing else: a process that can take its next step takes
it, and no loop of the tools waits for anybody. `RunEnds` and `LsubEnds` need no
fairness of the driver; its changes are bounded. The passes end because each that is
followed by another gives a parent to an entity that had none; the scan because an
entity is found once; a load because a line is read once.

**Deadlock** is checked in every run; `Exited` (`Done` in `Printers`, `LsubExited` in
`Lsub`) is the only state without other steps.

## 5. What is proved

Everything is for every value of the constants, under the assumptions named in the
modules: for Topology `N` and `MaxChurn` are natural numbers, `PortNum` is finite and each
member of `Cablings` is a symmetric map without self-links; for Setub the entity numbers are
finitely many naturals, `MaxPosition % 4 = 3` (the code's is `0x3FFFFFFFF`), `Base` is
at least 2; for Routes the widest table fits the slice and does not wrap, as it does
with the code's numbers (`RoomAssumption`); for BusInstances the instances are finitely
many and a page holds at least one; for Slices a space has at least one slice, a count
at least one value, and no bitmap names slice 0 (bit 0 is invalid, `cfg0/cap.c:22-25`); for Ids, MueLists, Lsub and Printers the sets they are given are of
the right type, and the entities of MueLists are finitely many. TLC evaluates these on every run.

Sequences that are filtered, parsed or counted are recursive functions over their length.
Their lemmas go by induction, done with a least counterexample in a set of numbers
(`SequenceInduction`, `SequencesByAppend`, `ByCounting`), as the library's induction
theorems take an operator for a parameter, which the provers cannot instantiate.

`TopologyProofs`:

- `TypeCorrect`. `Typed` alone is not inductive: that a link joins two allocated
  ports and that the chain holds scanned controllers only is needed to know that a
  peer can be followed (`PointersValid`), and for that, that nothing is allocated
  during the scan nor for an entity still to be linked (`Reading`).
- `PassesMarkReachable` is the main result; `Marking` carries it. A parent has had its
  ports traversed, everything a traversed entity leads to in its domain has a parent,
  and a pass that has changed nothing so far has left no entity with a parent
  untraversed. So when a pass ends without a change, the entities with a parent hold
  the controllers and are closed under links: `Reachable` is inside. They also form a
  forest that leads back to the controllers over links, so they are inside every such
  set.
- `ParentsFormForest`: `Forest` says, without paths, that every set of entities with
  a parent which is not empty has a member whose parent is outside. It is preserved
  because an entity that is given a parent had none, and so was nobody's parent.
- `DiagramIsComplete` from `Drawing`: an entity is printed once, the ports drawn are
  those of printed entities that are not still to be drawn (`Branches`), ports still to
  be drawn belong to entities on the stack (`Frames`), and a child whose parent's port
  has been drawn is printed (`ChildrenPrinted`).
- `ParentsAreStable` and `CleanupIsSafe` follow step by step.
- `PassesImplementMarking`: a turn of a pass maps to a marking of some neighbours, or to
  nothing when the entity has no parent or was traversed before; the last pass maps to
  `Fix`, whose guard is the closure that `Marking` carries.
- `LinksStaySymmetric`: as long as nothing was moved, a link is a cable, in the direction
  the file tells or back; both ends are then those of one symmetric map.
- `RecursionIsBounded` goes along with `Drawing`: a frame is pushed for a child whose
  parent is on top.
- `RunIsBounded`: lsub -t takes at most `N * Cardinality(PortNum) + N^2 + 7N + 5` steps of
  its own, whatever changes beside it. `StepsLeft` is lowered by each of them and left
  alone by the kernel's: entities still to come in a loop, a further pass for each entity
  without a parent, and while drawing the ports not drawn, two for each entity not printed
  and the frames on the stack (`Drawing` is what makes a frame pushed one entity printed).

`SetubProofs`:

- `TypeCorrect` from `Inv`, which adds to `TypeOK` that a pending access is that of
  an accepted option (`Pending`): without it the record appended to `accesses` cannot
  be typed. `DigitTyped`, `StoreTyped` and `LoadTyped` are the lemmas about bytes.
- `AccessesStayInside`: `AlignedEnd` shows for each width that an aligned start below
  the end of a space whose size is a multiple of four has its last byte inside, and twice
  its width inside unless it is the last register.
- `ExitStatusTold` and `RequestsFollowSuccess` from `Status`: the status is 0 exactly
  when the last register option among those taken was accepted, all parameters taken so
  far parse, and the run ends either in one of the ways out, without a request and with
  an error, or after the last option.
- `SharedDescriptorExact` from `NamedOnly`: the descriptor, when open, and every access
  belong to entities that some register option names.
- `ClusterProtected` from `Checked`: a request is only pending or sent when it passed
  `Allowed` with the mode that was found, and unless the mode changed later that is the
  mode of the bus, or it could not be read.
- `RequestIsCommandLine` from `Following`: after each option the parameters are those of
  the last option of their kind so far (`GivenNext`); the request is built from them when
  no option is left.
- `WritesReadBack` from `Held`: a register written and not overwritten since still holds
  its value in the configuration space. Two accesses of legal widths and positions are
  the same register, disjoint, or one overwrites the other; that what `Store` puts there
  is what `Load` returns is arithmetic in base `Base` (`TwoDigits`, `FourDigits`).

`BusInstancesProofs`:

- `InstancesTyped` from `Settled`: the driver's list has no instance twice, and an entity
  is bound to one listed instance at most.
- `NoneListedTwice` from `Placed` and `Apart`: unless another reader has moved the start,
  a page is read from where it begins, and nothing that lies behind the pages read has
  been listed, as removing an instance only moves others forward (`RemovedAt`).
- `PagesFit` from `InPages`: the list is what the counted lines of the pages read so far
  hold. `ParsedConcat`, that two pages parse to what their lines parse to together, is
  proved by induction over the second.
- `EntityFound` from `Known`: what the scan saw an entity bound to is among the lines
  counted, since the driver only appends; with `InPages` it is in the list.
- `InstanceAnswerExact` from `AtRest`, which adds that the scan's notes still hold.

`SlicesProofs`:

- `SlicesTyped`, and `ShowsExactly` from `Progress`: what is supported and selected and
  not yet shown is in the queue unless a read failed or the space is `cut`, and nothing else is
  shown. For that a bitmap that is kept is the entity's, or its beginning in a space that is
  `cut` (`Kept`).
- `HexShowsOne` and `PortIsNamed` from `Counts` and `Passed`: while no count wraps it is at
  least the number of slices set (overlapping options count twice, so it may be more), so
  a count of one lets exactly one slice pass.

`RoutesProofs`: `RouteIsExact`. Under `RoomAssumption` no product wraps (`Address`), an
entry has a bit for every port (`Width`), and entries of different cnas are at least one
width apart (`EntriesApart`); what has been read is the default table or the entry of a
cna that is below the number of entries (`TablesRead`).

`IdsProofs`:

- `DatabaseTyped` and `PathFreedOnce`: `heap` is 1 exactly while `freeName` holds.
- `AnswersStayTheSame` from `Settled`: while there is no hash the table is empty, a file is
  opened only then, so no name was found before a load; and afterwards every name found
  is the one the table still gives.
- `DatabaseIsMap`: an entry in front of the chains changes what `Lookup` finds for its
  own key only (`LookupElsewhere`, from the least member of a set of positions), so it
  is an `Enter`; an answer is what the map holds (`AnswerFromMap`).
- `AnswersFollowFile` from `Follows` and `Block`: while the lines are read, what can be
  asked for is what those read say, and the numbers left in `ids_id` tell whose block it
  is. Each kind of line has a lemma (`VendorFollows` to `DeepFollows`); that of the
  subclasses needs `Regular`, without which the property is false.

`LsubProofs`:

- `LsubUsesIds` and `LsubUsesRoutes`: every step of lsub is a step of the ID database and
  of the routing table, or leaves them alone; it needs that the entities listed are
  those of the scan and that the cna is a number (`ChoicesTyped`). So `AnswersStable`,
  `MapSpec`, `NamesFollowFile` and `RouteReadsExact` hold of lsub.
- `LsubErrorMeansSilence` from `Quiet`: no command is run before options and scan have
  succeeded, and no command returns an error.
- `LsubLeaksNothing` from `PathOwned`, which the database contributes, and `Freely`.
- `LsubEachListedOnce` from `ListedSoFar`: the lines printed and the entities still to come
  make up those of the scan (`TakenOver`), and each line names an answer to its own query.
- `LsubListsShownExactly` from `ListsSoFar`: for each file opened, what is shown under it
  and what its lines left will show make up what the whole file shows (`FileShown`,
  `ShowsRest`). The `ue_list` read within a `mue_list` is another file (`FilesApart`), so
  its rows change nothing under that one.
- `LsubTyped` puts the types together: `ChoicesTyped`, `ControlsTyped`, `DevicesCounted`,
  `ListedTyped`, `DatabaseTyped`, the types of the routing table, and `MueShape`, by which
  a file of the lists is open only while an entity is being shown.
- `LsubRunsOut`: every step of lsub lowers the first it changes of six natural numbers: the
  stage of `main`, the options, entities or registers to come in it, the steps left for one
  entity, the lines left of its file, and the same of a `ue_list` read within it. A number
  as in Topology is not to be had, as files have no greatest length. The number of
  entities is finite (`UentsFiniteAssumption`), else the scan could go on for ever.

`PrintersProofs`:

- `PrintersTyped`: every register of every table lies within the 256 double-words of
  the buffer (`Cfg0Within` to `PrinterWithin`), the last slot that fits `data_len` does
  (`SlotsWithin`), and so do the lanes of a slice of at most 1 KB (`BodyWithin`); nothing
  is printed until the header is read that says how many there are.
- `SliceShowsItself` from `OwnBuffer`: from the memset on each word is of this slice or
  zero.
- `CapabilityWhole` from `ReadSoFar`: every word below `data_len` was read from the slice;
  a printer that is `Guarded` has its registers below the length it asks for
  (`GuardedBelow`), and the slots that fit are below `data_len` (`SlotsRead`).

Only model-checked: `RunEnds` and `LsubEnds`, that the tools end. Liveness under fairness
and ENABLED are beyond this prover; what is proved of them is the part that needs neither,
`RunIsBounded` and `LsubRunsOut`. Every other property of a passing run is a theorem.

## 6. Findings

1. `lsub -t` does not show "all entities" (`lsub.man:24`): what no controller of the
   same domain can be reached from is left out (`topology_all_shown`).
2. A second `setub -s` accesses the first one's entity: `sysfs_setup` keeps the
   descriptor (`sysfs.c:475`, `setub_named_entity`).
3. A register that cannot be read is shown as 0 with exit status 0 (`setub.c:211`,
   `setub_shown_value`).
4. Two `-s` options within the limit are refused as too many: `calc_slice_cnt` counts
   the first one's slices again (`lsub.c:228`, `slices_refused`).
5. An ID file is refused in the middle for a "Duplicate item" that is none, as
   `ub_id_insert` compares with 0 what it should compare with the item (`ids.c:188`,
   `ids_refused`).
6. The loops over the tables of the basic slices print a register that the slice does
   not hold wholly, against their comments (`cfg0/basic.c:336`, `printers_tables`).

Noted without a run: `lsub.man:70-75` makes the prefix of `-s` optional ("0" shows
the basic configuration space) while `parse_slice_prefix` refuses it; in `Slices` a
group without a prefix is refused. A whole space of 256 slices counts as none and passes
the limit. If the cluster file
cannot be read, `ub_check_cluster` answers as without a cluster and an entity of any type
is bound (`setub.c:458-465`); whether that is meant the repository does not say.
`COR_ERR_INFO` in `lsub-regs.h:48` laps over the next register. Five lengths
that are in double-words are compared with `data_len`, which is in bytes, and two are
one double-word short (hazards, `cap1_link.c:714`). In `cfg0/err_record.c:166-167` the
severities are bits 22 and 23, where the status has 23 and 27. What is right in these
three only the UB specification says, which is not in the repository.

## 7. What is not modelled

What the bits of a register mean and every wording; the layout of text and the length of
`display_buf` (hazards, `cap14_eye_monitor.c:45`). `Slices` and `Printers` are apart: the
one chooses slices whose content is left out, the other takes any slices in ascending
order, so the size at which a basic slice ends and the bitmap it leaves are chosen apart. The
syntax of numbers, GUIDs and files is a parsed or a refused value. `--version`, the list
of parameters with its one constant entry (`sysfs.path`), driver links and the formatting
of GUIDs and classes in the scan. The build files, manual pages and the kernel header,
which have no behaviour; the driver, which is known by how the code uses it.
