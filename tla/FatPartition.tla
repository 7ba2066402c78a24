------------------------------ MODULE FatPartition ------------------------------
(***************************************************************************)
(* The boot partition under the customisation: the FAT32 root directory,   *)
(* the clusters and the FSInfo sector that DeviceWrapperFatPartition       *)
(* changes with writeFile(), deleteFile() and the scan for a name.         *)
(* DeviceWrapper.tla brings the blocks to the drive.                       *)
(*                                                                         *)
(* Names, sizes and contents are abstract; a file takes a long and a short *)
(* slot of the directory.  A file may come with a long name that ends with *)
(* its slot, of 13 or 26 characters, without the NUL that getDirEntry()    *)
(* looks for; getDirEntry() itself always writes one.  The copies of the   *)
(* FAT are written alike and are one here.  Left out are FAT16's root      *)
(* directory of fixed size, the paths with a "/", files with a wrong       *)
(* checksum in their long slot, and files that are read-only, hidden or of *)
(* the system, whose slot getDirEntry() takes for a part of a long name.   *)
(***************************************************************************)
EXTENDS Integers, FiniteSets, Sequences, Functions

CONSTANTS Names,        \* the names of files
          Short,        \* the 8.3 name made of a name: [letter, rest]
          LastNumber,   \* getDirEntry() tries 100 numbers in a short name
          MaxSize,      \* clusters of the longest file
          LastCluster,  \* clusters are numbered from 2
          LastEntry,    \* the FAT has entries for clusters that do not exist
          PerCluster,   \* slots of the directory in a cluster
          MaxWrites,    \* bounds the writes of a file
          MaxSlots,     \* bounds the directory
          Images        \* the file systems to begin with

EOC  == 1      \* what ends a chain; cluster 1 does not exist
Root == 2      \* BPB_RootClus
Clusters == 2..LastCluster
Entries  == 2..LastEntry

ASSUME SizesAssumption ==
  /\ {MaxSize, PerCluster, MaxWrites, MaxSlots} \subseteq Nat \ {0}
  /\ LastCluster \in Nat \ {0, 1} /\ LastEntry \in Nat /\ LastEntry >= LastCluster
  /\ LastNumber \in Nat
  /\ Short \in [Names -> [letter : STRING, rest : STRING]]

VARIABLES
  fs,       \* fat: 0 for a free cluster, the next one, or EOC; free: FSI_Free_Count;
            \* dir: the slots of the root directory before its end; data: what is in
            \* a cluster, <<name, part, version>>; failed: an exception was thrown
  expected  \* history: the [size, version] that writeFile() was last asked for

fatVars == <<fs, expected>>

-------------------------------------------------------------------------------
(***************************************************************************)
(* Clusters.                                                               *)
(***************************************************************************)
LastOf(q)  == q[Len(q)]
First(S) == CHOOSE i \in S : \A j \in S : i <= j
Free(f)  == {c \in Entries : f[c] = 0}

\* getClusterChain(): nothing for the first cluster of an empty file.
Walk(f, first) ==
  LET at[k \in 1..LastEntry] ==
        IF k = 1 THEN first ELSE IF at[k - 1] \in {0, EOC} THEN EOC ELSE f[at[k - 1]]
  IN  at
Chain(f, first) ==
  LET at == Walk(f, first)
  IN  [k \in 1..Cardinality({k \in 1..LastEntry : at[k] \notin {0, EOC}}) |-> at[k]]

Exist(clusters) == Range(clusters) \subseteq Clusters

\* allocateCluster() behind the cluster "last" (0: behind none): the first free entry, even
\* that of a cluster that does not exist; if there is none, "Out of disk space" is thrown.
Allocate(at) ==
  LET s   == at.fs
      new == First(Free(s.fat))
  IN  IF s.failed \/ Free(s.fat) = {} THEN [fs |-> [s EXCEPT !.failed = TRUE], last |-> at.last]
      ELSE [fs   |-> [s EXCEPT !.fat = [c \in Entries |-> IF c = new THEN EOC
                                                          ELSE IF c = at.last THEN new ELSE @[c]],
                               !.free = @ - 1],
            last |-> new]

Take(s, last, n) ==
  LET after[i \in 0..n] == IF i = 0 THEN [fs |-> s, last |-> last] ELSE Allocate(after[i - 1])
  IN  after[n].fs

Excess(chain, n) == {chain[i] : i \in (n + 1)..Len(chain)}

\* Mutant: what is left of the chain still points behind its end.
CutUnended(f, chain, n) == [c \in Entries |-> IF c \in Excess(chain, n) THEN 0 ELSE f[c]]

Cut(f, chain, n) ==
  [c \in Entries |-> IF c \in Excess(chain, n) THEN 0
                     ELSE IF n > 0 /\ c = chain[n] THEN EOC ELSE f[c]]

\* Mutant: FSInfo is told of every cluster, and again of all of them.
DropCountedTwice(s, chain, n) ==
  [s EXCEPT !.fat = Cut(@, chain, n), !.free = @ + 2 * (Len(chain) - n)]

\* The excess clusters are zeroed, marked free and counted.
Drop(s, chain, n) ==
  [s EXCEPT !.fat = Cut(@, chain, n), !.free = @ + Len(chain) - n,
            !.data = [c \in Entries |-> IF c \in Excess(chain, n) THEN <<>> ELSE @[c]]]

-------------------------------------------------------------------------------
(***************************************************************************)
(* The directory.                                                          *)
(***************************************************************************)
LongSlot == [kind |-> "long"]
\* Of a file; "ended": there is a NUL behind its long name.
FileSlot(name, ended, short, first, size) ==
  [kind |-> "file", name |-> name, ended |-> ended, short |-> short,
   first |-> first, size |-> size]
DeletedSlot(short) == [kind |-> "deleted", short |-> short]
Numbered(name, i) == [letter |-> Short[name].letter, rest |-> Short[name].rest, number |-> i]

Live(s) == {i \in 1..Len(s.dir) : s.dir[i].kind = "file"}

\* getDirEntry(): the first file of that name.  A long name without a NUL is emptied by
\* truncate(-1) and the file goes by its 8.3 name, which none of Names is.
Slots(s, name) == {i \in Live(s) : s.dir[i].name = name /\ s.dir[i].ended}
Exists(s, name) == Slots(s, name) # {}
Slot(s, name) == First(Slots(s, name))

\* readDir() and writeDirEntryAtCurrentPos() up to the n-th slot: who gets to the
\* end of the last cluster adds one, zeroed.
Reach(s, n) ==
  LET has == Chain(s.fat, Root)
      new == Take(s, LastOf(has), n \div PerCluster + 1 - Len(has))
  IN  IF n \div PerCluster < Len(has) THEN s
      ELSE [new EXCEPT !.failed = @ \/ ~Exist(Chain(new.fat, Root))]

\* The slots and the end mark behind them.
Add(s, slots) ==
  LET r == Reach(s, Len(s.dir) + Len(slots) + 1)
  IN  IF r.failed THEN r ELSE [r EXCEPT !.dir = @ \o slots]

\* Mutant: nobody looks whether the short name is taken.
UntakenUnchecked(s, name) == 0..LastNumber

\* dirNameExists() of the name, then of the name with a number in it.
Untaken(s, name) == {i \in 0..LastNumber : \A j \in Live(s) : s.dir[j].short # Numbered(name, i)}

\* getDirEntry(), to the end of the directory if the name is not there.
Scan(s, name) == Reach(s, IF Exists(s, name) THEN Slot(s, name) ELSE Len(s.dir))

\* getDirEntry() with createIfNotExist.
Entry(s, name) ==
  LET r == Scan(s, name)
  IN  IF Exists(s, name) \/ r.failed THEN r
      ELSE IF Untaken(r, name) = {} THEN [r EXCEPT !.failed = TRUE]
      ELSE LET short == Numbered(name, First(Untaken(r, name)))
           IN  Add(r, <<LongSlot, FileSlot(name, TRUE, short, 0, 0)>>)

\* updateDirEntry(): the first file of that short name.
SameShort(s, short) == {i \in Live(s) : s.dir[i].short = short}

\* updateDirEntry() of a slot to be deleted compares all letters but the first, and
\* deleted slots too.
SameButFirst(s, short) ==
  {i \in 1..Len(s.dir) : /\ s.dir[i].kind # "long"
                         /\ s.dir[i].short.rest = short.rest
                         /\ s.dir[i].short.number = short.number}

-------------------------------------------------------------------------------
(***************************************************************************)
(* What a sound file system is, and the ones to begin with.                *)
(***************************************************************************)
ShortNames == [letter : STRING, rest : STRING, number : 0..LastNumber]
AnySlot ==
  {LongSlot} \cup [kind : {"deleted"}, short : ShortNames] \cup
  [kind : {"file"}, name : Names, ended : BOOLEAN, short : ShortNames,
   first : {0, EOC} \cup Entries, size : 0..MaxSize]
Contents == {<<>>} \cup Names \X (1..MaxSize) \X (1..MaxWrites)
FileSystems ==
  [fat : [Entries -> {0, EOC} \cup Entries], free : Int, dir : Seq(AnySlot),
   data : [Entries -> Contents], failed : BOOLEAN]

\* The root directory, "0", and the files have chains.
Owners(s) == {0} \cup Live(s)
Start(s, o) == IF o = 0 THEN Root ELSE s.dir[o].first
ChainOf(s, o) == Chain(s.fat, Start(s, o))

\* q is the chain from "first", without a circle and to its end.
IsChain(f, first, q) ==
  /\ q \in Seq(Entries) /\ IsInjective(q)
  /\ \A k \in 1..Len(q) : f[q[k]] = IF k = Len(q) THEN EOC ELSE q[k + 1]
  /\ IF q = <<>> THEN first \in {0, EOC} ELSE first = q[1]

SoundClusters(s) ==
  /\ \A o \in Owners(s) : IsChain(s.fat, Start(s, o), ChainOf(s, o))
  /\ \A o, p \in Owners(s) : o # p => Range(ChainOf(s, o)) \cap Range(ChainOf(s, p)) = {}
  /\ s.free = Cardinality(Free(s.fat)) - (LastEntry - LastCluster)

\* Two slots that a look-up takes for one another.
Alike(a, b) == a.short = b.short \/ (a.name = b.name /\ a.ended /\ b.ended)

SoundDirectory(s) ==
  /\ \A i, j \in Live(s) : Alike(s.dir[i], s.dir[j]) => i = j
  /\ \A i \in Live(s) : \E n \in 0..LastNumber : s.dir[i].short = Numbered(s.dir[i].name, n)
  /\ Len(s.dir) <= PerCluster * Len(Chain(s.fat, Root))

ReadFile(s, i) == [k \in 1..Len(ChainOf(s, i)) |-> s.data[ChainOf(s, i)[k]]]

Holds(s, i, version) ==
  ReadFile(s, i) = [k \in 1..s.dir[i].size |-> <<s.dir[i].name, k, version>>]

ReadsBack(s, name, size, version) ==
  /\ Exists(s, name)
  /\ s.dir[Slot(s, name)].size = size /\ Holds(s, Slot(s, name), version)

ASSUME ImagesAssumption ==
  \A s \in Images : /\ s \in FileSystems /\ ~s.failed
                    /\ SoundClusters(s) /\ SoundDirectory(s)
                    /\ \A i \in Live(s) : Holds(s, i, 1)

FatInit ==
  /\ fs \in Images
  /\ expected = [name \in Names |->
                   IF Exists(fs, name) THEN [size |-> fs.dir[Slot(fs, name)].size, version |-> 1]
                   ELSE [size |-> -1, version |-> 0]]

-------------------------------------------------------------------------------
(***************************************************************************)
(* The operations.                                                         *)
(***************************************************************************)
\* writeFile() once its slot is there: the chain is made as long as is needed, the
\* clusters are written as far as they exist, then the slot.
Resize(s, chain, size) ==
  IF Len(chain) < size
  THEN Take(s, IF chain = <<>> THEN 0 ELSE LastOf(chain), size - Len(chain))
  ELSE IF Len(chain) > size THEN Drop(s, chain, size) ELSE s

Fill(s, clusters, name, version) ==
  [s EXCEPT !.data = [c \in Entries |->
     IF c \in Range(clusters) \cap Clusters
     THEN <<name, CHOOSE i \in 1..Len(clusters) : clusters[i] = c, version>> ELSE @[c]]]

Rewrite(s, name, size, version) ==
  LET entry == s.dir[Slot(s, name)]
      slot  == First(SameShort(s, entry.short))
      chain == Chain(s.fat, entry.first)
      sized == Resize(s, chain, size)
      first == IF size = 0 THEN EOC
               ELSE IF chain = <<>> THEN First(Free(s.fat)) ELSE entry.first
      now   == Chain(sized.fat, first)
      written == Fill(sized, now, name, version)
  IN  IF sized.failed THEN sized
      ELSE IF ~Exist(now) THEN [written EXCEPT !.failed = TRUE]
      ELSE [written EXCEPT !.dir = [@ EXCEPT ![slot] =
              FileSlot(entry.name, entry.ended, entry.short, first, size)]]

WriteFile(name, size) ==
  LET version == expected[name].version + 1
      s == Entry(fs, name)
  IN  /\ ~fs.failed
      /\ version <= MaxWrites /\ Len(s.dir) <= MaxSlots
      /\ fs' = IF s.failed THEN s ELSE Rewrite(s, name, size, version)
      /\ expected' = [expected EXCEPT ![name] = [size |-> size, version |-> version]]

\* deleteFile(): the clusters are not freed.
DeleteFile(name) ==
  LET s == Scan(fs, name)
      short == s.dir[Slot(s, name)].short
  IN  /\ ~fs.failed
      /\ fs' = IF Exists(s, name) /\ ~s.failed
               THEN [s EXCEPT !.dir = [@ EXCEPT ![First(SameButFirst(s, short))] =
                       DeletedSlot(short)]]
               ELSE s
      /\ expected' = [expected EXCEPT ![name] = [size |-> -1, version |-> @.version]]

\* fileExists(), and readFile() of the root directory.
LookUp(name) == ~fs.failed /\ fs' = Scan(fs, name) /\ UNCHANGED expected

FatNext == \E name \in Names : \/ \E size \in 0..MaxSize : WriteFile(name, size)
                               \/ DeleteFile(name) \/ LookUp(name)

FatSpec == FatInit /\ [][FatNext]_fatVars

-------------------------------------------------------------------------------
(***************************************************************************)
(* Every variable stays within its type.  The free count falls below the   *)
(* number of free clusters by those that do not exist.                     *)
(***************************************************************************)
FatTypeOK ==
  /\ fs \in FileSystems
  /\ fs.free \in (LastCluster - LastEntry)..(LastCluster - 2)
  /\ expected \in [Names -> [size : -1..MaxSize, version : 0..MaxWrites]]

(***************************************************************************)
(* devicewrapperfatpartition.cpp: no cluster is in two chains, no chain    *)
(* runs into a free cluster or a circle, and the count of free clusters is *)
(* right; also after an exception.                                         *)
(***************************************************************************)
ChainsSound == SoundClusters(fs)

(***************************************************************************)
(* devicewrapperfatpartition.cpp, downloadthread.cpp:2070-2160: a file     *)
(* that was written, or that an image has and getDirEntry() finds, reads   *)
(* back as what was last written to it, whatever is written and deleted    *)
(* beside it; one that it does not find keeps what it holds; and the       *)
(* directory has room for its end mark or ends with its last cluster.      *)
(***************************************************************************)
FilesReadBack ==
  ~fs.failed =>
    /\ \A name \in Names : expected[name].size >= 0 =>
         ReadsBack(fs, name, expected[name].size, expected[name].version)
    /\ \A i \in Live(fs) : ~fs.dir[i].ended => Holds(fs, i, 1)
    /\ SoundDirectory(fs)

(***************************************************************************)
(* writeFile() rewrites the file of that name, and the directory never has *)
(* two.  Not so if one came with a long name of 13 or 26 characters, which *)
(* getDirEntry() does not find (devicewrapperfatpartition.cpp:1099).       *)
(***************************************************************************)
NamesDistinct == \A i, j \in Live(fs) : fs.dir[i].name = fs.dir[j].name => i = j

(***************************************************************************)
(* downloadthread.cpp:2936 ("Delete ALL original files from the boot       *)
(* partition"): a file that deleteFile() said it deleted is not there.     *)
(***************************************************************************)
DeletedIsGone ==
  ~fs.failed => \A name \in Names : expected[name].size = -1 => ~Exists(fs, name)
===============================================================================
