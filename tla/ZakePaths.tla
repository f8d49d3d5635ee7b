----------------------------- MODULE ZakePaths -----------------------------
(***************************************************************************)
(* Paths of the znode tree, as zake/utils.py and the callers of            *)
(* os.path.split handle them.                                              *)
(*                                                                         *)
(* A canonical path "/a/b" is the sequence of its segments, <<a, b>>; the  *)
(* root "/" is the empty sequence.  That is what is_child_path computes    *)
(* before it compares anything ([p for p in path.split("/") if p]).  A     *)
(* segment is a record: the base name chosen by the caller and the suffix  *)
(* a sequential create appended to it ('%010d' % sequence_id), or NoSuffix *)
(* for a name that carries none.                                           *)
(*                                                                         *)
(* sorted() compares the path strings.  BaseOrder lists the base names in  *)
(* the order of their strings: names of letters, none the beginning of     *)
(* another.  PathLess is the order of the strings of such paths, the "-"   *)
(* of a negative suffix, which sorts before "/", included.                 *)
(***************************************************************************)
EXTENDS Integers, Sequences, FiniteSets, SequencesExt

CONSTANTS
    BaseOrder,      \* the base names, a tuple in ascending string order
    NoSuffix        \* the suffix of a name no sequence number was appended to

ASSUME BaseOrderIsATuple ==
    /\ BaseOrder \in Seq(Range(BaseOrder))
    /\ IsInjective(BaseOrder)
ASSUME NoSuffix \notin Int

Bases   == Range(BaseOrder)
Suffix  == {NoSuffix} \cup Int
Name    == [base : Bases, suffix : Suffix]
Path    == Seq(Name)
Root    == << >>

PlainName(b)    == [base |-> b, suffix |-> NoSuffix]

(* A path string that ends with "/" is the root, or names a last segment   *)
(* that is empty; path + '%010d' % id then gives that segment its name.    *)
EmptyName == PlainName("")
EndsWithSlash(path) == path = Root \/ Last(path) = EmptyName
WithSuffix(path, id) ==
    IF path = Root THEN <<[base |-> "", suffix |-> id]>>
    ELSE [path EXCEPT ![Len(path)].suffix = id]

(* utils.normpath: the trailing slash is dropped (kazoo's normpath) and    *)
(* put back if it is to be kept; the root has its slash anyway.  Paths are *)
(* absolute and free of repeated slashes here.                             *)
NormPath(path, keepTrailing) ==
    LET newPath == IF path # Root /\ Last(path) = EmptyName THEN Front(path)
                   ELSE path
    IN  IF keepTrailing /\ EndsWithSlash(path) /\ ~EndsWithSlash(newPath)
        THEN Append(newPath, EmptyName)
        ELSE newPath

-----------------------------------------------------------------------------
(* os.path.split(path)[0]: the path without its last segment; "/" splits   *)
(* into ("/", ""), so the root is its own parent.                          *)
ParentPath(path) == IF path = Root THEN Root ELSE Front(path)

(* utils.is_child_path: the pieces of the two paths between their slashes, *)
(* the empty ones left out, are compared.                                  *)
Pieces(path) == SelectSeq(path, LAMBDA name : name # EmptyName)

IsChildPath(parentPath, childPath, onlyDirect) ==
    LET parent == Pieces(parentPath)
        child  == Pieces(childPath)
    IN  /\ Len(child) > Len(parent)
        /\ SubSeq(child, 1, Len(parent)) = parent
        /\ onlyDirect => Len(child) = Len(parent) + 1

-----------------------------------------------------------------------------
(* The order of the strings.  '%010d' pads with zeros, so two suffixes     *)
(* that are not negative compare as numbers do; a negative one starts with *)
(* "-", which sorts before every digit, and of two negative ones of equal  *)
(* length the larger magnitude sorts last.  A name that ends where another *)
(* has its suffix is followed by the end of the string, which sorts first, *)
(* or by "/", which sorts before the digits and after "-".                 *)
BaseRank(b) == CHOOSE i \in DOMAIN BaseOrder : BaseOrder[i] = b

SuffixLess(j, k, jGoesOn, kGoesOn) ==
    \/ j = NoSuffix /\ k # NoSuffix /\ (jGoesOn => k >= 0)
    \/ j # NoSuffix /\ k = NoSuffix /\ kGoesOn /\ j < 0
    \/ j # NoSuffix /\ k # NoSuffix /\ (IF j < 0 /\ k < 0 THEN k < j ELSE j < k)

PathLess(p, q) ==
    \/ IsStrictPrefix(p, q)
    \/ \E i \in 1..Min({Len(p), Len(q)}) :
          /\ SubSeq(p, 1, i - 1) = SubSeq(q, 1, i - 1)
          /\ \/ BaseRank(p[i].base) < BaseRank(q[i].base)
             \/ /\ p[i].base = q[i].base
                /\ SuffixLess(p[i].suffix, q[i].suffix, Len(p) > i, Len(q) > i)

(* F of the value of `x`.  TLC evaluates a bound variable once, and the     *)
(* argument of an operator or a LET definition wherever it is used: for a  *)
(* store that one create hands to the next, or a set that is sorted, that  *)
(* makes the difference.                                                   *)
Given(x, F(_)) == CHOOSE y \in {F(v) : v \in {x}} : TRUE

(* sorted(paths): the element with i-1 smaller ones stands at index i.     *)
Sorted(paths) ==
    [i \in 1..Cardinality(paths) |->
        CHOOSE p \in paths : Cardinality({q \in paths : PathLess(q, p)}) = i - 1]

ReverseSorted(paths) == Reverse(Sorted(paths))

(* utils.partition_path: the loop goes from the path up, one os.path.split *)
(* at a time, and appends what it finds, the root twice; the result is the *)
(* set of those, sorted.                                                   *)
RECURSIVE PathPieces(_, _)
PathPieces(curPath, pieces) ==
    LET tmpPath == ParentPath(curPath)
    IN  IF tmpPath = curPath THEN Append(pieces, tmpPath)
        ELSE PathPieces(tmpPath, Append(pieces, tmpPath))

PartitionPath(path) == Given(Range(PathPieces(path, <<path>>)), Sorted)

=============================================================================
