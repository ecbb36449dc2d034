------------------------------- MODULE MCKvfs -------------------------------
(* Model values for Kvfs: the names, links and paths of main(), shortened: *)
(* a volume v with directories w and x, the drive c: linked to v, the      *)
(* directories g and dos linked to the drives and to the root, and s       *)
(* linked to w twice over: SysWOW64, of which main() makes System32 a link *)
(* to itself.                                                              *)
EXTENDS Kvfs

CONSTANTS file, other, lc, lg, ldos, lsys, lagain

New(p, o)  == [path |-> p, ob |-> o]
Look(p, f) == [path |-> p, reparse |-> f]

MCObjects == {file, other, lc, lg, ldos, lsys, lagain}
MCTarget  == [o \in {lc, lg, ldos, lsys, lagain} |->
                CASE o = lc -> <<"v">> [] o = lg -> <<"b">> [] o = ldos -> <<>>
                  [] o \in {lsys, lagain} -> <<"v", "w">>]
MCCreations ==
    {New(<<"v", "w", "f">>, file),
     New(<<"g">>, other), New(<<"..", "v">>, other),
     New(<<"b", "c">>, lc), New(<<"g">>, lg),
     New(<<"dos">>, ldos), New(<<"g", "c", "x">>, NULL),
     New(<<"v", "s">>, lsys), New(<<"v", "s">>, lagain),
     New(<<"v", ".", "x", "..", "w">>, NULL)}
MCLookups ==
    {Look(<<"g", "c", "w", "f">>, TRUE), Look(<<"dos", ".", "g", "c">>, TRUE),
     Look(<<"g", "..", "b", "c">>, FALSE), Look(<<"dos", "g", "c", "..", "v">>, TRUE),
     Look(<<"v", "s", "f">>, TRUE), Look(<<"..">>, TRUE)}
=============================================================================
