------------------------------ MODULE MCLauncher -------------------------------
(* A folder with three files of two formats, two interchangeable directories.   *)
EXTENDS Launcher, TLC

TwoFormats == <<1, 2, 2>>
DirSymmetry == Permutations(Dirs)
=============================================================================
