-------------------------- MODULE MCManifestBuild --------------------------
(* Model checking of ManifestBuild: two routes, in two buckets, and three  *)
(* objects of any of these kinds, archived on 5 March 2024.                *)
EXTENDS ManifestBuild, TLC
March5 == Day(2024, 3, 5)
Year2023 == <<2023>>
February == <<2024, 2>>
a == <<"text", 1>>
b == <<"text", 2>>
Date(y, m, d) == <<<<"year", y>>, <<"two", m>>, <<"two", d>>>>
At(y, m, d) == Time(Day(y, m, d), 0)
Object(bucket, f, stamps, n) ==
  [bucket |-> bucket, folder |-> f, stamps |-> stamps, malformed |-> FALSE,
   modified |-> At(2024, 2, 29), size |-> n]
Leap == {At(2024, 2, 29)}
Kinds ==
  {Object(1, <<>>, Leap, 1), Object(1, <<a>>, Leap, 1), Object(1, <<a>>, Leap, 3), Object(1, <<a>>, Leap, 11),
   Object(1, <<a>>, Leap, 13), Object(1, <<a>>, {At(2024, 3, 5)}, 1), Object(1, <<a>>, {At(2024, 3, 1)}, 1),
   [Object(1, <<a>> \o Date(2024, 2, 1), {}, 1) EXCEPT !.malformed = TRUE],
   Object(1, <<a>> \o Date(2024, 2, 28) \o <<<<"stamp", At(2024, 2, 29)>>>>, {}, 1),
   Object(1, <<a>> \o Date(2024, 2, 28) \o <<<<"two", 6>>, b>>, {}, 1),
   Object(1, <<a, a>> \o Date(2024, 2, 28) \o <<<<"two", 6>>, b>>, {}, 1),
   Object(1, <<a, b>>, Leap, 1), Object(2, <<>>, Leap, 1), Object(2, <<a>>, Leap, 11)}
Spec1(bucket, p, parser, m, d) ==
  [bucket |-> bucket, path |-> p, parser |-> parser, mode |-> m, destination |-> d]
TarAll == Spec1(1, <<>>, "filename_timestamp", "daily_tar_gz", None)
TarA == Spec1(1, <<a>>, "filename_timestamp", "daily_tar_gz", None)
ChildAll == Spec1(1, <<>>, "folder_timestamp_child", "timestamp_child_tar_gz", <<b>>)
ChildA == Spec1(1, <<a>>, "folder_timestamp_child", "timestamp_child_tar_gz", <<b>>)
FolderAll == Spec1(1, <<>>, "folder_timestamp", "daily_tar_gz", <<b>>)
DirectAB == Spec1(1, <<a, b>>, "direct", "direct", <<<<"text", 3>>>>)
Other(d) == Spec1(2, <<>>, "direct", "daily_tar_gz", d)
OtherA == Spec1(2, <<a>>, "filename_timestamp", "direct", <<>>)
Mispaired == Spec1(1, <<>>, "folder_timestamp_child", "daily_tar_gz", <<a>>)
Lists ==
  {<<TarAll, TarA>>, <<TarA, DirectAB>>, <<TarAll, OtherA>>, <<ChildAll, Other(<<a>>)>>, <<ChildA, FolderAll>>,
   <<OtherA, Other(<<a>>)>>, <<FolderAll, TarA>>, <<TarA, Other(<<b>>)>>, <<TarAll, Other(<<a>>)>>, <<OtherA, Mispaired>>}
=============================================================================
