------------------------------ MODULE MCPosix ------------------------------
\* Volume 0 has no prefix; volume 1 has one.
EXTENDS Posix

MCInodes == 2 .. 3
MCPrefix == 0 :> <<>> @@ 1 :> <<"v1">>
MCPaths == {<<"a">>, <<"..", "b">>, <<"v1">>}
MCOpenFlags == {{"RDONLY", "SYMLINK"}, {"RDONLY"}, {"RDONLY", "CREAT"}, {"RDWR", "CREAT", "EXCL"}}
MCMasks == {{}}
MCMountFlags == {{}, {"READONLY"}, {"SKIP_DELETE"}}
=============================================================================
