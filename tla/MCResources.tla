----------------------------- MODULE MCResources -----------------------------
(* What a guest opens, shares and gives back, one subject at a time.         *)
(* "files": two inodes and two descriptors, so that a number freed by one    *)
(* file is given to the next, a file of at most two bytes, and a program of  *)
(* file handles and mappings, streams, duplicated handles or locks.          *)
(* "search": searches of a directory of up to three names.                   *)
(* "objects": the objects of Direct3D 8, in a heap of six blocks that holds  *)
(* a texture of two levels.  "frames": its frames, of two draws each and a   *)
(* swapchain of two images.                                                  *)
EXTENDS Files, FindFiles, D3DObjects, D3DFrames

MCAlphabet == <<1, 2, 3>>

VARIABLE subject

resourcesVars == <<vars, findVars, objVars, frameVars, subject>>

Handles  == {"CreateFile", "ReadFile", "WriteFile", "SetFilePointer", "DeleteFile",
             "SetEndOfFile", "CreateFileMapping"}
Streams  == {"fopen", "_open", "fread", "fwrite", "fseek", "_lseek", "fclose"}
Shared   == {"CreateFile", "DuplicateHandle", "LockFile"}
Locking  == {"CreateFile", "LockFile", "DeleteFile"}
AllPrograms == {Handles, Streams, Shared, Locking}

Textures == {"CreateTexture", "GetSurfaceLevel", "SetTexture"}
Buffers == {"CreateVertexBuffer", "AddRef", "SetStreamSource", "CreateImageSurface"}
BackBuffer == {"GetBackBuffer", "CreateImageSurface", "Reset"}
Targets == {"GetRenderTarget", "GetBackBuffer"}
AllObjPrograms == {Textures, Buffers, BackBuffer, Targets, {}}

Scenes == {"scene", "resize", "Reset", "blend"}
Uploads == {"scene", "Reset", "UnlockRect"}
TextureLocks == {"scene", "UnlockRect", "TextureUnlockRect"}
AllFramePrograms == {{}, Scenes, Uploads, TextureLocks}

ResourcesInit ==
    /\ subject \in {"files", "search", "objects", "frames"}
    (* the components the behaviour is not about have one initial state *)
    /\ IF subject = "files" THEN TRUE
       ELSE program = Shared /\ bytes = [j \in Inode |-> IF j = 1 THEN <<1>> ELSE << >>]
    /\ IF subject = "search" THEN TRUE ELSE listed = {}
    /\ Init /\ FindInit /\ ObjInit /\ FrameInit
    /\ subject = "objects" <=> objProgram # {}
    /\ subject = "frames" <=> frameProgram # {}
    /\ subject # "objects" => extent = Min(Sizes)

ResourcesNext ==
    /\ UNCHANGED subject
    /\ \/ subject = "files" /\ Next /\ UNCHANGED <<findVars, objVars, frameVars>>
       \/ subject = "search" /\ FindNext /\ UNCHANGED <<vars, objVars, frameVars>>
       \/ subject = "objects" /\ ObjNext /\ UNCHANGED <<vars, findVars, frameVars>>
       \/ subject = "frames" /\ FrameNext /\ UNCHANGED <<vars, findVars, objVars>>

ResourcesSpec == ResourcesInit /\ [][ResourcesNext]_resourcesVars
=============================================================================
