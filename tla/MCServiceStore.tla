--------------------------- MODULE MCServiceStore ---------------------------
(* Small instances of ServiceStore for TLC. *)
EXTENDS ServiceStore

(* What the rtsp probe finds, which tags it a camera, and what a signature
   calls a camera although it is neither (hikvision-ipcam.yaml): with two of
   these, two services share the temporary file of cameras. *)
Cameras == {{"rtsp", "camera"}, {"camera"}}

(* A web server, and later something else on its port. *)
WebOrNot == {{"http"}, {}}

OneUrl(kind) == 1

=============================================================================
