------------------------------- MODULE MCUsbOut -------------------------------
(* UsbOut with a command and a frame that lacks its star.                      *)
EXTENDS UsbOut

SomePackets == {<<"STX", "R", "*", "ETX">>, <<"STX", "R", "other", "ETX">>}
=============================================================================
