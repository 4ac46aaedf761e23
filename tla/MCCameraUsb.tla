---------------------------- MODULE MCCameraUsb ----------------------------
EXTENDS CameraUsb

\* Two transfers per stream instead of 16.
CONSTANTS x1, x2
MCXfers == {x1, x2}
=============================================================================
