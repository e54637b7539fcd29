--------------------------- MODULE MCRoutedTransfer ---------------------------
\* RoutedTransfer for TLC.
EXTENDS RoutedTransfer

CONSTANT a    \* the origin

MCSenders == { a }
MCLens    == { 2, 6 }
MCTypes   == { 65, EXTERNAL_DATA_TYPE }
=============================================================================
