---------------------------- MODULE MCExportRecord ----------------------------
EXTENDS ExportRecord
===============================================================================
